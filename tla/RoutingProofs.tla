----------------------------- MODULE RoutingProofs ----------------------------
(***************************************************************************)
(* Proofs about module InputRouting, on the lemmas of EngineProofs.        *)
(*                                                                         *)
(* RInv is about what lies between the hook and the engine: the queue      *)
(* leads from the engine's physical keys to the hook's ledger, its wake-up *)
(* is never lost, and an unhooked engine presses nothing.  Of the engine   *)
(* it needs the types, and what a handler does to the physical keys and    *)
(* the expiry queue.                                                       *)
(*                                                                         *)
(* SteadyInv adds what holds while the target stays in front: everything   *)
(* held or sent is meant for it, and a pause in OFF, or a mode about to    *)
(* change, leaves nothing held and nothing waited for.  NewestInv adds,    *)
(* outside OFF, what decides which key of an axis is held: every edge is   *)
(* acted upon, the batch carries exactly the engine's logical state, and   *)
(* that follows the physical keys of each axis, newest first.  StuckInv    *)
(* adds what will end each key that is down for the system, and            *)
(* KeyDownInv, where no brake starts, that what is held is down for it.    *)
(***************************************************************************)
EXTENDS InputRouting, EngineProofs

-----------------------------------------------------------------------------
(***************************************************************************)
(* What a handler does to the physical keys and the expiry queue, from any *)
(* well-typed state: behind the hook's queue a handler may find states the *)
(* invariant above does not describe (an edge routed before a pause is     *)
(* handled during it), but never an ill-typed one.                         *)
(***************************************************************************)
Typed(e) ==
  /\ e \in EngineState /\ Len(e.expired) <= MaxExpired
  /\ \A k \in Keys : LastIsOfAxis(e, k)

\* Every timer the engine waits for was armed for t.
Aims(e, t) == \A k \in Keys : e.expect[k] # NoTimer => e.expectTarget[k] = t

\* r is well typed and has e's physical keys, newest keys, expiry queue and pause;
\* it adds no native key, and no timer for another target than t.
Alike(e, r, t) ==
  /\ r \in EngineState /\ r.phys = e.phys /\ r.last = e.last /\ r.expired = e.expired
  /\ r.suspended = e.suspended
  /\ e.native = {} => r.native = {}
  /\ Aims(e, t) => Aims(r, t)

\* Steps, one after the other.
LEMMA AlikeTrans ==
  ASSUME NEW e, NEW f, NEW g, NEW t, Alike(e, f, t), Alike(f, g, t)
  PROVE  Alike(e, g, t)
BY DEF Alike

\* A typed state stays typed.
LEMMA AlikeTyped ==
  ASSUME NEW e, NEW r, NEW t, Typed(e), Alike(e, r, t)
  PROVE  Typed(r)
BY DEF Alike, Typed, LastIsOfAxis

\* Only Expect names a target, and whoever forgets one stops waiting.
LEMMA StepsAim ==
  ASSUME NEW e, e \in EngineState, NEW k \in Keys, NEW t \in Identity, Aims(e, t)
  PROVE  /\ Aims(PressIfUp(e, k), t) /\ Aims(ReleaseIfDown(e, k), t)
         /\ Aims(StopExpecting(e, k), t)
         /\ Aims(ScheduleTimer(e, k), t) /\ Aims(Expect(e, k, t), t)
         /\ Aims(CancelTimer(e, k), t)
<1>1. Aims(PressIfUp(e, k), t) /\ Aims(ReleaseIfDown(e, k), t)
  BY DEF PressIfUp, ReleaseIfDown, Aims, EngineState
<1>2. Aims(StopExpecting(e, k), t) /\ Aims(CancelTimer(e, k), t) /\ Aims(ScheduleTimer(e, k), t)
  BY DEF StopExpecting, CancelTimer, ScheduleTimer, Aims, EngineState
<1>3. Aims(Expect(e, k, t), t)
  BY DEF Expect, Aims, EngineState
<1> QED BY <1>1, <1>2, <1>3

\* Several keys or axes at once.
LEMMA AllAim ==
  ASSUME NEW e \in EngineState, NEW S \in SUBSET Keys, NEW t \in Identity, Aims(e, t)
  PROVE  Aims(DisarmAll(e, S), t)
BY DEF DisarmAll, Aims, EngineState

LEMMA TransitionsAim ==
  ASSUME NEW e \in EngineState, NEW A \in SUBSET Axes, NEW t \in Identity, Aims(e, t)
  PROVE  Aims(CancelTransitions(e, A), t)
<1> DEFINE S == UNION {InTransition(e, ax) : ax \in A}
           d == DisarmAll(e, S)
           r == CancelTransitions(e, A)
<1>1. S \in SUBSET Keys
  BY AxisFacts DEF InTransition, Axes
<1> HIDE DEF S
<1>2. Aims(d, t) /\ d \in EngineState
  BY <1>1, AllAim, DisarmFields
<1>3. r = [d EXCEPT !.socd = [ax \in Axes |-> IF ax \in A THEN NoTimer ELSE @[ax]]]
  BY DEF CancelTransitions, S
<1> HIDE DEF d, r
<1>4. r.expect = d.expect /\ r.expectTarget = d.expectTarget
  BY <1>2, <1>3 DEF EngineState
<1> QED BY <1>2, <1>4 DEF Aims, r

\* TrackNativeMovement arms nothing.
LEMMA TrackAims ==
  ASSUME NEW e \in EngineState, NEW c, NEW t \in Identity, Aims(e, t)
  PROVE  Aims(TrackIfOff(e, c), t)
BY DEF TrackIfOff, TrackNativeMovement, EngineState, Aims

\* The steps handlers are made of touch neither.
LEMMA StepsAlike ==
  ASSUME NEW e, Typed(e), NEW k \in Keys, NEW t \in Identity
  PROVE  /\ Alike(e, e, t)
         /\ Alike(e, PressIfUp(e, k), t) /\ Alike(e, ReleaseIfDown(e, k), t)
         /\ Alike(e, StopExpecting(e, k), t) /\ Alike(e, DisarmAll(e, AxisOf(k)), t)
         /\ Alike(e, ScheduleTimer(e, k), t) /\ Alike(e, Expect(e, k, t), t)
         /\ Alike(e, CancelTimer(e, k), t) /\ Alike(e, CancelSocdTransition(e, AxisOf(k)), t)
<1>1. /\ e \in EngineState /\ Len(e.expired) <= MaxExpired /\ AxisOf(k) \in SUBSET Keys
      /\ {AxisOf(k)} \in SUBSET Axes
  BY AxisFacts DEF Typed
<1>2. Alike(e, e, t) /\ Alike(e, PressIfUp(e, k), t) /\ Alike(e, ReleaseIfDown(e, k), t)
  <2>1. Alike(e, PressIfUp(e, k), t)
    BY <1>1, PressFields, StepsAim DEF Alike
  <2>2. Alike(e, ReleaseIfDown(e, k), t)
    BY <1>1, ReleaseFields, StepsAim DEF Alike
  <2> QED BY <1>1, <2>1, <2>2 DEF Alike
<1>3. Alike(e, StopExpecting(e, k), t) /\ Alike(e, DisarmAll(e, AxisOf(k)), t)
  BY <1>1, StopFields, DisarmFields, StepsAim, AllAim DEF Alike
<1>4. Alike(e, ScheduleTimer(e, k), t) /\ Alike(e, Expect(e, k, t), t)
  BY <1>1, ScheduleFields, ExpectFields, StepsAim DEF Alike
<1>5. Alike(e, CancelTimer(e, k), t)
  <2>1. Aims(e, t) => Aims(CancelTimer(e, k), t)
    BY <1>1, StepsAim
  <2> HIDE DEF Aims
  <2> QED BY <1>1, <2>1 DEF CancelTimer, Alike, EngineState, TimerRef
<1>6. Alike(e, CancelSocdTransition(e, AxisOf(k)), t)
  BY <1>1, CancelFields, TransitionsAim DEF Alike, CancelSocdTransition
<1> QED BY <1>2, <1>3, <1>4, <1>5, <1>6

\* Engage and CancelStaleCounterStrafe.
LEMMA EngageAlike ==
  ASSUME NEW e, Typed(e), NEW k \in Keys, NEW c, NEW t \in Identity
  PROVE  Alike(e, Engage(e, k, c), t) /\ Alike(e, CancelStaleCounterStrafe(e, k), t)
<1>1. Alike(e, [e EXCEPT !.logical = @ \union {k}], t)
  BY DEF Typed, Alike, EngineState, Aims
<1>2. Alike(e, PressIfUp(e, k), t) /\ Alike(e, StopExpecting(e, k), t)
  BY StepsAlike DEF Identity
<1>3. Alike(e, ReleaseIfDown(StopExpecting(e, k), k), t)
  <2> DEFINE s == StopExpecting(e, k)
  <2>1. Alike(e, s, t) /\ Typed(s)
    BY <1>2, AlikeTyped
  <2> HIDE DEF s
  <2>2. Alike(s, ReleaseIfDown(s, k), t)
    BY <2>1, StepsAlike DEF Identity
  <2>3. Alike(e, ReleaseIfDown(s, k), t)
    BY <2>1, <2>2, AlikeTrans
  <2> QED BY <2>3 DEF s
<1> QED BY <1>1, <1>2, <1>3 DEF Engage, CancelStaleCounterStrafe

\* ResolveConflict, whichever of the two keys is socdLastKey.
LEMMA ResolveConflictAlike ==
  ASSUME NEW e, Typed(e), NEW k \in Keys, NEW press, NEW c, NEW t \in Identity, c.target = t
  PROVE  Alike(e, ResolveConflict(e, AxisOf(k), press, c), t)
<1> DEFINE ax == AxisOf(k)
           winner == e.last[ax]
           loser == Opposite[winner]
           idle == DisarmAll(e, ax)
           timed == ScheduleTimer(idle, loser)
           x == Expect(timed, loser, c.target)
           kept == [x EXCEPT !.socd[ax] = timed.armed[loser]]
           freed == ReleaseIfDown(idle, loser)
<1>1. winner \in Keys /\ loser \in Keys /\ ax \in Axes
  BY AxisFacts DEF Typed, LastIsOfAxis
<1>2. Alike(e, idle, t) /\ Typed(idle)
  BY StepsAlike, AlikeTyped DEF Identity
<1> HIDE DEF idle, winner, loser
<1>3. Alike(idle, timed, t) /\ Typed(timed) /\ Alike(idle, freed, t) /\ Typed(freed)
  BY <1>1, <1>2, StepsAlike, AlikeTyped DEF Identity
<1>4. timed.armed[loser] \in TimerRef
  BY <1>1, <1>3 DEF Typed, EngineState
<1> HIDE DEF timed, freed
<1>5. Alike(timed, x, t) /\ Typed(x)
  BY <1>1, <1>3, StepsAlike, AlikeTyped
<1> HIDE DEF x
<1>6. Alike(x, kept, t)
  BY <1>1, <1>4, <1>5 DEF Alike, Typed, EngineState, Aims
<1>7. Typed(kept)
  BY <1>5, <1>6, AlikeTyped
<1> HIDE DEF kept
<1>8. Alike(e, kept, t) /\ Alike(e, freed, t)
  BY <1>2, <1>3, <1>5, <1>6, AlikeTrans
<1>9. Alike(kept, PressIfUp(kept, winner), t) /\ Alike(freed, PressIfUp(freed, winner), t)
  BY <1>1, <1>3, <1>7, StepsAlike DEF Identity
<1>10. Alike(e, PressIfUp(kept, winner), t) /\ Alike(e, PressIfUp(freed, winner), t)
  BY <1>8, <1>9, AlikeTrans
<1> QED BY <1>2, <1>10 DEF ResolveConflict, idle, winner, loser, timed, x, kept, freed

\* ResolveAxis.
LEMMA ResolveAxisAlike ==
  ASSUME NEW e, Typed(e), NEW k \in Keys, NEW press \in BOOLEAN, NEW c, NEW t \in Identity, c.target = t
  PROVE  Alike(e, ResolveAxis(e, AxisOf(k), press, c), t)
<1> DEFINE ax == AxisOf(k)
           d == CancelSocdTransition(e, ax)
           now == e.phys \intersect ax
           moved == [d EXCEPT !.axisState[ax] = now]
           only == CHOOSE j \in now : TRUE
<1>1. ax \in Axes /\ ax \subseteq Keys /\ e \in EngineState
  BY AxisFacts DEF Typed
<1>2. Alike(e, d, t)
  BY StepsAlike DEF Identity
<1> HIDE DEF d
<1>3. now \in SUBSET Keys
  BY <1>1
<1> HIDE DEF now
<1>4. Alike(d, moved, t)
  BY <1>1, <1>2, <1>3 DEF Alike, EngineState, Aims
<1>5. Alike(e, moved, t) /\ Typed(moved) 
  BY <1>2, <1>4, AlikeTrans, AlikeTyped
<1>6. ResolveAxis(e, ax, press, c) =
        CASE now = e.axisState[ax] /\ ~(press /\ now = ax) -> e
          [] ~(now = e.axisState[ax] /\ ~(press /\ now = ax)) ->
               CASE now = ax -> ResolveConflict(moved, ax, press, c)
                 [] now = {} -> moved
                 [] now \notin {ax, {}} /\ e.axisState[ax] = ax -> Engage(moved, only, c)
                 [] now \notin {ax, {}} /\ e.axisState[ax] # ax ->
                      CancelStaleCounterStrafe(moved, Opposite[only])
  BY DEF ResolveAxis, moved, now, d
<1> HIDE DEF moved
<1>7. Alike(e, e, t)
  BY <1>1 DEF Alike
<1>8. Alike(e, ResolveConflict(moved, ax, press, c), t)
  BY <1>5, ResolveConflictAlike, AlikeTrans
<1>9. ASSUME now # {}
      PROVE  /\ Alike(e, Engage(moved, only, c), t)
             /\ Alike(e, CancelStaleCounterStrafe(moved, Opposite[only]), t)
  <2>1. only \in Keys /\ Opposite[only] \in Keys
    BY <1>3, <1>9, AxisFacts
  <2> HIDE DEF only
  <2>2. /\ Alike(moved, Engage(moved, only, c), t)
        /\ Alike(moved, CancelStaleCounterStrafe(moved, Opposite[only]), t)
    BY <1>5, <2>1, EngageAlike
  <2> QED BY <1>5, <2>2, AlikeTrans
<1> HIDE DEF only
<1> DEFINE r == ResolveAxis(e, ax, press, c)
<1>10. \/ r = e \/ r = ResolveConflict(moved, ax, press, c) \/ r = moved
       \/ now # {} /\ r = Engage(moved, only, c)
       \/ now # {} /\ r = CancelStaleCounterStrafe(moved, Opposite[only])
  BY <1>6
<1> HIDE DEF r
<1>11. Alike(e, r, t)
  BY <1>5, <1>7, <1>8, <1>9, <1>10
<1> QED BY <1>11 DEF r

\* AutoCounterStrafe, whether the brake starts or not.
LEMMA AutoCounterStrafeAlike ==
  ASSUME NEW e, Typed(e), NEW k \in Keys, NEW c, NEW t \in Identity, c.target = t,
         c.travel \in AxisOf(k) \union {NoKey}
  PROVE  Alike(e, AutoCounterStrafe(e, k, c)[2], t)
<1> DEFINE rel == c.travel
           counter == Opposite[rel]
           overlap == c.overlap /\ rel \in e.logical
           refused == NoBrake(e, k, c) \/ (overlap /\ rel \in c.refused)
           i == IF overlap THEN ScheduleTimer(e, rel) ELSE e
           b == BrakeOf(e, rel, c)
           w == CancelTimer(i, rel)
<1>1. Alike(e, e, t)
  BY StepsAlike DEF Identity
<1>2. CASE rel = NoKey
  BY <1>1, <1>2 DEF AutoCounterStrafe, NoBrake
<1>3. CASE rel # NoKey
  <2>1. rel \in Keys /\ counter \in Keys
    BY <1>3, AxisFacts
  <2>2. Alike(e, i, t) /\ Typed(i)
    BY <1>1, <2>1, StepsAlike, AlikeTyped DEF Identity
  <2>3. Alike(e, w, t)
    <3> HIDE DEF i
    <3>1. Alike(i, w, t)
      BY <2>1, <2>2, StepsAlike DEF Identity
    <3> QED BY <2>2, <3>1, AlikeTrans
  <2>4. Alike(e, b, t)
    <3> DEFINE a == ScheduleTimer(i, counter)
               x == Expect(a, rel, c.target)
               n == [a EXCEPT !.expect[rel] = NoTimer]
               f == ReleaseIfDown(n, rel)
               z == IF overlap THEN x ELSE f
               p == PressIfUp(z, counter)
               r == Expect(p, counter, c.target)
    <3>1. b = r
      BY DEF BrakeOf
    <3> HIDE DEF i
    <3>2. Alike(i, a, t) /\ Typed(a)
      BY <2>1, <2>2, StepsAlike, AlikeTyped DEF Identity
    <3> HIDE DEF a
    <3>3. Alike(a, x, t)
      BY <2>1, <3>2, StepsAlike
    <3>4. Alike(a, n, t) /\ Typed(n)
      <4>1. Alike(a, n, t)
        BY <2>1, <3>2 DEF Typed, Alike, EngineState, TimerRef, Aims
      <4> QED BY <3>2, <4>1, AlikeTyped
    <3> HIDE DEF x, n
    <3>5. Alike(n, f, t)
      BY <2>1, <3>4, StepsAlike DEF Identity
    <3>6. Alike(a, z, t) /\ Typed(z)
      BY <3>2, <3>3, <3>4, <3>5, AlikeTrans, AlikeTyped
    <3> HIDE DEF z
    <3>7. Alike(z, p, t) /\ Typed(p)
      BY <2>1, <3>6, StepsAlike, AlikeTyped DEF Identity
    <3> HIDE DEF p
    <3>8. Alike(p, r, t)
      BY <2>1, <3>7, StepsAlike
    <3> HIDE DEF r
    <3> QED BY <2>2, <3>1, <3>2, <3>6, <3>7, <3>8, AlikeTrans
  <2>5. AutoCounterStrafe(e, k, c) =
          CASE refused -> <<FALSE, e>>
            [] ~refused /\ counter \in c.refused -> <<FALSE, IF overlap THEN w ELSE e>>
            [] ~refused /\ counter \notin c.refused -> <<TRUE, b>>
    BY DEF AutoCounterStrafe, BrakeOf
  <2> HIDE DEF w, b, refused, overlap
  <2> QED BY <1>1, <2>3, <2>4, <2>5
<1> QED BY <1>2, <1>3

\* RoutedKeyUp.
LEMMA RoutedKeyUpAlike ==
  ASSUME NEW e, Typed(e), NEW k \in Keys, NEW c, NEW t \in Identity, c.target = t,
         c.travel \in AxisOf(k) \union {NoKey}
  PROVE  Alike(e, RoutedKeyUp(e, k, c), t)
<1> DEFINE brake == AutoCounterStrafe(e, k, c)
           after == CASE MacroBrakePending(e, k) -> <<TRUE, e>>
                      [] ~MacroBrakePending(e, k) /\ Opposite[k] \notin e.phys -> brake
                      [] ~MacroBrakePending(e, k) /\ Opposite[k] \in e.phys -> <<FALSE, e>>
           z == IF after[1] THEN after[2] ELSE ReleaseIfDown(after[2], k)
<1>1. Alike(e, brake[2], t) /\ Alike(e, e, t)
  BY AutoCounterStrafeAlike, StepsAlike DEF Identity
<1> HIDE DEF brake
<1>2. Alike(e, after[2], t) /\ Typed(after[2])
  <2>1. Alike(e, after[2], t)
    BY <1>1
  <2> QED BY <2>1, AlikeTyped
<1>3. RoutedKeyUp(e, k, c) = ResolveAxis(z, AxisOf(k), FALSE, c)
  BY DEF RoutedKeyUp, brake
<1> HIDE DEF after
<1>4. Alike(e, ReleaseIfDown(after[2], k), t)
  BY <1>2, StepsAlike, AlikeTrans DEF Identity
<1>5. Alike(e, z, t) /\ Typed(z)
  BY <1>2, <1>4, AlikeTyped
<1> HIDE DEF z
<1>6. Alike(z, ResolveAxis(z, AxisOf(k), FALSE, c), t)
  BY <1>5, ResolveAxisAlike
<1> QED BY <1>3, <1>5, <1>6, AlikeTrans

\* What the pause does not keep from happening to a key that goes down.
LEMMA RecordedAims ==
  ASSUME NEW e \in EngineState, NEW k \in Keys, NEW c, c.held \subseteq Slots,
         NEW t \in Identity
  PROVE  /\ Aims(e, t) => Aims(Recorded(e, k, c), t)
         /\ c.mode # "OFF" => /\ Recorded(e, k, c).native = e.native
                             /\ Recorded(e, k, c).logical = e.logical
<1> DEFINE p == [e EXCEPT !.phys = @ \union {k}, !.last[AxisOf(k)] = k]
           s == IF MacroBrakePending(p, k) THEN p ELSE StopExpecting(p, k)
<1>1. /\ p \in EngineState /\ p.native = e.native /\ p.logical = e.logical
      /\ Aims(e, t) => Aims(p, t)
  BY DEF EngineState, Aims
<1> HIDE DEF p
<1>2. /\ StopExpecting(p, k) \in EngineState /\ StopExpecting(p, k).native = p.native
      /\ StopExpecting(p, k).logical = p.logical
      /\ Aims(p, t) => Aims(StopExpecting(p, k), t)
  BY <1>1, StopFields, StepsAim
<1>3. /\ s \in EngineState /\ s.native = e.native /\ s.logical = e.logical
      /\ Aims(e, t) => Aims(s, t)
  BY <1>1, <1>2
<1>4. Recorded(e, k, c) = TrackIfOff(s, c)
  BY DEF Recorded, p
<1> HIDE DEF s
<1>5. Aims(s, t) => Aims(TrackIfOff(s, c), t)
  BY <1>3, TrackAims
<1>6. c.mode # "OFF" => TrackIfOff(s, c) = s
  BY DEF TrackIfOff
<1> QED BY <1>3, <1>4, <1>5, <1>6

\* HandleKeyDown records the key, whatever else it does.
LEMMA HandleKeyDownTyped ==
  ASSUME NEW e, Typed(e), NEW k \in Keys, k \notin e.phys, NEW route \in BOOLEAN,
         NEW c, NEW t \in Identity, c.target = t, c.held \subseteq Slots
  PROVE  LET r == HandleKeyDown(e, k, route, c)
         IN  /\ Typed(r) /\ r.phys = e.phys \union {k} /\ r.expired = e.expired
             /\ r.suspended = e.suspended /\ (Aims(e, t) => Aims(r, t))
             /\ c.mode # "OFF" /\ e.native = {} => r.native = {}
<1> DEFINE ax == AxisOf(k)
           p == [e EXCEPT !.phys = @ \union {k}, !.last[ax] = k]
           s == IF MacroBrakePending(p, k) THEN p ELSE StopExpecting(p, k)
           o == Recorded(e, k, c)
           z == ResolveAxis(o, ax, TRUE, c)
           r == HandleKeyDown(e, k, route, c)
<1>1. /\ Step(k, Opposite[k]) /\ e \in EngineState
      /\ \A j \in Keys : LastIsOfAxis(e, j) /\ AxisOf(j) \in Axes
  BY Axis, AxisFacts DEF Typed
<1>2. /\ OnlyAxis(e, o, ax) /\ o.phys = e.phys \union {k} /\ o.last[ax] = k
  BY <1>1, RecordedStep DEF IsRecorded
<1>10. /\ Aims(e, t) => Aims(o, t)
       /\ c.mode # "OFF" /\ e.native = {} => o.native = {}
  BY <1>1, RecordedAims
<1>3. r = IF ~route THEN o ELSE IF z.axisState[ax] = ax THEN z ELSE Engage(z, k, c)
  <2>1. CASE ~route
    BY <2>1 DEF HandleKeyDown, Recorded
  <2>2. CASE route
    BY <2>2 DEF HandleKeyDown, Recorded
  <2> QED BY <2>1, <2>2
<1> HIDE DEF o
<1>4. Typed(o) /\ o.expired = e.expired
  <2>1. ASSUME NEW j \in Keys PROVE LastIsOfAxis(o, j)
    <3>1. CASE AxisOf(j) = ax
      BY <1>2, <3>1 DEF LastIsOfAxis, AxisOf
    <3>2. CASE AxisOf(j) # ax
      <4>1. j \notin ax
        BY <3>2, AxisFacts
      <4> QED BY <1>1, <1>2, <4>1 DEF OnlyAxis, LastIsOfAxis
    <3> QED BY <3>1, <3>2
  <2> QED BY <1>2, <2>1 DEF OnlyAxis, Typed
<1>5. Alike(o, z, t) /\ Typed(z)
  BY <1>4, ResolveAxisAlike, AlikeTyped
<1> HIDE DEF z
<1>6. Alike(z, Engage(z, k, c), t)
  BY <1>5, EngageAlike
<1>7. Alike(o, Engage(z, k, c), t) /\ Typed(Engage(z, k, c))
  BY <1>5, <1>6, AlikeTrans, AlikeTyped
<1> HIDE DEF r
<1>8. r = o \/ (Typed(r) /\ Alike(o, r, t))
  BY <1>3, <1>5, <1>7
<1>9. /\ Typed(r) /\ r.phys = o.phys /\ r.expired = o.expired
      /\ r.suspended = o.suspended
      /\ Aims(o, t) => Aims(r, t)
      /\ o.native = {} => r.native = {}
  BY <1>4, <1>8 DEF Alike
<1> QED BY <1>2, <1>4, <1>9, <1>10 DEF r, OnlyAxis

\* HandleKeyUp forgets the key, whatever else it does.
LEMMA HandleKeyUpTyped ==
  ASSUME NEW e, Typed(e), NEW k \in Keys, NEW route \in BOOLEAN,
         NEW c, NEW t \in Identity, c.target = t, c.held \subseteq Slots,
         c.travel \in AxisOf(k) \union {NoKey}
  PROVE  LET r == HandleKeyUp(e, k, route, c)
         IN  /\ Typed(r) /\ r.phys = e.phys \ {k} /\ r.expired = e.expired
             /\ r.suspended = e.suspended /\ (Aims(e, t) => Aims(r, t))
             /\ c.mode # "OFF" /\ e.native = {} => r.native = {}
<1> DEFINE ax == AxisOf(k)
           d == CancelSocdTransition(e, ax)
           p == [d EXCEPT !.phys = @ \ {k}]
           u == TrackIfOff(p, c)
           r == HandleKeyUp(e, k, route, c)
<1>1. r = IF k \notin e.phys THEN IF route THEN ResolveAxis(e, ax, FALSE, c) ELSE e
          ELSE IF route THEN RoutedKeyUp(u, k, c) ELSE u
  BY DEF HandleKeyUp
<1> HIDE DEF r
<1>2. Alike(e, e, t) /\ Alike(e, ResolveAxis(e, ax, FALSE, c), t)
  BY StepsAlike, ResolveAxisAlike DEF Identity
<1>3. Alike(e, d, t)
  BY StepsAlike DEF Identity
<1> HIDE DEF d
<1>4. /\ p \in EngineState /\ p.phys = d.phys \ {k} /\ p.last = d.last /\ p.expired = d.expired
      /\ p.suspended = d.suspended /\ p.native = d.native
      /\ Aims(d, t) => Aims(p, t)
  BY <1>3 DEF Alike, EngineState, Aims
<1>5. /\ u \in EngineState /\ u.phys = p.phys /\ u.last = p.last /\ u.expired = p.expired
      /\ u.suspended = p.suspended
      /\ Aims(p, t) => Aims(u, t)
      /\ c.mode # "OFF" => u.native = p.native
  <2> HIDE DEF p
  <2>1. c.mode # "OFF" => u = p
    BY DEF TrackIfOff
  <2> HIDE DEF u
  <2> QED BY <1>4, <2>1, TrackFields, TrackAims DEF u
<1> HIDE DEF p, u
<1>6. /\ Typed(u) /\ u.phys = e.phys \ {k} /\ u.expired = e.expired
      /\ u.suspended = e.suspended
      /\ Aims(e, t) => Aims(u, t)
      /\ c.mode # "OFF" /\ e.native = {} => u.native = {}
  BY <1>3, <1>4, <1>5 DEF Alike, Typed, LastIsOfAxis
<1>7. Alike(u, RoutedKeyUp(u, k, c), t)
  BY <1>6, RoutedKeyUpAlike
<1>8. CASE k \notin e.phys
  <2>1. Alike(e, r, t) /\ Typed(r)
    BY <1>1, <1>2, <1>8, AlikeTyped
  <2> QED BY <1>8, <2>1 DEF Alike, r
<1>9. CASE k \in e.phys
  <2>1. r = u \/ Alike(u, r, t)
    BY <1>1, <1>7, <1>9
  <2>2. /\ Typed(r) /\ r.phys = u.phys /\ r.expired = u.expired
        /\ r.suspended = u.suspended
        /\ Aims(u, t) => Aims(r, t)
        /\ u.native = {} => r.native = {}
    BY <1>6, <2>1, AlikeTyped DEF Alike
  <2> QED BY <1>6, <2>2 DEF r
<1> QED BY <1>8, <1>9

\* OnTimerExpired, for a callback taken from the expiry queue.
LEMMA OnTimerExpiredAlike ==
  ASSUME NEW e, Typed(e), NEW k \in Keys, NEW id, NEW c, NEW t \in Identity
  PROVE  Alike(e, OnTimerExpired(e, k, id, c), t)
<1> DEFINE ax == AxisOf(k)
           opp == Opposite[k]
           a == [e EXCEPT !.expect[k] = NoTimer, !.expectTarget[k] = NoTarget]
           g == [a EXCEPT !.socd[ax] = NoTimer]
           ra == ReleaseIfDown(a, k)
           rg == ReleaseIfDown(g, k)
           pa == PressIfUp(a, opp)
           pr == PressIfUp(ra, opp)
           Landed(x) == [x EXCEPT !.axisState[ax] = e.phys \intersect ax]
           r == OnTimerExpired(e, k, id, c)
<1>1. opp \in Keys /\ ax \in Axes /\ ax \subseteq Keys /\ e \in EngineState
  BY AxisFacts, Zenon DEF Typed
<1>2. \/ r = e
      \/ r = Landed(a) \/ r = Landed(g) \/ r = Landed(ra) \/ r = Landed(rg)
      \/ r = Landed(pa) \/ r = Landed(pr)
  BY Zenon DEF OnTimerExpired
<1>3. Alike(e, e, t)
  BY <1>1 DEF Alike
<1>4. Alike(e, a, t) /\ Typed(a)
  <2>1. Alike(e, a, t)
    BY <1>1 DEF Alike, EngineState, TimerRef, Identity, Aims
  <2> QED BY <2>1, AlikeTyped
<1> HIDE DEF a
<1>5. Alike(e, g, t) /\ Typed(g)
  <2>1. Alike(a, g, t)
    BY <1>1, <1>4 DEF Typed, Alike, EngineState, TimerRef, Aims
  <2> QED BY <1>4, <2>1, AlikeTrans, AlikeTyped
<1> HIDE DEF g
<1>6. Alike(e, ra, t) /\ Typed(ra) /\ Alike(e, rg, t) /\ Alike(e, pa, t)
  <2>1. Alike(a, ra, t) /\ Alike(g, rg, t) /\ Alike(a, pa, t)
    BY <1>1, <1>4, <1>5, StepsAlike DEF Identity
  <2> QED BY <1>4, <1>5, <2>1, AlikeTrans, AlikeTyped
<1> HIDE DEF ra, rg, pa
<1>7. Alike(e, pr, t)
  <2>1. Alike(ra, pr, t)
    BY <1>1, <1>6, StepsAlike DEF Identity
  <2> QED BY <1>6, <2>1, AlikeTrans
<1> HIDE DEF pr
<1>8. ASSUME NEW x, Alike(e, x, t) PROVE Alike(e, Landed(x), t)
  <2>1. e.phys \intersect ax \in SUBSET Keys
    BY <1>1
  <2> QED BY <1>1, <1>8, <2>1 DEF Alike, EngineState, Aims
<1> HIDE DEF Landed, r
<1> QED BY <1>2, <1>3, <1>4, <1>5, <1>6, <1>7, <1>8 DEF r

\* ReconcileInternal(true) lets go of every key, whatever the state.
LEMMA LetGoOfAllAlike ==
  ASSUME NEW e, Typed(e), e.out = <<>>, NEW t \in Identity
  PROVE  /\ Alike(e, LetGoOfAll(e), t) /\ LetGoOfAll(e).out = Events(e.logical, FALSE)
         /\ \A k \in Keys : /\ Falls(LetGoOfAll(e).out, k) <=> k \in e.logical
                            /\ ~Presses(LetGoOfAll(e).out, k)
<1>1. e \in EngineState /\ e.logical \in SUBSET Keys
  BY DEF Typed, EngineState
<1>2. Alike(e, LetGoOfAll(e), t) /\ LetGoOfAll(e).out = Events(e.logical, FALSE)
  BY <1>1, LetGoFields DEF Alike, Aims
<1> DEFINE L == e.logical
<1>3. \A k \in Keys : /\ Falls(Events(L, FALSE), k) <=> k \in L
                      /\ ~Presses(Events(L, FALSE), k)
  <2> HIDE DEF L
  <2> QED BY <1>1, EventsBatch DEF L
<1> QED BY <1>2, <1>3

\* RebuildState takes the keys from the ledger.
LEMMA RebuildTyped ==
  ASSUME NEW e, Typed(e), NEW physical \in SUBSET Keys, NEW c, NEW t \in Identity
  PROVE  LET r == RebuildState(e, physical, c)
         IN  /\ Typed(r) /\ r.phys = physical /\ r.expired = e.expired
             /\ r.suspended = e.suspended /\ (Aims(e, t) => Aims(r, t))
<1> DEFINE p == [e EXCEPT !.phys = physical]
           native == IF ~p.suspended /\ c.active THEN p.phys ELSE {}
           n == [p EXCEPT !.native = native, !.logical = native \union (c.held \intersect Keys)]
           A == {ax \in Axes : ~(ax \subseteq p.phys)}
           calm == CancelTransitions(p, A)
           known == [ax \in Axes |-> p.phys \intersect ax]
           s == [calm EXCEPT !.axisState = known]
           r == RebuildState(e, physical, c)
<1>1. /\ r = IF c.mode = "OFF" THEN ResolveAxes(n)
              ELSE Restore(s, (p.phys \ Suppressed(s)) \union ArmedBrakes(s))
  BY DEF RebuildState, ReconcileLogicalStateFromPhysical, TrackNativeMovement
<1> HIDE DEF r
<1>2. /\ Typed(p) /\ p.phys = physical /\ p.expired = e.expired
      /\ p.suspended = e.suspended /\ (Aims(e, t) => Aims(p, t))
  BY DEF Typed, EngineState, LastIsOfAxis, Aims
<1>3. p \in EngineState
  BY <1>2 DEF Typed
<1> HIDE DEF p
<1>4. /\ Typed(n) /\ n.phys = p.phys /\ n.expired = p.expired
      /\ n.suspended = p.suspended /\ (Aims(p, t) => Aims(n, t))
  <2>1. native \in SUBSET Keys
    BY <1>2
  <2> HIDE DEF native
  <2> QED BY <1>2, <1>3, <2>1 DEF Typed, EngineState, LastIsOfAxis, Aims
<1>5. Alike(p, s, t) /\ Typed(s)
  <2>1. Alike(p, calm, t)
    <3>1. A \in SUBSET Axes
      OBVIOUS
    <3> HIDE DEF A
    <3> QED BY <1>3, <3>1, CancelAllFields, TransitionsAim DEF Alike
  <2>2. known \in [Axes -> SUBSET Keys]
    BY <1>2
  <2> HIDE DEF calm, known
  <2>3. Alike(p, s, t)
    BY <2>1, <2>2 DEF Alike, EngineState, Aims
  <2> QED BY <1>2, <2>3, AlikeTyped
<1> HIDE DEF n, s
<1>6. Alike(n, ResolveAxes(n), t)
  <2> DEFINE both == {k \in n.phys : Opposite[k] \in n.phys}
             void == {k \in Keys \ n.phys : Opposite[k] \in n.phys}
             B    == {ax \in Axes : ax \intersect n.phys # {}}
             rest == CancelTransitions(n, B)
             idle == DisarmAll(rest, both \union void)
             q    == Events(void \intersect n.logical, FALSE)
             out  == idle.out \o q
             target == [k \in Keys |-> IF k \in void THEN rest.expectTarget[k] ELSE idle.expectTarget[k]]
             axes == [ax \in Axes |-> n.phys \intersect ax]
             z == [idle EXCEPT !.expectTarget = target, !.axisState = axes,
                     !.logical = @ \ void, !.out = out]
  <2>1. ResolveAxes(n) = z
    BY DEF ResolveAxes
  <2>2. n \in EngineState /\ n.phys \subseteq Keys
    BY <1>4 DEF Typed, EngineState
  <2>3. Alike(n, rest, t)
    <3>1. B \in SUBSET Axes
      OBVIOUS
    <3> HIDE DEF B
    <3> QED BY <2>2, <3>1, CancelAllFields, TransitionsAim DEF Alike
  <2>4. both \union void \in SUBSET Keys /\ void \intersect n.logical \in SUBSET Keys
    BY <2>2
  <2> HIDE DEF both, void, rest
  <2>5. Alike(n, idle, t)
    BY <2>3, <2>4, DisarmFields, AllAim DEF Alike
  <2>10. \A j \in Keys : idle.expect[j] # NoTimer => target[j] = idle.expectTarget[j]
    <3>1. \A j \in both \union void : idle.expect[j] = NoTimer
      BY <2>3, <2>4, DisarmFields DEF Alike
    <3> HIDE DEF idle
    <3> QED BY <3>1
  <2> HIDE DEF idle
  <2>6. target \in [Keys -> Identity] /\ axes \in [Axes -> SUBSET Keys]
    BY <2>2, <2>3, <2>5 DEF Alike, EngineState
  <2>7. q \in Seq(EventSet)
    BY <2>4, EventsBatch
  <2> HIDE DEF target, axes, q
  <2>8. out \in Seq(EventSet)
    BY <2>5, <2>7 DEF Alike, EngineState, EventSet
  <2> HIDE DEF out
  <2>9. Alike(idle, z, t)
    BY <2>5, <2>6, <2>8, <2>10 DEF Alike, EngineState, EventSet, Aims
  <2> HIDE DEF z
  <2> QED BY <2>1, <2>5, <2>9, AlikeTrans
<1>7. ASSUME NEW D \in SUBSET Keys PROVE Alike(s, Restore(s, D), t)
  <2> DEFINE gone == s.logical \ D
             come == D \ s.logical
             u == Events(gone, FALSE)
             v == Events(come, TRUE)
             d == DisarmAll(s, gone)
             out == (d.out \o u) \o v
             z == [d EXCEPT !.logical = D, !.out = out]
  <2>1. Restore(s, D) = z
    BY DEF Restore
  <2>2. s \in EngineState /\ gone \in SUBSET Keys /\ come \in SUBSET Keys
    BY <1>5 DEF Typed, EngineState
  <2>3. u \in Seq(EventSet) /\ v \in Seq(EventSet)
    BY <2>2, EventsBatch
  <2> HIDE DEF u, v
  <2>4. Alike(s, d, t)
    BY <2>2, DisarmFields, AllAim DEF Alike
  <2> HIDE DEF d
  <2>5. out \in Seq(EventSet)
    BY <2>3, <2>4 DEF Alike, EngineState, EventSet
  <2> HIDE DEF out
  <2>6. Alike(d, z, t)
    BY <2>4, <2>5 DEF Alike, EngineState, EventSet, Aims
  <2> HIDE DEF z
  <2> QED BY <2>1, <2>4, <2>6, AlikeTrans
<1>8. (p.phys \ Suppressed(s)) \union ArmedBrakes(s) \in SUBSET Keys
  BY <1>2, <1>5 DEF ArmedBrakes, Typed, EngineState
<1>9. Alike(n, r, t) \/ Alike(p, r, t)
  BY <1>1, <1>5, <1>6, <1>7, <1>8, AlikeTrans
<1>10. Typed(r) /\ r.phys = physical /\ r.expired = e.expired
       /\ r.suspended = e.suspended /\ (Aims(e, t) => Aims(r, t))
  BY <1>2, <1>4, <1>9, AlikeTyped DEF Alike
<1> QED BY <1>10 DEF r

-----------------------------------------------------------------------------
(* The engine and its boundary behind the hook's queue.                    *)

\* Types of the engine and of the boundary, and what commits maintain.
EngineTyped ==
  /\ Typed(eng) /\ Sound(table) /\ table.held \subseteq Keys
  /\ batchTarget \in Identity /\ config \in Configs
  /\ foreground \in Identity /\ published \in Identity
  /\ Idle => eng.logical = eng.native \union (table.held \intersect Keys)

\* EngineTyped includes the types of module Engine.
LEMMA EngineTypedTypes ==
  ASSUME EngineTyped
  PROVE  /\ TypeOK /\ eng \in EngineState /\ table.held \in SUBSET Slots
         /\ \A t, travel, refused :
              LET c == Situation(t, travel, refused)
              IN  c.target = t /\ c.travel = travel /\ c.held \subseteq Slots
BY DEF EngineTyped, Typed, TypeOK, Sound, SlotTable, Situation

\* A handler that leaves these physical keys and this expiry queue ran.
Ran(physical, expired) ==
  /\ EngineTyped' /\ eng'.phys = physical /\ eng'.expired = expired
  /\ UNCHANGED <<table, config, foreground, published>>

\* Commit records what is held and changes nothing else.
LEMMA CommitAlike ==
  ASSUME NEW e, Typed(e), NEW held, NEW t \in Identity
  PROVE  /\ Alike(e, Commit(e, held), t) /\ Commit(e, held).native = e.native
         /\ Commit(e, held).logical = e.native \union (held \intersect Keys)
         /\ Commit(e, held).out = e.out
<1> DEFINE h == held \intersect Keys
<1>1. e \in EngineState /\ h \in SUBSET Keys
  BY DEF Typed
<1>2. Commit(e, held) = [e EXCEPT !.logical = e.native \union h]
  BY DEF Commit
<1> HIDE DEF h
<1> QED BY <1>1, <1>2 DEF Alike, EngineState, Aims, h

\* A well-typed batch may be handed over.
LEMMA SubmitRan ==
  ASSUME EngineTyped, NEW e, Typed(e), NEW t \in Identity, Submit(e, t)
  PROVE  Ran(e.phys, e.expired) /\ eng'.out = e.out
<1>1. /\ UNCHANGED <<table, config, foreground, published>>
      /\ eng' = IF e.out = <<>> THEN Commit(e, table.held) ELSE e
      /\ batchTarget' = IF e.out = <<>> THEN NoTarget ELSE t
  BY DEF Submit
<1>2. CASE e.out = <<>>
  <2>1. /\ Alike(e, eng', t) /\ eng'.out = e.out
        /\ eng'.logical = eng'.native \union (table.held \intersect Keys)
    BY <1>1, <1>2, CommitAlike
  <2>2. Typed(eng') /\ eng'.phys = e.phys /\ eng'.expired = e.expired
    BY <2>1, AlikeTyped DEF Alike
  <2> QED BY <1>1, <1>2, <2>1, <2>2 DEF EngineTyped, Ran, Identity
<1>3. CASE e.out # <<>>
  BY <1>1, <1>3 DEF EngineTyped, Ran, Idle
<1> QED BY <1>2, <1>3

\* A routed or recorded edge of a key.
LEMMA EdgeRan ==
  ASSUME EngineTyped, NEW k \in Keys, NEW route \in BOOLEAN, NEW t \in Identity, NEW refused,
         NEW travel \in AxisOf(k) \union {NoKey}
  PROVE  /\ KeyDown(k, route, t, refused) => Ran(eng.phys \union {k}, eng.expired)
         /\ KeyUp(k, route, t, travel, refused) => Ran(eng.phys \ {k}, eng.expired)
<1>1. Typed(eng) /\ eng \in EngineState /\ table.held \in SUBSET Slots
  BY EngineTypedTypes DEF EngineTyped
<1>2. ASSUME KeyDown(k, route, t, refused)
      PROVE  Ran(eng.phys \union {k}, eng.expired)
  <2> DEFINE c == Situation(t, NoKey, refused)
             e == HandleKeyDown(eng, k, route, c)
  <2>1. /\ Idle /\ k \notin eng.phys
        /\ IF route THEN Submit(e, t)
           ELSE eng' = e /\ UNCHANGED <<table, batchTarget, config, foreground, published>>
    BY <1>2 DEF KeyDown
  <2>2. c.target = t /\ c.held = table.held
    BY DEF Situation
  <2> HIDE DEF c
  <2>3. Typed(e) /\ e.phys = eng.phys \union {k} /\ e.expired = eng.expired
    BY <1>1, <2>1, <2>2, HandleKeyDownTyped
  <2>4. CASE ~route
    <3>1. e = Recorded(eng, k, c)
      BY <2>1, <2>4 DEF HandleKeyDown, Recorded
    <3>2. eng.logical = eng.native \union (c.held \intersect Keys)
      BY <2>1, <2>2 DEF EngineTyped
    <3>3. e.logical = e.native \union (table.held \intersect Keys)
      <4> HIDE DEF e
      <4> QED BY <1>1, <2>2, <3>1, <3>2, RecordedLogical
    <3> HIDE DEF e
    <3> QED BY <2>1, <2>3, <2>4, <3>3 DEF EngineTyped, Ran
  <2>5. CASE route
    <3> HIDE DEF e
    <3> QED BY <2>1, <2>3, <2>5, SubmitRan
  <2> QED BY <2>4, <2>5
<1>3. ASSUME KeyUp(k, route, t, travel, refused)
      PROVE  Ran(eng.phys \ {k}, eng.expired)
  <2> DEFINE c == Situation(t, travel, refused)
             e == HandleKeyUp(eng, k, route, c)
  <2>1. Submit(e, t)
    BY <1>3 DEF KeyUp
  <2>2. c.target = t /\ c.held = table.held /\ c.travel = travel
    BY DEF Situation
  <2> HIDE DEF c
  <2>3. Typed(e) /\ e.phys = eng.phys \ {k} /\ e.expired = eng.expired
    BY <1>1, <2>2, HandleKeyUpTyped
  <2> HIDE DEF e
  <2> QED BY <2>1, <2>3, SubmitRan
<1> QED BY <1>2, <1>3

\* What is down is owed or released by the batch, and nothing is pressed.
LettingGo ==
  \A k \in Keys : /\ k \in table.held => k \in table.pending \/ Falls(eng.out, k)
                  /\ ~Presses(eng.out, k)

\* ReconcileInternal(true) lets go of whatever the boundary holds.
LEMMA LetGoRan ==
  ASSUME EngineTyped, NEW e, Typed(e), e.out = <<>>, e.logical = eng.logical, Idle,
         NEW t \in Identity, Submit(LetGoOfAll(e), t)
  PROVE  Ran(e.phys, e.expired) /\ LettingGo'
<1> DEFINE r == LetGoOfAll(e)
<1>1. Alike(e, r, t) /\ \A k \in Keys : (Falls(r.out, k) <=> k \in e.logical) /\ ~Presses(r.out, k)
  BY LetGoOfAllAlike
<1> HIDE DEF r
<1>2. Typed(r) /\ r.phys = e.phys /\ r.expired = e.expired
  BY <1>1, AlikeTyped DEF Alike
<1>3. Ran(r.phys, r.expired) /\ eng'.out = r.out
  BY <1>2, SubmitRan DEF r
<1>4. \A k \in Keys : k \in table.held => k \in e.logical
  BY DEF EngineTyped
<1>5. table' = table
  BY <1>3 DEF Ran
<1>6. LettingGo'
  BY <1>1, <1>3, <1>4, <1>5 DEF LettingGo
<1> QED BY <1>2, <1>3, <1>6

\* ClearHeldKeys and Suspend.
LEMMA ClearRan ==
  ASSUME EngineTyped, Idle, NEW t \in Identity,
         Submit(LetGoOfAll(eng), t) \/ Submit(Suspend(eng), t)
  PROVE  Ran(eng.phys, eng.expired) /\ LettingGo'
<1>1. Typed(eng) /\ eng.out = <<>>
  BY DEF EngineTyped, Idle
<1>2. CASE Submit(LetGoOfAll(eng), t)
  BY <1>1, <1>2, LetGoRan
<1>3. CASE Submit(Suspend(eng), t)
  <2> DEFINE e == [eng EXCEPT !.suspended = TRUE]
  <2>1. Typed(e) /\ e.out = <<>> /\ e.logical = eng.logical /\ e.phys = eng.phys
        /\ e.expired = eng.expired
    BY <1>1 DEF Typed, EngineState, LastIsOfAxis
  <2>2. Submit(LetGoOfAll(e), t)
    BY <1>3 DEF Suspend
  <2> HIDE DEF e
  <2>3. Ran(e.phys, e.expired) /\ LettingGo'
    BY <2>1, <2>2, LetGoRan
  <2> QED BY <2>1, <2>3
<1> QED BY <1>2, <1>3

\* A timer expires, or its callback is run.
LEMMA TimerRan ==
  ASSUME EngineTyped
  PROVE  /\ \A k \in Keys : TimerFire(k) =>
              /\ EngineTyped' /\ eng'.phys = eng.phys /\ eng'.out = eng.out
              /\ UNCHANGED <<table, batchTarget, config, foreground, published>>
         /\ DrainTimer => Ran(eng.phys, Tail(eng.expired))
<1>1. Typed(eng) /\ eng \in EngineState /\ eng.expired \in Seq(Keys \X TimerIds)
  BY DEF EngineTyped, Typed, EngineState
<1>2. ASSUME NEW k \in Keys, TimerFire(k)
      PROVE  /\ EngineTyped' /\ eng'.phys = eng.phys /\ eng'.out = eng.out
             /\ UNCHANGED <<table, batchTarget, config, foreground, published>>
  <2> DEFINE q == Append(eng.expired, <<k, eng.armed[k]>>)
  <2>1. /\ eng.armed[k] \in TimerIds /\ Len(eng.expired) < MaxExpired
        /\ eng' = [eng EXCEPT !.armed[k] = NoTimer, !.expired = q]
        /\ UNCHANGED <<table, batchTarget, config, foreground, published>>
    BY <1>1, <1>2 DEF TimerFire, EngineState, TimerRef
  <2>2. q \in Seq(Keys \X TimerIds) /\ Len(q) <= MaxExpired
    BY <1>1, <2>1, EngineAssumption
  <2> HIDE DEF q
  <2>3. /\ Typed(eng') /\ eng'.phys = eng.phys /\ eng'.out = eng.out
        /\ eng'.logical = eng.logical /\ eng'.native = eng.native
    BY <1>1, <2>1, <2>2 DEF Typed, EngineState, TimerRef, LastIsOfAxis
  <2> QED BY <2>1, <2>3 DEF EngineTyped, Idle
<1>3. ASSUME DrainTimer
      PROVE  Ran(eng.phys, Tail(eng.expired))
  <2> DEFINE k  == Head(eng.expired)[1]
             id == Head(eng.expired)[2]
             t  == eng.expectTarget[k]
             c  == Situation(t, NoKey, {})
             q  == Tail(eng.expired)
             e  == Rest(eng)
             r  == OnTimerExpired(e, k, id, c)
  <2>1. /\ Idle /\ eng.expired # <<>>
        /\ IF IsExpected(eng, k, id) THEN Submit(r, t)
           ELSE /\ eng' = e
                /\ UNCHANGED <<table, batchTarget, config, foreground, published>>
    BY <1>3 DEF DrainTimer, Rest
  <2>2. q \in Seq(Keys \X TimerIds) /\ Len(q) <= Len(eng.expired) /\ Head(eng.expired) \in Keys \X TimerIds
    BY <1>1, <2>1, SMTT(60)
  <2>3. k \in Keys /\ t \in Identity /\ Len(q) <= MaxExpired
    <3>1. k \in Keys
      BY <2>2
    <3> HIDE DEF k, q
    <3> QED BY <1>1, <2>2, <3>1, EngineAssumption DEF Typed, EngineState
  <2> HIDE DEF k, id, t, c
  <2>4. /\ Typed(e) /\ e.phys = eng.phys /\ e.expired = q /\ e.out = eng.out
        /\ e.logical = eng.logical /\ e.native = eng.native
    <3> HIDE DEF q
    <3> QED BY <1>1, <2>2, <2>3 DEF Typed, EngineState, LastIsOfAxis, Rest, q
  <2> HIDE DEF e, q
  <2>5. Alike(e, r, t) /\ Typed(r)
    BY <2>3, <2>4, OnTimerExpiredAlike, AlikeTyped
  <2> HIDE DEF r
  <2>6. CASE IsExpected(eng, k, id)
    <3>1. Ran(r.phys, r.expired)
      BY <2>1, <2>3, <2>5, <2>6, SubmitRan
    <3> QED BY <2>4, <2>5, <3>1 DEF Alike, q
  <2>7. CASE ~IsExpected(eng, k, id)
    <3>1. Ran(eng.phys, q)
      BY <2>1, <2>4, <2>7 DEF EngineTyped, Ran, Idle
    <3> QED BY <3>1 DEF q
  <2> QED BY <2>6, <2>7
<1> QED BY <1>2, <1>3

\* What the rebuild takes from the ledger, and the resume before it.
LEMMA RebuildRan ==
  ASSUME EngineTyped, Idle, NEW physical \in SUBSET Keys,
         Submit(RebuildState(eng, physical, Situation(published, NoKey, {})), published)
  PROVE  Ran(physical, eng.expired)
<1> DEFINE e == RebuildState(eng, physical, Situation(published, NoKey, {}))
<1>0. Typed(eng) /\ published \in Identity
  BY DEF EngineTyped
<1>1. Typed(e) /\ e.phys = physical /\ e.expired = eng.expired
  BY <1>0, RebuildTyped
<1> HIDE DEF e
<1> QED BY <1>1, SubmitRan DEF EngineTyped, e

\* The resume only clears the pause and commits.
LEMMA ResumeRan ==
  ASSUME EngineTyped, eng' = Commit(Resume(eng), table.held),
         UNCHANGED <<table, batchTarget, config, foreground, published>>
  PROVE  Ran(eng.phys, eng.expired) /\ (LettingGo => LettingGo')
<1> DEFINE e == Resume(eng)
<1>0. e \in EngineState /\ e.out = eng.out
  BY DEF Resume, EngineTyped, Typed, EngineState
<1>1. Typed(e) /\ e.phys = eng.phys /\ e.expired = eng.expired
  BY DEF Resume, EngineTyped, Typed, EngineState, LastIsOfAxis
<1> HIDE DEF e
<1>2. Alike(e, eng', published) /\ eng'.logical = eng'.native \union (table.held \intersect Keys)
  <2>1. published \in Identity
    BY DEF EngineTyped
  <2> QED BY <1>1, <2>1, CommitAlike DEF e
<1>3. Typed(eng') /\ eng'.phys = eng.phys /\ eng'.expired = eng.expired
  BY <1>1, <1>2, AlikeTyped DEF Alike
<1>4. eng'.out = eng.out
  <2> HIDE DEF e
  <2>1. Commit(e, table.held).out = e.out
    BY <1>0 DEF Commit, EngineState
  <2> QED BY <1>0, <2>1 DEF e
<1> QED BY <1>2, <1>3, <1>4 DEF EngineTyped, Ran, LettingGo

\* One event of the batch is sent.
LEMMA FlushRan ==
  ASSUME EngineTyped, NEW ok \in BOOLEAN, FlushOne(ok)
  PROVE  /\ EngineTyped' /\ eng'.phys = eng.phys /\ eng'.expired = eng.expired
         /\ UNCHANGED <<config, foreground, published>>
         /\ LettingGo => LettingGo'
<1> DEFINE after == SlotsAfter(ok)
           rest == [eng EXCEPT !.out = Tail(@)]
           q == eng.out
           h == Head(q)
<1>1. /\ ~Idle /\ table' = after
      /\ eng' = IF rest.out = <<>> THEN Commit(rest, after.held) ELSE rest
      /\ batchTarget' = IF rest.out = <<>> THEN NoTarget ELSE batchTarget
      /\ UNCHANGED <<config, foreground, published>>
  BY DEF FlushOne, SlotsAfter
<1>2. /\ Typed(eng) /\ eng \in EngineState /\ q \in Seq(EventSet) /\ q # <<>>
      /\ table.held \subseteq Keys /\ table.held \subseteq Slots
  BY <1>1, EngineTypedTypes DEF EngineTyped, Typed, Idle, EngineState, EventSet
<1>3. Sound(after) /\ Sent(table, after, h)
  BY <1>1, <1>2, SlotsAfterSound DEF EngineTyped
<1> HIDE DEF after
<1>4. Tail(q) \in Seq(EventSet) /\ h \in EventSet
  BY <1>2, HeadTailProperties
<1>5. h.key \in Keys /\ (h = Event(h.key, TRUE) \/ h = Event(h.key, FALSE))
  BY <1>4 DEF EventSet, Event
<1>6. after.held \subseteq Keys /\ after.held \subseteq Slots
  <2>1. after.held \subseteq Slots
    BY <1>3 DEF Sound, SlotTable
  <2> QED BY <1>2, <1>3, <1>5, <2>1 DEF Sent
<1> DEFINE tail == Tail(q)
<1>7. /\ Typed(rest) /\ rest.phys = eng.phys /\ rest.expired = eng.expired /\ rest.out = tail
  <2> HIDE DEF tail
  <2> QED BY <1>2, <1>4 DEF Typed, EngineState, EventSet, LastIsOfAxis, tail
<1> HIDE DEF rest
<1>8. /\ Alike(rest, Commit(rest, after.held), published) /\ Commit(rest, after.held).out = rest.out
      /\ Commit(rest, after.held).logical =
           Commit(rest, after.held).native \union (after.held \intersect Keys)
  <2>1. Typed(rest) /\ published \in Identity
    BY <1>7 DEF EngineTyped
  <2> DEFINE held == after.held
  <2> HIDE DEF held
  <2>2. /\ Alike(rest, Commit(rest, held), published) /\ Commit(rest, held).out = rest.out
        /\ Commit(rest, held).native = rest.native
        /\ Commit(rest, held).logical = rest.native \union (held \intersect Keys)
    BY <2>1, CommitAlike
  <2> QED BY <2>2 DEF held
<1>9. /\ Typed(eng') /\ eng'.phys = eng.phys /\ eng'.expired = eng.expired /\ eng'.out = tail
      /\ eng'.out = <<>> => eng'.logical = eng'.native \union (after.held \intersect Keys)
  BY <1>1, <1>7, <1>8, AlikeTyped DEF Alike
<1>10. EngineTyped'
  BY <1>1, <1>3, <1>6, <1>9 DEF EngineTyped, Identity, Idle
<1>11. ASSUME LettingGo, NEW k \in Keys
       PROVE  (k \in after.held => k \in after.pending \/ Falls(tail, k)) /\ ~Presses(tail, k)
  <2>1. /\ Falls(q, k) <=> h = Event(k, FALSE) \/ Falls(tail, k)
        /\ Presses(q, k) <=> h = Event(k, TRUE) \/ Presses(tail, k)
    BY <1>2, TailBatch
  <2>2. (k \in table.held => k \in table.pending \/ Falls(q, k)) /\ ~Presses(q, k)
    BY <1>11 DEF LettingGo
  <2> HIDE DEF h, q, tail
  <2>3. CASE k = h.key
    BY <1>3, <1>5, <2>1, <2>2, <2>3 DEF Sent
  <2>4. CASE k # h.key
    <3>1. h # Event(k, FALSE)
      BY <1>5, <2>4 DEF Event
    <3>2. k \in Slots \ {h.key}
      BY <2>4, KeysAssumption
    <3> QED BY <1>3, <2>1, <2>2, <3>1, <3>2 DEF Sent
  <2> QED BY <2>3, <2>4
<1>12. LettingGo => LettingGo'
  BY <1>1, <1>9, <1>11 DEF LettingGo
<1> QED BY <1>1, <1>9, <1>10, <1>12

\* The pump.
LEMMA PumpRan ==
  ASSUME EngineTyped, PumpSomething
  PROVE  /\ EngineTyped' /\ eng'.phys = eng.phys /\ eng'.expired = eng.expired
         /\ UNCHANGED <<config, foreground, published>>
         /\ LettingGo => LettingGo'
<1>1. PICK oks \in SUBSET Slots : Pump(oks)
  BY DEF PumpSomething
<1> DEFINE on == Active(published)
           after == ReconcilePendingReleasesForTarget(table, published, on, oks)
<1>2. /\ Idle /\ table' = after /\ eng' = Commit(eng, after.held)
      /\ UNCHANGED <<batchTarget, config, foreground, published>>
  BY <1>1 DEF Pump
<1>3. Sound(table) /\ published \in Identity /\ on \in BOOLEAN /\ Typed(eng)
  BY DEF EngineTyped, Active
<1> HIDE DEF on
<1>4. /\ Sound(after)
      /\ \A x \in after.held : x \in table.held /\ (x \in table.pending => x \in after.pending)
  BY <1>3, ReconcileSound, ReconcileEffect DEF SoundWith
<1> HIDE DEF after
<1>5. /\ Alike(eng, eng', published) /\ eng'.out = eng.out
      /\ eng'.logical = eng'.native \union (after.held \intersect Keys)
  BY <1>2, <1>3, CommitAlike
<1>6. Typed(eng') /\ eng'.phys = eng.phys /\ eng'.expired = eng.expired
  BY <1>3, <1>5, AlikeTyped DEF Alike
<1>7. EngineTyped'
  BY <1>2, <1>4, <1>5, <1>6 DEF EngineTyped
<1>8. LettingGo => LettingGo'
  <2>1. \A k \in Keys : ~Falls(eng.out, k)
    BY <1>2, EmptyBatch DEF Idle
  <2> QED BY <1>2, <1>4, <1>5, <2>1 DEF LettingGo
<1> QED BY <1>2, <1>6, <1>7, <1>8

-----------------------------------------------------------------------------
(* The queue, the ledger and the messages.                                 *)

\* A message posted is the last one.
LEMMA ContainsAppend ==
  ASSUME NEW S, NEW q \in Seq(S), NEW x \in S, NEW m
  PROVE  /\ Append(q, x) \in Seq(S) /\ Append(q, x) # <<>>
         /\ Contains(Append(q, x), m) <=> Contains(q, m) \/ x = m
<1> DEFINE n == Len(q)
           r == Append(q, x)
<1>1. /\ r \in Seq(S) /\ r # <<>> /\ DOMAIN r = 1..(n + 1) /\ DOMAIN q = 1..n /\ n \in Nat
      /\ r[n + 1] = x /\ \A i \in 1..n : r[i] = q[i]
  OBVIOUS
<1> HIDE DEF r, n
<1>2. /\ \A i \in DOMAIN r : i \in DOMAIN q \/ i = n + 1
      /\ \A i \in DOMAIN q : i \in DOMAIN r
      /\ n + 1 \in DOMAIN r
  BY <1>1
<1>3. Contains(r, m) <=> Contains(q, m) \/ x = m
  BY <1>1, <1>2 DEF Contains
<1> QED BY <1>1, <1>3 DEF r

\* The message handled is the first one.
LEMMA ContainsTail ==
  ASSUME NEW S, NEW q \in Seq(S), q # <<>>, NEW m
  PROVE  /\ Tail(q) \in Seq(S) /\ Head(q) \in S /\ Len(Tail(q)) <= Len(q)
         /\ Contains(q, m) <=> Head(q) = m \/ Contains(Tail(q), m)
<1> DEFINE n == Len(q)
           r == Tail(q)
<1>1. /\ r \in Seq(S) /\ DOMAIN r = 1..(n - 1) /\ DOMAIN q = 1..n /\ Len(r) <= n
      /\ Len(r) = n - 1
      /\ n \in Nat /\ n > 0 /\ Head(q) = q[1] /\ q[1] \in S
      /\ \A i \in DOMAIN r : r[i] = q[i + 1]
  OBVIOUS
<1> HIDE DEF r, n
<1>2. /\ \A i \in DOMAIN q : i = 1 \/ (i - 1 \in DOMAIN r /\ q[i] = r[i - 1])
      /\ \A i \in DOMAIN r : i + 1 \in DOMAIN q /\ r[i] = q[i + 1]
      /\ 1 \in DOMAIN q
  BY <1>1
<1>3. Contains(q, m) <=> Head(q) = m \/ Contains(r, m)
  <2>1. ASSUME Contains(q, m) PROVE Head(q) = m \/ Contains(r, m)
    <3>1. PICK i \in 1..n : q[i] = m
      BY <2>1 DEF Contains, n
    <3>2. i = 1 \/ (i - 1 \in 1..Len(r) /\ r[i - 1] = m)
      BY <1>1, <1>2, <3>1
    <3> QED BY <1>1, <3>1, <3>2 DEF Contains
  <2>2. ASSUME Contains(r, m) PROVE Contains(q, m)
    <3>1. PICK i \in 1..Len(r) : r[i] = m
      BY <2>2 DEF Contains
    <3>2. i + 1 \in 1..n /\ q[i + 1] = m
      BY <1>1, <1>2, <3>1
    <3> QED BY <3>2 DEF Contains, n
  <2>3. ASSUME Head(q) = m PROVE Contains(q, m)
    <3>1. 1 \in 1..n /\ q[1] = m
      BY <1>1, <2>3
    <3> QED BY <3>1 DEF Contains, n
  <2> QED BY <2>1, <2>2, <2>3
<1> QED BY <1>1, <1>3 DEF r, n

\* What QueueRoutedEvent posts: a refresh if the publications have changed,
\* a wake-up if none is pending, the emergency's message on overflow.
LEMMA PostedContains ==
  ASSUME messages \in Seq(Messages), NEW queued \in BOOLEAN, NEW m
  PROVE  /\ Posted(queued) \in Seq(Messages)
         /\ Contains(Posted(queued), m) <=>
              \/ Contains(messages, m)
              \/ m = "refresh" /\ SeenActive # wasActive
              \/ m = "unhook" /\ ~queued
              \/ m = "routed" /\ queued /\ ~gate
<1> DEFINE r == IF SeenActive # wasActive THEN Append(messages, "refresh") ELSE messages
           w == IF ~queued THEN Append(r, "unhook")
                ELSE IF ~gate THEN Append(r, "routed") ELSE r
<1>1. /\ r \in Seq(Messages)
      /\ Contains(r, m) <=> Contains(messages, m) \/ (m = "refresh" /\ SeenActive # wasActive)
  BY ContainsAppend DEF Messages
<1>2. r = messages \o (IF SeenActive # wasActive THEN <<"refresh">> ELSE <<>>)
  BY AppendIsConcat, ConcatEmptySeq DEF Messages
<1> HIDE DEF r
<1>3. /\ w \in Seq(Messages)
      /\ Contains(w, m) <=>
           \/ Contains(r, m)
           \/ m = "unhook" /\ ~queued
           \/ m = "routed" /\ queued /\ ~gate
  BY <1>1, ContainsAppend DEF Messages
<1>4. w = r \o (CASE ~queued -> <<"unhook">> [] queued /\ ~gate -> <<"routed">>
                  [] queued /\ gate -> <<>>)
  BY <1>1, AppendIsConcat, ConcatEmptySeq DEF Messages
<1>5. Posted(queued) = w
  BY <1>2, <1>4 DEF Posted
<1> HIDE DEF w
<1> QED BY <1>1, <1>3, <1>5

\* Applied, for no edge, for one more and for one less.
LEMMA AppliedEmpty ==
  ASSUME NEW keys \in SUBSET Keys
  PROVE  Applied(keys, <<>>) = keys
BY DEF Applied, LastEdgeIsDown

(* The newest edge decides about its own key, whatever else an edge says.  *)
LEMMA AppendApplied ==
  ASSUME NEW E, \A x \in E : x.key \in Keys /\ x.down \in BOOLEAN,
         NEW keys \in SUBSET Keys, NEW q \in Seq(E), NEW e \in E
  PROVE  Applied(keys, Append(q, e)) =
           IF e.down THEN Applied(keys, q) \union {e.key} ELSE Applied(keys, q) \ {e.key}
<1> DEFINE n == Len(q)
           r == Append(q, e)
<1>1. /\ DOMAIN r = 1..(n + 1) /\ DOMAIN q = 1..n /\ n \in Nat
      /\ r[n + 1] = e /\ \A i \in 1..n : r[i] = q[i]
      /\ e.key \in Keys /\ e.down \in BOOLEAN
  OBVIOUS
<1> HIDE DEF r
<1>2. /\ \A i \in DOMAIN r : i \in DOMAIN q \/ i = n + 1
      /\ \A i \in DOMAIN q : i \in DOMAIN r /\ i < n + 1 /\ r[i] = q[i]
      /\ n + 1 \in DOMAIN r /\ \A i \in DOMAIN r : ~(i > n + 1)
  BY <1>1
<1>3. ASSUME NEW k \in Keys
      PROVE  /\ k = e.key => LastEdgeIsDown(k, r) = e.down
             /\ k # e.key => LastEdgeIsDown(k, r) = LastEdgeIsDown(k, q)
             /\ (\A i \in DOMAIN r : r[i].key # k) <=>
                  k # e.key /\ \A i \in DOMAIN q : q[i].key # k
  <2>1. (\A i \in DOMAIN r : r[i].key # k) <=> k # e.key /\ \A i \in DOMAIN q : q[i].key # k
    BY <1>1, <1>2
  <2>2. ASSUME k = e.key PROVE LastEdgeIsDown(k, r) = e.down
    BY <1>1, <1>2, <2>2 DEF LastEdgeIsDown
  <2>3. ASSUME k # e.key PROVE LastEdgeIsDown(k, r) = LastEdgeIsDown(k, q)
    <3>1. ASSUME LastEdgeIsDown(k, r) PROVE LastEdgeIsDown(k, q)
      <4>1. PICK i \in DOMAIN r : r[i].key = k /\ r[i].down
                                  /\ \A j \in DOMAIN r : j > i => r[j].key # k
        BY <3>1 DEF LastEdgeIsDown
      <4>2. i \in DOMAIN q
        BY <1>1, <1>2, <2>3, <4>1
      <4> QED BY <1>2, <4>1, <4>2 DEF LastEdgeIsDown
    <3>2. ASSUME LastEdgeIsDown(k, q) PROVE LastEdgeIsDown(k, r)
      <4>1. PICK i \in DOMAIN q : q[i].key = k /\ q[i].down
                                  /\ \A j \in DOMAIN q : j > i => q[j].key # k
        BY <3>2 DEF LastEdgeIsDown
      <4>2. i \in DOMAIN r /\ r[i] = q[i]
        BY <1>2
      <4>3. \A j \in DOMAIN r : j > i => r[j].key # k
        BY <1>1, <1>2, <2>3, <4>1
      <4> QED BY <4>1, <4>2, <4>3 DEF LastEdgeIsDown
    <3>3. LastEdgeIsDown(k, q) \in BOOLEAN /\ LastEdgeIsDown(k, r) \in BOOLEAN
      BY DEF LastEdgeIsDown
    <3> QED BY <3>1, <3>2, <3>3
  <2> QED BY <2>1, <2>2, <2>3
<1>4. Applied(keys, r) =
        IF e.down THEN Applied(keys, q) \union {e.key} ELSE Applied(keys, q) \ {e.key}
  BY <1>1, <1>3 DEF Applied
<1> QED BY <1>4 DEF r

\* For the hook's edges.
LEMMA AppliedAppend ==
  ASSUME NEW keys \in SUBSET Keys, NEW q \in Seq(RoutedEvent), NEW e \in RoutedEvent
  PROVE  Applied(keys, Append(q, e)) =
           IF e.down THEN Applied(keys, q) \union {e.key} ELSE Applied(keys, q) \ {e.key}
<1>1. \A x \in RoutedEvent : x.key \in Keys /\ x.down \in BOOLEAN
  BY DEF RoutedEvent
<1> QED BY <1>1, AppendApplied

(* Taking the oldest edge applies it to what there was.                    *)
LEMMA TailApplied ==
  ASSUME NEW E, \A x \in E : x.key \in Keys /\ x.down \in BOOLEAN,
         NEW keys \in SUBSET Keys, NEW q \in Seq(E), q # <<>>
  PROVE  Applied(keys, q) =
           Applied(IF Head(q).down THEN keys \union {Head(q).key} ELSE keys \ {Head(q).key},
                   Tail(q))
<1> DEFINE n == Len(q)
           r == Tail(q)
           h == Head(q)
           start == IF h.down THEN keys \union {h.key} ELSE keys \ {h.key}
<1>1. /\ DOMAIN r = 1..(n - 1) /\ DOMAIN q = 1..n /\ n \in Nat /\ n > 0
      /\ h = q[1] /\ h \in E /\ \A i \in DOMAIN r : r[i] = q[i + 1]
  OBVIOUS
<1> HIDE DEF r, h
<1>0. h.key \in Keys /\ h.down \in BOOLEAN
  BY <1>1
<1>2. /\ \A i \in DOMAIN q : i = 1 \/ (i - 1 \in DOMAIN r /\ q[i] = r[i - 1] /\ i > 1)
      /\ \A i \in DOMAIN r : i + 1 \in DOMAIN q /\ r[i] = q[i + 1] /\ i + 1 > 1
      /\ 1 \in DOMAIN q
  BY <1>1
<1>3. ASSUME NEW k \in Keys
      PROVE  /\ (\A i \in DOMAIN q : q[i].key # k) <=>
                  k # h.key /\ \A i \in DOMAIN r : r[i].key # k
             /\ LastEdgeIsDown(k, q) <=>
                  \/ LastEdgeIsDown(k, r)
                  \/ k = h.key /\ h.down /\ \A i \in DOMAIN r : r[i].key # k
  <2>1. (\A i \in DOMAIN q : q[i].key # k) <=> k # h.key /\ \A i \in DOMAIN r : r[i].key # k
    BY <1>1, <1>2, ZenonT(60)
  <2>2. ASSUME LastEdgeIsDown(k, q)
        PROVE  \/ LastEdgeIsDown(k, r)
               \/ k = h.key /\ h.down /\ \A i \in DOMAIN r : r[i].key # k
    <3>1. PICK i \in DOMAIN q : q[i].key = k /\ q[i].down
                                /\ \A j \in DOMAIN q : j > i => q[j].key # k
      BY <2>2 DEF LastEdgeIsDown
    <3>2. CASE i = 1
      BY <1>1, <1>2, <3>1, <3>2
    <3>3. CASE i # 1
      <4>1. i - 1 \in DOMAIN r /\ r[i - 1] = q[i]
        BY <1>2, <3>3
      <4>2. \A j \in DOMAIN r : j > i - 1 => r[j].key # k
        BY <1>1, <1>2, <3>1
      <4> QED BY <3>1, <4>1, <4>2 DEF LastEdgeIsDown
    <3> QED BY <3>2, <3>3
  <2>3. ASSUME LastEdgeIsDown(k, r) PROVE LastEdgeIsDown(k, q)
    <3>1. PICK i \in DOMAIN r : r[i].key = k /\ r[i].down
                                /\ \A j \in DOMAIN r : j > i => r[j].key # k
      BY <2>3 DEF LastEdgeIsDown
    <3>2. i + 1 \in DOMAIN q /\ q[i + 1] = r[i]
      BY <1>2
    <3>3. \A j \in DOMAIN q : j > i + 1 => q[j].key # k
      <4> SUFFICES ASSUME NEW j \in DOMAIN q, j > i + 1 PROVE q[j].key # k
        OBVIOUS
      <4>1. j - 1 \in DOMAIN r /\ q[j] = r[j - 1] /\ j - 1 > i
        BY <1>1, <1>2
      <4> QED BY <3>1, <4>1
    <3> QED BY <3>1, <3>2, <3>3 DEF LastEdgeIsDown
  <2>4. ASSUME k = h.key, h.down, \A i \in DOMAIN r : r[i].key # k
        PROVE  LastEdgeIsDown(k, q)
    <3>1. \A j \in DOMAIN q : j > 1 => q[j].key # k
      <4> SUFFICES ASSUME NEW j \in DOMAIN q, j > 1 PROVE q[j].key # k
        OBVIOUS
      <4>1. j - 1 \in DOMAIN r /\ q[j] = r[j - 1]
        BY <1>1, <1>2
      <4> QED BY <2>4, <4>1
    <3> QED BY <1>1, <1>2, <2>4, <3>1 DEF LastEdgeIsDown
  <2> QED BY <2>1, <2>2, <2>3, <2>4
<1>4. Applied(keys, q) = Applied(start, r)
  <2> HIDE DEF start
  <2>1. \A k \in Keys : k \in start <=> IF k = h.key THEN h.down ELSE k \in keys
    BY <1>0, <1>1 DEF start
  <2>2. ASSUME NEW k \in Keys
        PROVE  k \in Applied(keys, q) <=> k \in Applied(start, r)
    BY <1>3, <2>1 DEF Applied
  <2> QED BY <2>2 DEF Applied
<1> QED BY <1>4 DEF start, r, h

\* For the engine: routing the oldest edge applies it to what it has recorded.
LEMMA AppliedTail ==
  ASSUME NEW keys \in SUBSET Keys, NEW q \in Seq(RoutedEvent), q # <<>>
  PROVE  Applied(keys, q) =
           Applied(IF Head(q).down THEN keys \union {Head(q).key} ELSE keys \ {Head(q).key},
                   Tail(q))
<1>1. \A x \in RoutedEvent : x.key \in Keys /\ x.down \in BOOLEAN
  BY DEF RoutedEvent
<1> QED BY <1>1, TailApplied

-----------------------------------------------------------------------------
(* The inductive invariant.                                                *)

RoutingTypes == EngineTyped /\ RoutingTypeOK

\* Queued edges have closed the gate, and behind a closed gate a wake-up is
\* posted or the owner thread is busy; a mode switch begins with an open one.
WokenInv ==
  /\ routed # <<>> => gate
  /\ gate => todo # "none" \/ Posts("routed")
  /\ todo = "switch" => ~gate

\* Without timers nothing expires, and without hooks there are no timers, no
\* queue, and no press in the batch under way; no target and no event either,
\* but for those an installation under way has sampled and listened to.
Installing == {"hook", "poll"}
UnhookInv ==
  /\ ~timers => eng.expired = <<>>
  /\ todo \in Installing => ~hooked
  /\ ~hooked => /\ ~timers /\ routed = <<>> /\ ~wasActive /\ todo # "rebuild"
                /\ todo = "poll" \/ events = <<>>
                /\ todo \in Installing \/ seen = NoTarget
                /\ LettingGo

RInv == RoutingTypes /\ WokenInv /\ FocusCatchesUp /\ NoEdgeLost /\ UnhookInv

\* Parts of the invariant a step keeps when it leaves alone what they are about.
LEMMA FocusKept ==
  ASSUME FocusCatchesUp, hooked' => hooked,
         UNCHANGED <<seen, wasActive, published, requests, events, foreground>>,
         Contains(messages, "refresh") => Contains(messages', "refresh")
  PROVE  FocusCatchesUp'
BY DEF FocusCatchesUp, SeenActive, Posts

LEMMA EdgesKept ==
  ASSUME NoEdgeLost, eng'.phys = eng.phys, UNCHANGED <<routed, ledger>>, hooked' => hooked,
         todo = "rebuild" => todo' = "rebuild",
         Contains(messages, "unhook") => Contains(messages', "unhook")
  PROVE  NoEdgeLost'
BY DEF NoEdgeLost, Posts

LEMMA WokenKept ==
  ASSUME WokenInv, UNCHANGED <<routed, gate, todo>>,
         Contains(messages, "routed") => Contains(messages', "routed")
  PROVE  WokenInv'
BY DEF WokenInv, Posts

LEMMA UnhookKept ==
  ASSUME UnhookInv, UNCHANGED <<hooked, timers>>, ~timers => eng'.expired = <<>>,
         todo' \in Installing => todo' = todo,
         ~hooked => /\ routed' = <<>> /\ UNCHANGED wasActive
                    /\ todo' # "rebuild" /\ LettingGo'
                    /\ todo' = "poll" \/ events' = <<>>
                    /\ todo' \in Installing \/ seen' = NoTarget
  PROVE  UnhookInv'
BY DEF UnhookInv

\* A step of the engine leaves the queue, the focus and the messages alone.
LEMMA ElsewhereKept ==
  ASSUME RInv, RoutingTypes', eng'.phys = eng.phys, published' = published,
         UNCHANGED <<foreground, ledger, routed, gate, messages, focusVars, todo>>,
         ~timers => eng'.expired = <<>>,
         ~hooked => LettingGo'
  PROVE  RInv'
<1>1. FocusCatchesUp' /\ NoEdgeLost' /\ WokenInv'
  BY FocusKept, EdgesKept, WokenKept DEF RInv, focusVars
<1>2. UnhookInv'
  BY UnhookKept DEF RInv, UnhookInv, focusVars
<1> QED BY <1>1, <1>2 DEF RInv

\* A step of the hook or of a message leaves the engine alone.
LEMMA EngineAlone ==
  ASSUME RInv, UNCHANGED vars
  PROVE  /\ EngineTyped' /\ eng'.phys = eng.phys /\ UNCHANGED <<published, foreground>>
         /\ LettingGo => LettingGo'
         /\ ~timers => eng'.expired = <<>>
<1>1. EngineTyped /\ UNCHANGED <<eng, table, batchTarget, config, foreground, published>>
      /\ UnhookInv
  BY DEF RInv, RoutingTypes, vars
<1> QED BY <1>1 DEF EngineTyped, Idle, LettingGo, UnhookInv

\* RoutingTypeOK repeats what EngineTyped says of the engine.
LEMMA HookTypes ==
  ASSUME EngineTyped',
         down' \in SUBSET PlayerKeys, systemDown' \in SUBSET Slots,
         ledger' \in SUBSET Keys, swallowed' \in SUBSET Keys,
         routed' \in Seq(RoutedEvent), Len(routed') <= Capacity, gate' \in BOOLEAN,
         messages' \in Seq(Messages), seen' \in Identity, wasActive' \in BOOLEAN,
         requests' \in Seq(Identity), Len(requests') <= QueueSize,
         events' \in Seq(Identity), hooked' \in BOOLEAN, timers' \in BOOLEAN, todo' \in Rests
  PROVE  RoutingTypes'
<1>1. TypeOK'
  BY DEF EngineTyped, Typed, TypeOK, Sound
<1> QED BY <1>1 DEF RoutingTypes, RoutingTypeOK

\* Edges the hook sees and does not queue.
LEMMA NativeEdgesKeep ==
  ASSUME RInv, NEW k \in PlayerKeys, RepeatKey(k) \/ StaleEdge(k) \/ NativeKey(k)
  PROVE  RInv'
<1>1. k \in Keys /\ k \in Slots
  BY RoutingAssumption, KeysAssumption
<1>2. RoutingTypeOK
  BY DEF RInv, RoutingTypes
<1>3. /\ UNCHANGED <<vars, ledger, routed, gate, messages, focusVars, todo>>
      /\ down' \subseteq down \union {k} /\ swallowed' \subseteq swallowed
      /\ systemDown' \subseteq systemDown \union {k}
  BY DEF RepeatKey, StaleEdge, NativeKey
<1>4. /\ EngineTyped' /\ eng'.phys = eng.phys /\ UNCHANGED <<published, foreground>>
      /\ LettingGo => LettingGo'
      /\ ~timers => eng'.expired = <<>>
  BY <1>3, EngineAlone
<1>5. RoutingTypes'
  BY <1>1, <1>2, <1>3, <1>4, HookTypes DEF RoutingTypeOK, focusVars
<1>6. ~hooked => LettingGo'
  BY <1>4 DEF RInv, UnhookInv
<1> QED BY <1>3, <1>4, <1>5, <1>6, ElsewhereKept

\* The engine's own steps behind the queue.
LEMMA EngineStepsKeep ==
  ASSUME RInv,
         \/ \E ok \in BOOLEAN : SendOne(ok)
         \/ \E k \in Keys : FireTimer(k)
         \/ DrainExpired \/ PumpReleases
  PROVE  RInv'
<1>1. RoutingTypeOK /\ EngineTyped /\ UnhookInv
  BY DEF RInv, RoutingTypes
<1>2. ASSUME Elsewhere, systemDown' \in SUBSET Slots, EngineTyped', eng'.phys = eng.phys,
             UNCHANGED <<published, foreground>>, ~timers => eng'.expired = <<>>,
             LettingGo => LettingGo'
      PROVE  RInv'
  <2>1. RoutingTypes'
    BY <1>1, <1>2, HookTypes DEF RoutingTypeOK, Elsewhere, focusVars
  <2>2. ~hooked => LettingGo'
    BY <1>1, <1>2 DEF UnhookInv
  <2> QED BY <1>2, <2>1, <2>2, ElsewhereKept DEF Elsewhere
<1>3. ASSUME Injected(table, table'), EngineTyped'
      PROVE  systemDown' \in SUBSET Slots
  <2>1. table'.held \subseteq Slots
    BY <1>3 DEF EngineTyped, Sound, SlotTable
  <2> QED BY <1>1, <1>3, <2>1 DEF Injected, RoutingTypeOK
<1>4. ASSUME NEW ok \in BOOLEAN, SendOne(ok)
      PROVE  RInv'
  BY <1>1, <1>2, <1>3, <1>4, FlushRan DEF SendOne, UnhookInv
<1>5. ASSUME NEW k \in Keys, FireTimer(k)
      PROVE  RInv'
  <2>1. /\ EngineTyped' /\ eng'.phys = eng.phys /\ eng'.out = eng.out
        /\ UNCHANGED <<table, published, foreground>>
    BY <1>1, <1>5, TimerRan DEF FireTimer
  <2>2. LettingGo => LettingGo'
    BY <2>1 DEF LettingGo
  <2>3. systemDown' \in SUBSET Slots /\ Elsewhere /\ timers
    BY <1>1, <1>5 DEF FireTimer, RoutingTypeOK
  <2> QED BY <1>2, <2>1, <2>2, <2>3
<1>6. ASSUME DrainExpired
      PROVE  RInv'
  <2>1. timers
    BY <1>1, <1>6 DEF DrainExpired, DrainTimer, UnhookInv
  <2>2. hooked
    BY <1>1, <2>1 DEF UnhookInv
  <2>3. Ran(eng.phys, Tail(eng.expired))
    BY <1>1, <1>6, TimerRan DEF DrainExpired
  <2>4. RoutingTypes'
    BY <1>1, <1>6, <2>3, HookTypes DEF Ran, RoutingTypeOK, DrainExpired, Elsewhere, focusVars
  <2> QED BY <1>6, <2>1, <2>2, <2>3, <2>4, ElsewhereKept DEF Ran, DrainExpired, Elsewhere
<1>7. ASSUME PumpReleases
      PROVE  RInv'
  BY <1>1, <1>2, <1>3, <1>7, PumpRan DEF PumpReleases, UnhookInv
<1> QED BY <1>4, <1>5, <1>6, <1>7

\* An edge the hook queues: the ledger and the queue gain it together, and
\* an edge that does not fit has posted the emergency's message.
LEMMA HookKeyKeeps ==
  ASSUME RInv, NEW k \in PlayerKeys, HookKey(k)
  PROVE  RInv'
<1> DEFINE isDown == k \notin down
           queued == HasRoom
           event  == [key |-> k, down |-> isDown, route |-> HookRoutes, target |-> seen]
<1>1. /\ RoutingTypeOK /\ EngineTyped /\ WokenInv /\ FocusCatchesUp /\ NoEdgeLost /\ UnhookInv
      /\ k \in Keys /\ k \in Slots
  BY RoutingAssumption, KeysAssumption DEF RInv, RoutingTypes
<1>2. /\ OwnerFree /\ hooked /\ isDown # (k \in ledger)
      /\ down' \subseteq down \union {k} /\ swallowed' \subseteq swallowed \union {k}
      /\ ledger' = IF isDown THEN ledger \union {k} ELSE ledger \ {k}
      /\ routed' = IF queued THEN Append(routed, event) ELSE routed
      /\ gate' = (gate \/ queued) /\ messages' = Posted(queued)
      /\ systemDown' \subseteq systemDown \union {k}
      /\ UNCHANGED <<vars, focusVars, todo>>
  BY DEF HookKey, Push
<1>3. /\ EngineTyped' /\ eng'.phys = eng.phys /\ UNCHANGED <<published, foreground>>
      /\ ~timers => eng'.expired = <<>>
  BY <1>2, EngineAlone
<1>4. queued \in BOOLEAN /\ event \in RoutedEvent
  BY <1>1 DEF HasRoom, RoutedEvent, HookRoutes, RoutingTypeOK, SeenActive
<1>5. \A m : /\ Posted(queued) \in Seq(Messages)
             /\ Contains(messages', m) <=>
                  \/ Contains(messages, m)
                  \/ m = "refresh" /\ SeenActive # wasActive
                  \/ m = "unhook" /\ ~queued
                  \/ m = "routed" /\ queued /\ ~gate
  BY <1>1, <1>2, <1>4, PostedContains DEF RoutingTypeOK
<1>6. RoutingTypes'
  <2>1. routed' \in Seq(RoutedEvent) /\ Len(routed') <= Capacity
    <3>1. CASE queued
      BY <1>1, <1>2, <1>4, <3>1, RoutingAssumption DEF RoutingTypeOK, HasRoom
    <3>2. CASE ~queued
      BY <1>1, <1>2, <3>2 DEF RoutingTypeOK
    <3> QED BY <3>1, <3>2
  <2> HIDE DEF event, queued, isDown
  <2> QED BY <1>1, <1>2, <1>3, <1>4, <1>5, <2>1, HookTypes DEF RoutingTypeOK, focusVars
<1>7. FocusCatchesUp'
  BY <1>2, <1>3, <1>5 DEF FocusCatchesUp, SeenActive, Posts, focusVars
<1>8. NoEdgeLost'
  <2>1. CASE queued
    <3>1. Applied(eng'.phys, routed') =
            IF isDown THEN Applied(eng.phys, routed) \union {k} ELSE Applied(eng.phys, routed) \ {k}
      <4>1. eng.phys \in SUBSET Keys /\ routed \in Seq(RoutedEvent)
        BY <1>1 DEF RoutingTypeOK, EngineTyped, Typed, EngineState
      <4>2. Applied(eng.phys, Append(routed, event)) =
              IF event.down THEN Applied(eng.phys, routed) \union {event.key}
                            ELSE Applied(eng.phys, routed) \ {event.key}
        BY <1>4, <4>1, AppliedAppend
      <4> QED BY <1>2, <1>3, <2>1, <4>2
    <3>2. Contains(messages, "unhook") => Contains(messages', "unhook")
      BY <1>5
    <3> QED BY <1>1, <1>2, <3>1, <3>2 DEF NoEdgeLost, Posts, focusVars
  <2>2. CASE ~queued
    BY <1>5, <2>2 DEF NoEdgeLost, Posts
  <2> QED BY <2>1, <2>2
<1>9. WokenInv'
  BY <1>1, <1>2, <1>5 DEF WokenInv, OwnerFree, Posts
<1>10. UnhookInv'
  BY <1>1, <1>2, <1>3 DEF UnhookInv, Installing, OwnerFree, focusVars
<1> QED BY <1>6, <1>7, <1>8, <1>9, <1>10 DEF RInv

\* The foreground changes, and everybody hears of it late.
LEMMA FocusKeeps ==
  ASSUME RInv, NEW t \in Identity, Focus(t)
  PROVE  RInv'
<1>1. RoutingTypeOK /\ EngineTyped /\ UnhookInv /\ WokenInv /\ NoEdgeLost /\ FocusCatchesUp
  BY DEF RInv, RoutingTypes
<1>2. UNCHANGED <<eng, table, batchTarget, config, published, hookVars, messages,
                  seen, requests, wasActive, hooked, timers, todo>>
      /\ foreground' = t /\ events' = IF Listening THEN Append(events, t) ELSE events
  BY DEF Focus
<1>3. EngineTyped' /\ (LettingGo => LettingGo')
  BY <1>1, <1>2 DEF EngineTyped, Idle, LettingGo
<1>4. /\ events' \in Seq(Identity)
      /\ hooked => events' # <<>>
      /\ ~hooked => todo = "poll" \/ events' = events
  <2>1. events \in Seq(Identity)
    BY <1>1 DEF RoutingTypeOK
  <2>2. Append(events, t) \in Seq(Identity) /\ Append(events, t) # <<>>
    BY <2>1, ContainsAppend
  <2> QED BY <1>2, <2>1, <2>2 DEF Listening
<1>5. RoutingTypes'
  BY <1>1, <1>2, <1>3, <1>4, HookTypes DEF RoutingTypeOK, hookVars
<1>6. FocusCatchesUp'
  BY <1>1, <1>2, <1>4 DEF FocusCatchesUp, SeenActive, Posts
<1>7. NoEdgeLost' /\ WokenInv'
  BY <1>1, <1>2, EdgesKept, WokenKept DEF hookVars
<1>8. UnhookInv'
  BY <1>1, <1>2, <1>3, <1>4, UnhookKept DEF UnhookInv, hookVars
<1> QED BY <1>5, <1>6, <1>7, <1>8 DEF RInv

\* A request queued is in the queue, and the queue keeps to its size.
LEMMA RequestQueued ==
  ASSUME NEW id \in Identity, requests \in Seq(Identity), Len(requests) <= QueueSize
  PROVE  /\ Enqueue(requests, id) \in Seq(Identity)
         /\ Len(Enqueue(requests, id)) <= QueueSize
         /\ Contains(Enqueue(requests, id), id)
<1> DEFINE q == requests
<1>1. QueueSize \in Nat \ {0} /\ Len(q) \in Nat
  BY QueueAssumption
<1>2. CASE q # <<>> /\ q[Len(q)] = id
  BY <1>1, <1>2 DEF Enqueue, Contains
<1>3. ASSUME NEW r \in Seq(Identity), Len(r) < QueueSize, Enqueue(q, id) = Append(r, id)
      PROVE  /\ Enqueue(q, id) \in Seq(Identity) /\ Len(Enqueue(q, id)) <= QueueSize
             /\ Contains(Enqueue(q, id), id)
  <2>1. Append(r, id) \in Seq(Identity) /\ Len(Append(r, id)) <= QueueSize
    BY <1>1, <1>3
  <2>2. Contains(Append(r, id), id)
    BY ContainsAppend
  <2> QED BY <1>3, <2>1, <2>2
<1>4. CASE ~(q # <<>> /\ q[Len(q)] = id)
  <2>1. Enqueue(q, id) = Append(IF Len(q) = QueueSize THEN Tail(q) ELSE q, id)
    BY <1>4 DEF Enqueue
  <2>2. CASE Len(q) = QueueSize
    <3>1. Tail(q) \in Seq(Identity) /\ Len(Tail(q)) < QueueSize
      BY <1>1, <2>2
    <3> QED BY <1>3, <2>1, <2>2, <3>1
  <2>3. CASE Len(q) # QueueSize
    BY <1>1, <1>3, <2>1, <2>3
  <2> QED BY <2>2, <2>3
<1> QED BY <1>2, <1>4

\* The focus thread and the F6 key post a message, and where they change
\* what the owner compares, the message is the refresh.
LEMMA PostsKeep ==
  ASSUME RInv, WinEvent \/ PressF6
  PROVE  RInv'
<1>1. RoutingTypeOK /\ EngineTyped /\ UnhookInv /\ WokenInv /\ NoEdgeLost /\ FocusCatchesUp
  BY DEF RInv, RoutingTypes
<1>2. PICK m \in Messages : messages' = Append(messages, m)
                            /\ (WinEvent => m = "refresh")
  BY DEF WinEvent, PressF6, Messages
<1>3. /\ messages' \in Seq(Messages)
      /\ \A x : Contains(messages', x) <=> Contains(messages, x) \/ x = m
  BY <1>1, <1>2, ContainsAppend DEF RoutingTypeOK
<1>4. /\ UNCHANGED <<vars, hookVars, wasActive, hooked, timers, todo>>
      /\ events' \in Seq(Identity) /\ seen' \in Identity
      /\ requests' \in Seq(Identity) /\ Len(requests') <= QueueSize
      /\ ~hooked => todo = "poll" \/ UNCHANGED <<events, seen>>
      /\ WinEvent \/ UNCHANGED focusVars
  <2>1. CASE WinEvent
    <3>1. events # <<>> /\ seen' = Head(events) /\ events' = Tail(events)
          /\ requests' = Enqueue(requests, Head(events))
          /\ UNCHANGED <<vars, hookVars, wasActive, hooked, timers, todo>>
      BY <2>1 DEF WinEvent
    <3>2. Head(events) \in Identity /\ Tail(events) \in Seq(Identity)
      BY <1>1, <3>1, HeadTailProperties DEF RoutingTypeOK
    <3>3. requests' \in Seq(Identity) /\ Len(requests') <= QueueSize
      BY <1>1, <3>1, <3>2, RequestQueued DEF RoutingTypeOK
    <3> QED BY <1>1, <2>1, <3>1, <3>2, <3>3 DEF UnhookInv
  <2>2. CASE PressF6
    BY <1>1, <2>2 DEF PressF6, RoutingTypeOK, focusVars
  <2> QED BY <2>1, <2>2
<1>5. /\ EngineTyped' /\ eng'.phys = eng.phys /\ UNCHANGED <<published, foreground>>
      /\ LettingGo => LettingGo'
      /\ ~timers => eng'.expired = <<>>
  BY <1>4, EngineAlone
<1>6. RoutingTypes'
  BY <1>1, <1>3, <1>4, <1>5, HookTypes DEF RoutingTypeOK, hookVars
<1>7. FocusCatchesUp'
  <2>1. CASE WinEvent
    BY <1>2, <1>3, <2>1 DEF FocusCatchesUp, Posts
  <2>2. CASE UNCHANGED focusVars
    BY <1>1, <1>3, <1>5, <2>2, FocusKept DEF focusVars
  <2> QED BY <1>4, <2>1, <2>2
<1>8. NoEdgeLost' /\ WokenInv'
  BY <1>1, <1>3, <1>4, <1>5, EdgesKept, WokenKept DEF hookVars
<1>9. UnhookInv'
  BY <1>1, <1>4, <1>5, UnhookKept DEF UnhookInv, Installing, hookVars
<1> QED BY <1>6, <1>7, <1>8, <1>9 DEF RInv

\* The resolver answers a request: it publishes with a refresh behind it, or
\* the window asked for is not in the foreground.
LEMMA ResolveKeeps ==
  ASSUME RInv, Resolve
  PROVE  RInv'
<1>1. RoutingTypeOK /\ EngineTyped /\ UnhookInv /\ WokenInv /\ NoEdgeLost /\ FocusCatchesUp
  BY DEF RInv, RoutingTypes
<1>2. /\ requests # <<>> /\ requests' = Tail(requests) /\ (Publish \/ Drop)
      /\ UNCHANGED <<eng, table, batchTarget, config, foreground, hookVars, seen, wasActive,
                     events, hooked, timers, todo>>
  BY DEF Resolve
<1>3. /\ Tail(requests) \in Seq(Identity) /\ Len(Tail(requests)) <= Len(requests)
      /\ Contains(requests, seen) => Head(requests) = seen \/ Contains(Tail(requests), seen)
  BY <1>1, <1>2, ContainsTail DEF RoutingTypeOK
<1>4. /\ messages' \in Seq(Messages) /\ published' \in Identity
      /\ \A x : Contains(messages, x) => Contains(messages', x)
      /\ Publish => Contains(messages', "refresh")
  <2>1. CASE Publish
    <3>1. messages' = Append(messages, "refresh") /\ published' = foreground
      BY <2>1 DEF Publish
    <3>2. messages \in Seq(Messages) /\ "refresh" \in Messages
      BY <1>1 DEF RoutingTypeOK, Messages
    <3>3. /\ Append(messages, "refresh") \in Seq(Messages)
          /\ \A x : Contains(Append(messages, "refresh"), x) <=>
                      Contains(messages, x) \/ x = "refresh"
      BY <3>2, ContainsAppend
    <3> QED BY <1>1, <3>1, <3>3 DEF EngineTyped
  <2>2. CASE Drop /\ ~Publish
    BY <1>1, <2>2 DEF Drop, RoutingTypeOK, EngineTyped
  <2> QED BY <1>2, <2>1, <2>2
<1>5. EngineTyped' /\ (LettingGo => LettingGo')
  BY <1>1, <1>2, <1>4 DEF EngineTyped, Idle, LettingGo
<1>6. RoutingTypes'
  <2>1. Len(requests') <= QueueSize
    BY <1>1, <1>2, <1>3, QueueAssumption DEF RoutingTypeOK
  <2> QED BY <1>1, <1>2, <1>3, <1>4, <1>5, <2>1, HookTypes DEF RoutingTypeOK, hookVars
<1>7. FocusCatchesUp'
  <2>1. CASE Publish
    BY <1>4, <2>1 DEF FocusCatchesUp, Posts
  <2>2. CASE Drop
    <3>1. published' = published /\ (Head(requests) # foreground \/ foreground = NoTarget)
      BY <2>2 DEF Drop
    <3>2. SeenActive => seen # NoTarget
      BY NoTargetAssumption DEF SeenActive
    <3>3. SeenActive' = SeenActive /\ wasActive \in BOOLEAN /\ SeenActive \in BOOLEAN
      BY <1>1, <1>2, <3>1 DEF SeenActive, RoutingTypeOK
    <3>4. ~wasActive /\ wasActive # SeenActive => SeenActive
      BY <3>3
    <3> QED BY <1>1, <1>2, <1>3, <1>4, <3>1, <3>2, <3>3, <3>4 DEF FocusCatchesUp, Posts
  <2> QED BY <1>2, <2>1, <2>2
<1>8. NoEdgeLost' /\ WokenInv'
  BY <1>1, <1>2, <1>4, EdgesKept, WokenKept DEF hookVars
<1>9. UnhookInv'
  BY <1>1, <1>2, <1>5, UnhookKept DEF UnhookInv, hookVars
<1> QED BY <1>6, <1>7, <1>8, <1>9 DEF RInv

\* What taking a message leaves in the queue of messages.
LEMMA NextMessageLeaves ==
  ASSUME RInv, NEW m, messages # <<>>, Head(messages) = m
  PROVE  /\ Tail(messages) \in Seq(Messages)
         /\ \A x : Contains(messages, x) <=> x = m \/ Contains(Tail(messages), x)
<1>1. messages \in Seq(Messages)
  BY DEF RInv, RoutingTypes, RoutingTypeOK
<1> QED BY <1>1, ContainsTail

\* The drain: a wake-up starts it, and it ends with the gate open or the next
\* wake-up posted.
LEMMA QueueDrainKeeps ==
  ASSUME RInv, RoutedInputReady \/ RouteMore \/ EndDrain
  PROVE  RInv'
<1>1. RoutingTypeOK /\ EngineTyped /\ UnhookInv /\ WokenInv /\ NoEdgeLost /\ FocusCatchesUp
  BY DEF RInv, RoutingTypes
<1>2. /\ UNCHANGED <<vars, down, systemDown, ledger, swallowed, routed, focusVars>>
      /\ todo' \in {"none", "drain"} /\ todo \in {"none", "drain", "drained"}
  BY DEF RoutedInputReady, RouteMore, EndDrain, NextMessage, OwnerFree, hookVars
<1>3. /\ messages' \in Seq(Messages)
      /\ \A x \in {"refresh", "unhook"} : Contains(messages', x) <=> Contains(messages, x)
      /\ gate' \in BOOLEAN
      /\ routed' # <<>> => gate'
      /\ gate' => todo' = "drain" \/ Contains(messages', "routed")
  <2>1. CASE RoutedInputReady
    <3>1. messages' = Tail(messages) /\ messages # <<>> /\ Head(messages) = "routed"
          /\ todo' = "drain" /\ UNCHANGED <<gate, routed>>
      BY <2>1 DEF RoutedInputReady, NextMessage, hookVars
    <3>2. /\ messages' \in Seq(Messages)
          /\ \A x : Contains(messages, x) <=> x = "routed" \/ Contains(messages', x)
      BY <3>1, NextMessageLeaves
    <3> QED BY <1>1, <3>1, <3>2 DEF RoutingTypeOK, WokenInv
  <2>2. CASE RouteMore
    BY <1>1, <2>2 DEF RouteMore, RoutingTypeOK, WokenInv, hookVars
  <2>3. CASE EndDrain
    <3>1. /\ gate' = (routed # <<>>) /\ routed' = routed
          /\ messages' = IF routed # <<>> THEN Append(messages, "routed") ELSE messages
      BY <2>3 DEF EndDrain, CompleteDrain
    <3>2. messages \in Seq(Messages) /\ "routed" \in Messages
      BY <1>1 DEF RoutingTypeOK, Messages
    <3>3. /\ Append(messages, "routed") \in Seq(Messages)
          /\ \A x : Contains(Append(messages, "routed"), x) <=>
                      Contains(messages, x) \/ x = "routed"
      BY <3>2, ContainsAppend
    <3> QED BY <3>1, <3>2, <3>3
  <2> QED BY <2>1, <2>2, <2>3
<1>4. /\ EngineTyped' /\ eng'.phys = eng.phys /\ UNCHANGED <<published, foreground>>
      /\ LettingGo => LettingGo'
      /\ ~timers => eng'.expired = <<>>
  BY <1>2, EngineAlone
<1>5. RoutingTypes'
  BY <1>1, <1>2, <1>3, <1>4, HookTypes DEF RoutingTypeOK, Rests, focusVars
<1>6. FocusCatchesUp' /\ NoEdgeLost'
  BY <1>1, <1>2, <1>3, <1>4, FocusKept, EdgesKept DEF focusVars
<1>7. WokenInv'
  BY <1>2, <1>3 DEF WokenInv, Posts
<1>8. UnhookInv'
  BY <1>1, <1>2, <1>4, UnhookKept DEF UnhookInv, Installing, focusVars
<1> QED BY <1>5, <1>6, <1>7, <1>8 DEF RInv

\* One edge leaves the queue and becomes the engine's, or changes nothing
\* because the engine has recorded it.
LEMMA RouteKeeps ==
  ASSUME RInv, Route
  PROVE  RInv'
<1> DEFINE event == Head(routed)
           phys == IF event.down THEN eng.phys \union {event.key} ELSE eng.phys \ {event.key}
<1>1. RoutingTypeOK /\ EngineTyped /\ UnhookInv /\ WokenInv /\ NoEdgeLost /\ FocusCatchesUp
  BY DEF RInv, RoutingTypes
<1>2. PICK refused \in TimerRefusals, travel \in Keys \union {NoKey} :
        /\ routed # <<>> /\ travel \in AxisOf(event.key) \union {NoKey}
        /\ RouteNext(refused, travel)
  BY DEF Route
<1>3. /\ todo # "none" /\ routed' = Tail(routed) /\ todo' \in Rests
      /\ todo' # "none" /\ (todo = "rebuild" <=> todo' = "rebuild")
      /\ todo' \in Installing => todo' = todo
      /\ todo' = "switch" => todo = "switch"
      /\ UNCHANGED <<down, systemDown, ledger, swallowed, gate, messages, focusVars>>
  BY <1>1, <1>2 DEF RouteNext, RoutingTypeOK, Rests, Installing
<1>4. event \in RoutedEvent /\ Tail(routed) \in Seq(RoutedEvent) /\ Len(Tail(routed)) <= Len(routed)
  BY <1>1, <1>2, HeadTailProperties DEF RoutingTypeOK
<1> HIDE DEF event
<1>5. event.key \in Keys /\ event.down \in BOOLEAN /\ event.route \in BOOLEAN /\ event.target \in Identity
  BY <1>4 DEF RoutedEvent
<1>6. hooked /\ timers' = timers /\ hooked' = hooked
  BY <1>1, <1>2, <1>3 DEF UnhookInv, focusVars
<1>7. /\ EngineTyped' /\ eng'.phys = phys /\ eng'.expired = eng.expired
      /\ UNCHANGED <<published, foreground>>
  <2> DEFINE route == event.route /\ Active(event.target)
             stale == event.down /\ event.key \in eng.phys
  <2>1. IF stale THEN UNCHANGED vars
        ELSE IF event.down THEN KeyDown(event.key, route, event.target, refused)
             ELSE KeyUp(event.key, route, event.target, travel, refused)
    BY <1>2 DEF RouteNext, event
  <2>2. route \in BOOLEAN
    BY <1>5 DEF Active
  <2> HIDE DEF route
  <2>3. CASE stale
    <3>1. UNCHANGED vars
      BY <2>1, <2>3
    <3>2. EngineTyped' /\ eng' = eng /\ UNCHANGED <<published, foreground>>
      BY <3>1, EngineAlone DEF vars
    <3> QED BY <1>1, <2>3, <3>2
  <2>4. CASE ~stale /\ event.down
    <3>1. Ran(eng.phys \union {event.key}, eng.expired)
      BY <1>1, <1>5, <2>1, <2>2, <2>4, EdgeRan
    <3> QED BY <2>4, <3>1 DEF Ran
  <2>5. CASE ~event.down
    <3>1. Ran(eng.phys \ {event.key}, eng.expired)
      BY <1>1, <1>2, <1>5, <2>1, <2>2, <2>5, EdgeRan
    <3> QED BY <2>5, <3>1 DEF Ran
  <2> QED BY <2>3, <2>4, <2>5
<1>8. RoutingTypes'
  BY <1>1, <1>3, <1>4, <1>7, HookTypes, RoutingAssumption DEF RoutingTypeOK, focusVars
<1>9. FocusCatchesUp'
  BY <1>1, <1>3, <1>7, FocusKept DEF focusVars
<1>10. NoEdgeLost'
  <2>1. eng.phys \in SUBSET Keys /\ routed \in Seq(RoutedEvent)
    BY <1>1 DEF RoutingTypeOK, EngineTyped, Typed, EngineState
  <2>2. Applied(eng.phys, routed) = Applied(phys, Tail(routed))
    BY <1>2, <2>1, AppliedTail DEF event
  <2> HIDE DEF phys
  <2> QED BY <1>1, <1>3, <1>6, <1>7, <2>2 DEF NoEdgeLost, Posts
<1>11. WokenInv'
  BY <1>1, <1>2, <1>3 DEF WokenInv, Posts
<1>12. UnhookInv'
  BY <1>1, <1>3, <1>6, <1>7 DEF UnhookInv
<1> QED BY <1>8, <1>9, <1>10, <1>11, <1>12 DEF RInv

\* The rebuild takes the hook's ledger for the engine's physical keys; the
\* queue has been drained before it.
LEMMA LedgerTaken ==
  ASSUME RInv, Rebuild
  PROVE  RInv'
<1>1. RoutingTypeOK /\ EngineTyped /\ UnhookInv /\ FocusCatchesUp
  BY DEF RInv, RoutingTypes
<1>2. /\ todo = "rebuild" /\ Idle /\ routed = <<>> /\ gate' = FALSE /\ todo' = "none"
      /\ Submit(RebuildState(eng, ledger, Situation(published, NoKey, {})), published)
      /\ UNCHANGED <<down, systemDown, ledger, swallowed, routed, messages, focusVars>>
  BY DEF Rebuild
<1>3. ledger \in SUBSET Keys /\ hooked
  BY <1>1, <1>2 DEF RoutingTypeOK, UnhookInv
<1>4. /\ EngineTyped' /\ eng'.phys = ledger /\ eng'.expired = eng.expired
      /\ UNCHANGED <<published, foreground>>
  BY <1>1, <1>2, <1>3, RebuildRan DEF Ran
<1>5. RoutingTypes'
  BY <1>1, <1>2, <1>4, HookTypes DEF RoutingTypeOK, Rests, focusVars
<1>6. FocusCatchesUp'
  BY <1>1, <1>2, <1>4, FocusKept DEF focusVars
<1>7. NoEdgeLost'
  BY <1>2, <1>3, <1>4, AppliedEmpty DEF NoEdgeLost
<1>8. WokenInv' /\ UnhookInv'
  BY <1>1, <1>2, <1>3, <1>4 DEF WokenInv, UnhookInv, Installing, focusVars
<1> QED BY <1>5, <1>6, <1>7, <1>8 DEF RInv

\* The refresh: the owner compares the two publications and acts on it.
LEMMA RefreshKeeps ==
  ASSUME RInv, LoseFocus \/ RegainFocus \/ KeepFocus
  PROVE  RInv'
<1>1. RoutingTypeOK /\ EngineTyped /\ UnhookInv /\ WokenInv /\ NoEdgeLost
  BY DEF RInv, RoutingTypes
<1>2. /\ Idle /\ todo = "none" /\ messages' = Tail(messages) /\ messages # <<>>
      /\ Head(messages) = "refresh"
      /\ wasActive' \in BOOLEAN /\ wasActive' = SeenActive
      /\ UNCHANGED <<down, systemDown, ledger, routed, gate, seen, requests, events, hooked,
                     timers>>
      /\ swallowed' \subseteq swallowed /\ todo' \in {"none", "rebuild"}
  <2>1. wasActive \in BOOLEAN /\ SeenActive \in BOOLEAN
    BY <1>1 DEF RoutingTypeOK, SeenActive
  <2>2. CASE LoseFocus
    BY <2>1, <2>2 DEF LoseFocus, NextMessage, OwnerFree
  <2>3. CASE RegainFocus
    BY <2>1, <2>3 DEF RegainFocus, NextMessage, OwnerFree, hookVars
  <2>4. CASE KeepFocus
    BY <2>1, <2>4 DEF KeepFocus, NextMessage, OwnerFree, hookVars, focusVars
  <2> QED BY <2>2, <2>3, <2>4
<1>3. /\ messages' \in Seq(Messages)
      /\ \A x \in {"routed", "unhook"} : Contains(messages', x) <=> Contains(messages, x)
  BY <1>2, NextMessageLeaves
<1>4. /\ EngineTyped' /\ eng'.phys = eng.phys /\ published' = published
      /\ LettingGo => LettingGo'
      /\ ~timers => eng'.expired = <<>>
  <2>1. CASE LoseFocus
    <3>1. Submit(LetGoOfAll(eng), published) /\ published \in Identity
      BY <1>1, <2>1 DEF LoseFocus, ClearHeldKeys, EngineTyped
    <3>2. Ran(eng.phys, eng.expired) /\ LettingGo'
      BY <1>1, <1>2, <3>1, ClearRan
    <3> QED BY <1>1, <3>2 DEF Ran, UnhookInv
  <2>2. CASE RegainFocus \/ KeepFocus
    BY <2>2, EngineAlone DEF RegainFocus, KeepFocus
  <2> QED BY <2>1, <2>2
<1>5. ~hooked => ~wasActive' /\ todo' # "rebuild"
  <2>1. SeenActive => hooked
    BY <1>1, <1>2, NoTargetAssumption DEF UnhookInv, Installing, SeenActive
  <2>2. RegainFocus \/ todo' = todo
    BY DEF LoseFocus, RegainFocus, KeepFocus
  <2>3. RegainFocus => SeenActive
    BY DEF RegainFocus
  <2> QED BY <1>1, <1>2, <2>1, <2>2, <2>3 DEF UnhookInv
<1>6. RoutingTypes'
  BY <1>1, <1>2, <1>3, <1>4, HookTypes DEF RoutingTypeOK, Rests
<1>7. FocusCatchesUp'
  BY <1>2, <1>4 DEF FocusCatchesUp, SeenActive
<1>8. NoEdgeLost'
  BY <1>1, <1>2, <1>3, <1>4, EdgesKept
<1>9. WokenInv'
  BY <1>1, <1>2, <1>3 DEF WokenInv, Posts
<1>10. UnhookInv'
  BY <1>1, <1>2, <1>4, <1>5 DEF UnhookInv, Installing
<1> QED BY <1>6, <1>7, <1>8, <1>9, <1>10 DEF RInv

\* A pause lets go of every key, a resume orders the rebuild and reinstalls
\* the hooks an emergency has removed.
LEMMA PauseKeeps ==
  ASSUME RInv, OwnerFree, NEW posted \in Seq(Messages), ToggleEngine(posted),
         \A x \in Messages \ {"toggle"} : Contains(messages, x) => Contains(posted, x)
  PROVE  RInv'
<1>1. /\ RoutingTypeOK /\ EngineTyped /\ UnhookInv /\ WokenInv /\ NoEdgeLost /\ FocusCatchesUp
      /\ published \in Identity /\ foreground \in Identity /\ Idle /\ todo = "none"
  BY DEF RInv, RoutingTypes, EngineTyped, OwnerFree
<1>2. \A x \in {"routed", "refresh", "unhook"} : Contains(messages, x) => Contains(posted, x)
  BY DEF Messages
<1>3. CASE ~eng.suspended
  <2>1. /\ Submit(Suspend(eng), published) /\ messages' = posted
        /\ UNCHANGED <<hookVars, focusVars, todo>>
    BY <1>3 DEF ToggleEngine
  <2>2. /\ EngineTyped' /\ eng'.phys = eng.phys /\ eng'.expired = eng.expired
        /\ UNCHANGED <<published, foreground>> /\ LettingGo'
    BY <1>1, <2>1, ClearRan DEF Ran
  <2>3. RoutingTypes'
    BY <1>1, <2>1, <2>2, HookTypes DEF RoutingTypeOK, hookVars, focusVars
  <2>4. FocusCatchesUp' /\ NoEdgeLost' /\ WokenInv'
    BY <1>1, <1>2, <2>1, <2>2, FocusKept, EdgesKept, WokenKept DEF hookVars, focusVars
  <2>5. UnhookInv'
    BY <1>1, <2>1, <2>2, UnhookKept DEF UnhookInv, hookVars, focusVars
  <2> QED BY <2>3, <2>4, <2>5 DEF RInv
<1>4. CASE eng.suspended
  <2>1. /\ eng' = Commit(Resume(eng), table.held) /\ messages' = posted
        /\ UNCHANGED <<table, batchTarget, config, foreground, published, down,
                       systemDown, ledger, swallowed, requests, events, hooked, timers>>
    BY <1>4 DEF ToggleEngine
  <2>2. /\ EngineTyped' /\ eng'.phys = eng.phys /\ eng'.expired = eng.expired
        /\ published' = published /\ (LettingGo => LettingGo')
    BY <1>1, <2>1, ResumeRan DEF Ran
  <2>3. /\ hooked => todo' = "rebuild" /\ UNCHANGED <<routed, gate, seen, wasActive>>
        /\ ~hooked => /\ routed' = <<>> /\ gate' = FALSE /\ seen' = foreground
                      /\ wasActive' = FALSE /\ todo' = "hook"
    BY <1>4 DEF ToggleEngine, Reinstall
  <2>4. /\ routed' \in Seq(RoutedEvent) /\ Len(routed') <= Capacity /\ gate' \in BOOLEAN
        /\ seen' \in Identity /\ wasActive' \in BOOLEAN /\ todo' \in Rests
    <3>1. CASE hooked
      BY <1>1, <2>3, <3>1 DEF RoutingTypeOK, Rests
    <3>2. CASE ~hooked
      <4>1. <<>> \in Seq(RoutedEvent) /\ Len(<<>>) <= Capacity
        BY RoutingAssumption
      <4> QED BY <1>1, <2>3, <3>2, <4>1 DEF Rests
    <3> QED BY <3>1, <3>2
  <2>5. RoutingTypes'
    BY <1>1, <2>1, <2>2, <2>4, HookTypes DEF RoutingTypeOK
  <2>6. FocusCatchesUp'
    <3>1. CASE hooked
      BY <1>1, <1>2, <2>1, <2>2, <2>3, <3>1, FocusKept
    <3>2. CASE ~hooked
      BY <2>1, <3>2 DEF FocusCatchesUp
    <3> QED BY <3>1, <3>2
  <2>7. NoEdgeLost'
    <3>1. CASE hooked
      BY <2>3, <3>1 DEF NoEdgeLost
    <3>2. CASE ~hooked
      BY <2>1, <3>2 DEF NoEdgeLost
    <3> QED BY <3>1, <3>2
  <2>8. WokenInv' /\ UnhookInv'
    BY <1>1, <2>1, <2>2, <2>3 DEF WokenInv, UnhookInv, Installing
  <2> QED BY <2>5, <2>6, <2>7, <2>8 DEF RInv
<1> QED BY <1>3, <1>4

\* The pause by F6, and the pause of the tray and of the IPC server.
LEMMA PausesKeep ==
  ASSUME RInv, ToggleSuspendPosted \/ ToggleSuspendSent
  PROVE  RInv'
<1>1. CASE ToggleSuspendPosted
  <2>1. OwnerFree /\ messages # <<>> /\ Head(messages) = "toggle" /\ ToggleEngine(Tail(messages))
    BY <1>1 DEF ToggleSuspendPosted
  <2> QED BY <2>1, NextMessageLeaves, PauseKeeps
<1>2. CASE ToggleSuspendSent
  BY <1>2, PauseKeeps DEF ToggleSuspendSent, RInv, RoutingTypes, RoutingTypeOK
<1> QED BY <1>1, <1>2

\* The installation goes on: the focus thread has its hook, and the poll asks
\* the resolver for what was seen last.
LEMMA InstallKeeps ==
  ASSUME RInv, InstallHook \/ InstallPoll
  PROVE  RInv'
<1>1. RoutingTypeOK /\ EngineTyped /\ UnhookInv /\ WokenInv /\ NoEdgeLost /\ FocusCatchesUp
  BY DEF RInv, RoutingTypes
<1>2. /\ UNCHANGED <<vars, hookVars, messages, seen, wasActive, events, timers>>
      /\ todo \in Installing /\ todo' \in {"poll", "rebuild"}
  BY DEF InstallHook, InstallPoll, Installing, focusVars
<1>3. ~hooked /\ ~wasActive
  BY <1>1, <1>2 DEF UnhookInv
<1>4. /\ EngineTyped' /\ eng'.phys = eng.phys /\ UNCHANGED <<published, foreground>>
      /\ LettingGo => LettingGo'
      /\ ~timers => eng'.expired = <<>>
  BY <1>2, EngineAlone
<1>5. CASE InstallHook
  <2>1. UNCHANGED focusVars /\ todo' = "poll" /\ todo = "hook"
    BY <1>5 DEF InstallHook
  <2>2. RoutingTypes'
    BY <1>1, <1>2, <1>4, <2>1, HookTypes DEF RoutingTypeOK, hookVars, focusVars, Rests
  <2>3. FocusCatchesUp' /\ NoEdgeLost' /\ WokenInv'
    BY <1>1, <1>2, <1>3, <2>1 DEF FocusCatchesUp, NoEdgeLost, WokenInv, hookVars, focusVars
  <2>4. UnhookInv'
    BY <1>1, <1>2, <1>3, <1>4, <2>1 DEF UnhookInv, Installing, hookVars, focusVars
  <2> QED BY <2>2, <2>3, <2>4 DEF RInv
<1>6. CASE InstallPoll
  <2>1. requests' = Enqueue(requests, seen) /\ hooked' = TRUE /\ todo' = "rebuild"
    BY <1>6 DEF InstallPoll
  <2>2. /\ requests' \in Seq(Identity) /\ Len(requests') <= QueueSize
        /\ Contains(requests', seen)
    BY <1>1, <2>1, RequestQueued DEF RoutingTypeOK
  <2>3. RoutingTypes'
    BY <1>1, <1>2, <1>4, <2>1, <2>2, HookTypes DEF RoutingTypeOK, hookVars, Rests
  <2>4. FocusCatchesUp'
    BY <1>2, <1>3, <2>2 DEF FocusCatchesUp
  <2>5. NoEdgeLost' /\ WokenInv' /\ UnhookInv'
    BY <1>1, <1>2, <1>3, <1>4, <2>1 DEF NoEdgeLost, WokenInv, UnhookInv, Installing, hookVars
  <2> QED BY <2>3, <2>4, <2>5 DEF RInv
<1> QED BY <1>5, <1>6

\* The emergency: the hooks and the timers are gone, and the batch lets go.
LEMMA EmergencyKeeps ==
  ASSUME RInv, EmergencyUnhook
  PROVE  RInv'
<1> DEFINE stopped == [eng EXCEPT !.armed = [k \in Keys |-> NoTimer], !.expired = <<>>]
<1>1. RoutingTypeOK /\ EngineTyped /\ eng \in EngineState
  BY DEF RInv, RoutingTypes, EngineTyped, Typed
<1>2. /\ Idle /\ todo = "none" /\ messages' = Tail(messages) /\ messages # <<>>
      /\ hooked' = FALSE /\ timers' = FALSE /\ seen' = NoTarget /\ wasActive' = FALSE
      /\ events' = <<>> /\ routed' = <<>> /\ gate' = FALSE
      /\ Submit(LetGoOfAll(stopped), published)
      /\ UNCHANGED <<down, systemDown, ledger, swallowed, requests, todo>>
  BY DEF EmergencyUnhook, NextMessage, OwnerFree
<1>3. /\ Typed(stopped) /\ stopped.out = <<>> /\ stopped.logical = eng.logical
      /\ stopped.phys = eng.phys /\ stopped.expired = <<>>
  <2>1. stopped \in EngineState
    <3> DEFINE none == [k \in Keys |-> NoTimer]
    <3>1. none \in [Keys -> TimerRef] /\ <<>> \in Seq(Keys \X TimerIds)
      BY DEF TimerRef
    <3>2. stopped = [eng EXCEPT !.armed = none, !.expired = <<>>]
      OBVIOUS
    <3> HIDE DEF none, stopped
    <3> QED BY <1>1, <3>1, <3>2 DEF EngineState
  <2>2. /\ stopped.last = eng.last /\ stopped.out = eng.out /\ stopped.logical = eng.logical
        /\ stopped.phys = eng.phys /\ stopped.expired = <<>>
    BY <1>1 DEF EngineState
  <2> HIDE DEF stopped
  <2>3. Len(stopped.expired) <= MaxExpired
    BY <2>2, EngineAssumption
  <2> QED BY <1>1, <1>2, <2>1, <2>2, <2>3 DEF Typed, EngineTyped, LastIsOfAxis, Idle
<1> HIDE DEF stopped
<1>4. EngineTyped' /\ eng'.expired = <<>> /\ LettingGo'
  BY <1>1, <1>2, <1>3, LetGoRan DEF Ran, EngineTyped
<1>5. messages' \in Seq(Messages)
  BY <1>2, NextMessageLeaves
<1>6. RoutingTypes'
  <2>1. routed' \in Seq(RoutedEvent) /\ events' \in Seq(Identity) /\ Len(routed') <= Capacity
        /\ seen' \in Identity
    BY <1>2, RoutingAssumption DEF Identity
  <2> QED BY <1>1, <1>2, <1>4, <1>5, <2>1, HookTypes DEF RoutingTypeOK
<1>7. FocusCatchesUp' /\ NoEdgeLost' /\ WokenInv' /\ UnhookInv'
  BY <1>2, <1>4 DEF FocusCatchesUp, NoEdgeLost, WokenInv, UnhookInv, Installing
<1> QED BY <1>6, <1>7 DEF RInv

\* A change of the mode: the queue is drained, the keys are let go of, and
\* only then the mode changes.
LEMMA ModeStepsKeep ==
  ASSUME RInv, ModeRequest \/ PrepareModeChange \/ \E mode \in ModesAllowed : SwitchMode(mode)
  PROVE  RInv'
<1>1. RoutingTypeOK /\ EngineTyped /\ UnhookInv /\ WokenInv /\ NoEdgeLost /\ FocusCatchesUp
  BY DEF RInv, RoutingTypes
<1>2. /\ UNCHANGED <<down, systemDown, ledger, routed, messages, focusVars>>
      /\ swallowed' \subseteq swallowed /\ todo' \in {"none", "mode", "switch"}
      /\ todo \in {"none", "mode", "switch"}
      /\ \/ gate' = FALSE /\ routed = <<>>
         \/ UNCHANGED gate /\ todo' = "mode"
  BY <1>1 DEF ModeRequest, PrepareModeChange, SwitchMode, OwnerFree, hookVars, WokenInv,
              RoutingTypeOK
<1>3. /\ EngineTyped' /\ eng'.phys = eng.phys /\ eng'.expired = eng.expired
      /\ UNCHANGED <<published, foreground>> /\ (LettingGo => LettingGo')
  <2>1. CASE UNCHANGED vars
    <3>1. EngineTyped' /\ (LettingGo => LettingGo')
      BY <2>1, EngineAlone
    <3> QED BY <2>1, <3>1 DEF vars
  <2>2. CASE PrepareModeChange /\ ClearHeldKeys(published)
    <3>1. Submit(LetGoOfAll(eng), published) /\ published \in Identity /\ Idle
      BY <1>1, <2>2 DEF ClearHeldKeys, EngineTyped
    <3> QED BY <1>1, <3>1, ClearRan DEF Ran
  <2>3. ASSUME NEW mode \in ModesAllowed, SwitchMode(mode)
        PROVE  /\ EngineTyped' /\ eng'.phys = eng.phys /\ eng'.expired = eng.expired
               /\ UNCHANGED <<published, foreground>> /\ (LettingGo => LettingGo')
    <3>1. /\ UNCHANGED <<eng, table, batchTarget, foreground, published>>
          /\ config' = config \/ config' = [config EXCEPT !.mode = mode]
      BY <2>3 DEF SwitchMode
    <3>2. config' \in Configs
      BY <1>1, <2>3, <3>1 DEF EngineTyped, Configs
    <3> QED BY <1>1, <3>1, <3>2 DEF EngineTyped, Idle, LettingGo
  <2> QED BY <2>1, <2>2, <2>3 DEF ModeRequest, PrepareModeChange
<1>4. RoutingTypes'
  BY <1>1, <1>2, <1>3, HookTypes DEF RoutingTypeOK, Rests, focusVars
<1>5. FocusCatchesUp' /\ NoEdgeLost'
  BY <1>1, <1>2, <1>3, FocusKept, EdgesKept DEF focusVars
<1>6. WokenInv'
  BY <1>1, <1>2 DEF WokenInv, Posts
<1>7. UnhookInv'
  BY <1>1, <1>2, <1>3, UnhookKept DEF UnhookInv, Installing, focusVars
<1> QED BY <1>4, <1>5, <1>6, <1>7 DEF RInv

\* The invariant holds of the start ...
LEMMA RoutingInitInv ==
  RoutingInit => RInv
<1> SUFFICES ASSUME RoutingInit PROVE RInv
  OBVIOUS
<1>1. /\ eng = InitialEngine(Favourite) /\ table = EmptyTable /\ batchTarget = NoTarget
      /\ config \in Configs /\ foreground \in Targets /\ published = foreground
      /\ down = {} /\ systemDown = {} /\ ledger = {} /\ swallowed = {}
      /\ routed = <<>> /\ gate = FALSE /\ messages = <<>>
      /\ seen = foreground /\ requests = <<>> /\ wasActive = TRUE /\ events = <<>>
      /\ hooked = TRUE /\ timers = TRUE /\ todo = "none"
  BY DEF RoutingInit, Init
<1>2. IInv
  BY InitKeeps DEF RoutingInit
<1>3. EngineTyped
  <2>1. eng.expired = <<>> /\ eng.out = <<>> /\ eng.logical = {} /\ eng.native = {}
    BY <1>1 DEF InitialEngine
  <2>2. table.held = {}
    BY <1>1 DEF EmptyTable
  <2>3. Typed(eng)
    BY <1>2, IInvTypes DEF IInv, EngineInv, KeyInv, Typed
  <2> QED BY <1>2, <2>1, <2>2, <2>3 DEF IInv, EngineTyped
<1>4. RoutingTypes
  <2>1. TypeOK
    BY <1>2, IInvTypes
  <2>2. routed \in Seq(RoutedEvent) /\ Len(routed) <= Capacity /\ messages \in Seq(Messages)
        /\ events \in Seq(Identity) /\ seen \in Identity
        /\ requests \in Seq(Identity) /\ Len(requests) <= QueueSize
    BY <1>1, RoutingAssumption, QueueAssumption DEF Identity
  <2>3. RoutingTypeOK
    BY <1>1, <2>1, <2>2 DEF RoutingTypeOK, Rests
  <2> QED BY <1>3, <2>3 DEF RoutingTypes
<1>5. NoEdgeLost
  <2>1. eng.phys = {}
    BY <1>1 DEF InitialEngine
  <2>2. Applied({}, <<>>) = {}
    BY AppliedEmpty
  <2> QED BY <1>1, <2>1, <2>2 DEF NoEdgeLost
<1>6. FocusCatchesUp
  BY <1>1 DEF FocusCatchesUp, SeenActive
<1>7. WokenInv /\ UnhookInv
  BY <1>1 DEF WokenInv, UnhookInv, Installing
<1> QED BY <1>4, <1>5, <1>6, <1>7 DEF RInv

\* ... and every step keeps it.
LEMMA RoutingStep ==
  RInv /\ [RoutingNext]_allVars => RInv'
<1> SUFFICES ASSUME RInv, [RoutingNext]_allVars PROVE RInv'
  OBVIOUS
<1>1. ASSUME NEW k \in PlayerKeys, HookKey(k)
      PROVE  RInv'
  BY <1>1, HookKeyKeeps
<1>2. ASSUME NEW k \in PlayerKeys, RepeatKey(k) \/ StaleEdge(k) \/ NativeKey(k)
      PROVE  RInv'
  BY <1>2, NativeEdgesKeep
<1>3. ASSUME NEW t \in Identity, Focus(t)
      PROVE  RInv'
  BY <1>3, FocusKeeps
<1>4. CASE WinEvent \/ PressF6
  BY <1>4, PostsKeep
<1>16. CASE Resolve
  BY <1>16, ResolveKeeps
<1>17. CASE InstallHook \/ InstallPoll
  BY <1>17, InstallKeeps
<1>5. CASE ToggleSuspendSent \/ ToggleSuspendPosted
  BY <1>5, PausesKeep
<1>6. CASE ModeRequest \/ PrepareModeChange \/ \E mode \in ModesAllowed : SwitchMode(mode)
  BY <1>6, ModeStepsKeep
<1>7. CASE RoutedInputReady \/ RouteMore \/ EndDrain
  BY <1>7, QueueDrainKeeps
<1>8. CASE Route
  BY <1>8, RouteKeeps
<1>9. CASE Rebuild
  BY <1>9, LedgerTaken
<1>10. CASE LoseFocus \/ RegainFocus \/ KeepFocus
  BY <1>10, RefreshKeeps
<1>11. CASE EmergencyUnhook
  BY <1>11, EmergencyKeeps
<1>12. ASSUME NEW ok \in Outcomes, SendOne(ok)
       PROVE  RInv'
  <2>1. ok \in BOOLEAN
    BY DEF Outcomes
  <2> QED BY <1>12, <2>1, EngineStepsKeep
<1>13. ASSUME NEW k \in Keys, FireTimer(k)
       PROVE  RInv'
  BY <1>13, EngineStepsKeep
<1>14. CASE DrainExpired \/ PumpReleases
  BY <1>14, EngineStepsKeep
<1>15. CASE UNCHANGED allVars
  <2>1. UNCHANGED <<vars, hookVars, messages, focusVars, todo>>
    BY <1>15 DEF allVars
  <2>2. /\ EngineTyped' /\ eng'.phys = eng.phys /\ UNCHANGED <<published, foreground>>
        /\ LettingGo => LettingGo'
        /\ ~timers => eng'.expired = <<>>
    BY <2>1, EngineAlone
  <2>3. RoutingTypes'
    BY <2>1, <2>2, HookTypes DEF RInv, RoutingTypes, RoutingTypeOK, hookVars, focusVars
  <2>4. ~hooked => LettingGo'
    BY <2>2 DEF RInv, UnhookInv
  <2> QED BY <2>1, <2>2, <2>3, <2>4, ElsewhereKept DEF hookVars
<1> QED BY <1>1, <1>2, <1>3, <1>4, <1>5, <1>6, <1>7, <1>8, <1>9, <1>10, <1>11, <1>12,
           <1>13, <1>14, <1>15, <1>16, <1>17 DEF RoutingNext, OwnerStep

(* In every behaviour of the program behind the hook the types are right,  *)
(* no queued edge lacks its wake-up, the owner's idea of the focus is      *)
(* being corrected, the queue leads from the engine's keys to the hook's,  *)
(* and what is unhooked presses nothing.                                   *)
THEOREM RoutingInvariant ==
  RoutingSpec => []RInv
BY RoutingInitInv, RoutingStep, PTL DEF RoutingSpec

(* The states of hook, queue, owner thread and engine are well typed, and  *)
(* the routed queue (routed_input_queue.h) never exceeds its capacity.     *)
THEOREM RoutingTypeCorrect ==
  RoutingSpec => []RoutingTypeOK
<1>1. RInv => RoutingTypeOK
  BY DEF RInv, RoutingTypes
<1> QED BY <1>1, RoutingInvariant, PTL

(* No physical edge is lost, reordered or invented between LowLevelKbdProc *)
(* and the engine, whatever the player, the focus, the clients and the     *)
(* timers do in between.                                                   *)
THEOREM RoutingNoEdgeLost ==
  RoutingSpec => []NoEdgeLost
<1>1. RInv => NoEdgeLost
  BY DEF RInv
<1> QED BY <1>1, RoutingInvariant, PTL

(* RoutedInputWakeGate loses no wake-up: a queued edge has a message that  *)
(* will route it, or the owner thread is at it.                            *)
THEOREM RoutingQueueIsWoken ==
  RoutingSpec => []QueueIsWoken
<1>1. RInv => QueueIsWoken
  BY DEF RInv, WokenInv, QueueIsWoken
<1> QED BY <1>1, RoutingInvariant, PTL

(* s_wasTargetActive never stays wrong unnoticed: while the hooks are      *)
(* installed and it differs from what the two publications say, a refresh  *)
(* is posted; a target it has yet to notice may, after a resume, wait for  *)
(* the resolver's answer or a focus event instead, or be in front no more. *)
THEOREM RoutingFocusCatchesUp ==
  RoutingSpec => []FocusCatchesUp
<1>1. RInv => FocusCatchesUp
  BY DEF RInv
<1> QED BY <1>1, RoutingInvariant, PTL

(* The emergency unhook lets go: without hooks the boundary holds no key   *)
(* it does not owe a release for, and nothing can press one.               *)
THEOREM RoutingUnhookedHoldsNothing ==
  RoutingSpec => []UnhookedHoldsNothing
<1>1. RInv => UnhookedHoldsNothing
  <2> SUFFICES ASSUME RInv, OwnerFree, ~hooked, NEW k \in table.held
               PROVE  k \in table.pending
    BY DEF UnhookedHoldsNothing
  <2>1. LettingGo /\ eng.out = <<>> /\ k \in Keys
    BY DEF RInv, UnhookInv, OwnerFree, Idle, RoutingTypes, EngineTyped
  <2>2. ~Falls(eng.out, k)
    BY <2>1, EmptyBatch
  <2> QED BY <2>1, <2>2 DEF LettingGo
<1> QED BY <1>1, RoutingInvariant, PTL

-----------------------------------------------------------------------------
(***************************************************************************)
(* The target stays in front: no focus event, no rejected event, no        *)
(* overflow.  Then every key is held for the published target, nothing is  *)
(* owed, and the hook's ledger is what the player holds.                   *)
(***************************************************************************)
SteadyAssumption == ~RejectsAllowed /\ MaxEvents = 0 /\ ~MayUnhook

Undisturbed ==
  /\ published \in Targets /\ foreground = published /\ seen = published
  /\ hooked /\ wasActive /\ requests = <<>> /\ events = <<>>
  /\ ~Posts("unhook") /\ ledger = down
  /\ todo = "rebuild" => ~eng.suspended

\* Whatever is held, sent, queued or waited for is meant for the published target.
Mine(tab) == tab.pending = {} /\ \A s \in tab.held : tab.owner[s] = published
Meant ==
  /\ Idle \/ batchTarget = published
  /\ \A i \in DOMAIN routed : routed[i].target = published
  /\ Mine(table) /\ Aims(eng, published)

\* No timer is waited for.
NoWait(e) == \A k \in Keys : e.expect[k] = NoTimer

\* Nothing held stays, nothing is pressed, nothing will expire.
Quiet == LettingGo /\ NoWait(eng)

\* In OFF a pause is quiet, and so is the moment before the mode changes.
PausedOff == config.mode = "OFF" /\ eng.suspended
QuietInv == PausedOff \/ todo = "switch" => Quiet

SteadyInv == Undisturbed /\ Meant /\ QuietInv /\ BurstIsNotCut

\* A key is pressed once: it is held for the target the batch is for ...
LEMMA PressMine ==
  ASSUME Sound(table), table.held \subseteq Slots, Mine(table), published \in Targets, NEW s \in Slots
  PROVE  LET r == KeyDownForTarget(table, s, published, TRUE, TRUE)
         IN  r.held = table.held \union {s} /\ Mine(r)
<1> DEFINE r == KeyDownForTarget(table, s, published, TRUE, TRUE)
<1>1. ~table.releaseOnly
  BY DEF Sound, Mine, SlotInv, ReleaseOnlyIsExact
<1>2. CASE s \in table.held
  <2>1. r = table
    BY <1>1, <1>2 DEF KeyDownForTarget, MayPress, PressReachesBackend, Mine
  <2> QED BY <1>2, <2>1
<1>3. CASE s \notin table.held
  <2>1. r = [TrackDown(table, s) EXCEPT !.owner[s] = published]
    BY <1>1, <1>3 DEF KeyDownForTarget, MayPress, PressReachesBackend
  <2> HIDE DEF r
  <2>2. /\ r.held = table.held \union {s} /\ r.pending = table.pending
        /\ r.owner[s] = published /\ \A x \in Slots \ {s} : r.owner[x] = table.owner[x]
    BY <2>1 DEF TrackDown, Sound, SlotTable
  <2>3. r.held = table.held \union {s} /\ Mine(r)
    BY <2>2 DEF Mine
  <2> QED BY <2>3 DEF r
<1> QED BY <1>2, <1>3

\* ... and let go of at once.
LEMMA ReleaseMine ==
  ASSUME Sound(table), table.held \subseteq Slots, Mine(table), published \in Targets, NEW s \in Slots
  PROVE  LET r == KeyUpForTarget(table, s, published, TRUE, TRUE)
         IN  r.held = table.held \ {s} /\ Mine(r)
<1> DEFINE r == KeyUpForTarget(table, s, published, TRUE, TRUE)
<1>1. published # NoTarget
  BY NoTargetAssumption
<1>2. CASE s \in table.held
  <2>1. r = RefreshReleaseOnly(TrackUp(table, s))
    BY <1>1, <1>2 DEF KeyUpForTarget, ReleaseSlot, Mine
  <2> HIDE DEF r
  <2>2. /\ r.held = table.held \ {s} /\ r.pending = table.pending \ {s}
        /\ \A x \in Slots \ {s} : r.owner[x] = table.owner[x]
    BY <2>1 DEF TrackUp, RefreshReleaseOnly, Sound, SlotTable
  <2>3. r.held = table.held \ {s} /\ Mine(r)
    BY <2>2 DEF Mine
  <2> QED BY <2>3 DEF r
<1>3. CASE s \notin table.held
  <2>1. r = table
    BY <1>3 DEF KeyUpForTarget, Mine
  <2> QED BY <1>3, <2>1
<1> QED BY <1>2, <1>3

\* So an event of the batch does what it says.
LEMMA SentMine ==
  ASSUME EngineTyped, Undisturbed, Meant, ~Idle
  PROVE  LET h == Head(eng.out)
             r == SlotsAfter(TRUE)
         IN  /\ h = Event(h.key, h.down) /\ h.key \in Keys
             /\ r.held = IF h.down THEN table.held \union {h.key} ELSE table.held \ {h.key}
             /\ Mine(r)
<1> DEFINE h == Head(eng.out)
           r == SlotsAfter(TRUE)
<1>1. eng.out \in Seq(EventSet) /\ eng.out # <<>>
  BY DEF EngineTyped, Typed, EngineState, EventSet, Idle
<1>2. h \in EventSet
  BY <1>1, HeadTailProperties
<1>3. h.key \in Slots /\ h.key \in Keys /\ h.down \in BOOLEAN /\ h = Event(h.key, h.down)
  BY <1>2, KeysAssumption DEF EventSet, Event
<1>4. /\ Sound(table) /\ table.held \subseteq Slots /\ batchTarget = published
      /\ published \in Targets /\ Active(published) = TRUE
  BY EngineTypedTypes DEF EngineTyped, Undisturbed, Meant, Active
<1>5. r = IF h.down THEN KeyDownForTarget(table, h.key, published, TRUE, TRUE)
                    ELSE KeyUpForTarget(table, h.key, published, TRUE, TRUE)
  BY <1>4 DEF SlotsAfter
<1> HIDE DEF h, r
<1>6. r.held = (IF h.down THEN table.held \union {h.key} ELSE table.held \ {h.key}) /\ Mine(r)
  BY <1>3, <1>4, <1>5, PressMine, ReleaseMine DEF Meant
<1> QED BY <1>3, <1>6 DEF h, r

-----------------------------------------------------------------------------
(* A pause in OFF: handlers wait for nothing and press nothing.            *)

\* r waits for nothing e does not wait for, and presses nothing more.
Stills(e, r) ==
  /\ NoWait(e) => NoWait(r)
  /\ \A k \in Keys : Presses(r.out, k) => Presses(e.out, k)

\* Two such steps make one.
LEMMA StillTrans ==
  ASSUME NEW e, NEW f, NEW g, Stills(e, f), Stills(f, g)
  PROVE  Stills(e, g)
BY DEF Stills

\* The steps that neither press nor wait.
LEMMA StepsStill ==
  ASSUME NEW e \in EngineState, NEW k \in Keys
  PROVE  /\ Stills(e, ReleaseIfDown(e, k)) /\ Stills(e, StopExpecting(e, k))
         /\ Stills(e, DisarmAll(e, AxisOf(k))) /\ Stills(e, CancelSocdTransition(e, AxisOf(k)))
<1>1. AxisOf(k) \in SUBSET Keys
  BY AxisFacts
<1>2. Stills(e, ReleaseIfDown(e, k))
  <2>1. \A x \in Keys : Presses(ReleaseIfDown(e, k).out, x) <=> Presses(e.out, x)
    BY ReleaseBatch
  <2> QED BY <2>1, ReleaseFields DEF Stills, NoWait
<1>3. Stills(e, StopExpecting(e, k)) /\ Stills(e, DisarmAll(e, AxisOf(k)))
  BY <1>1, StopFields, DisarmFields DEF Stills, NoWait
<1>4. Stills(e, CancelSocdTransition(e, AxisOf(k)))
  <2> DEFINE r == CancelSocdTransition(e, AxisOf(k))
  <2>1. r.out = e.out /\ \A j \in Keys : e.expect[j] = NoTimer => r.expect[j] = NoTimer
    BY CancelFields
  <2> HIDE DEF r
  <2>2. Stills(e, r)
    BY <2>1 DEF Stills, NoWait
  <2> QED BY <2>2 DEF r
<1> QED BY <1>2, <1>3, <1>4

\* ResolveAxis in OFF.
LEMMA ResolveAxisStill ==
  ASSUME NEW e, Typed(e), NEW k \in Keys, NEW press \in BOOLEAN, NEW c,
         c.mode = "OFF", c.target \in Identity
  PROVE  Stills(e, ResolveAxis(e, AxisOf(k), press, c))
<1> DEFINE ax == AxisOf(k)
           d == CancelSocdTransition(e, ax)
           now == e.phys \intersect ax
           moved == [d EXCEPT !.axisState[ax] = now]
           only == CHOOSE j \in now : TRUE
           r == ResolveAxis(e, ax, press, c)
<1>1. ax \in Axes /\ ax \subseteq Keys /\ e \in EngineState
  BY AxisFacts DEF Typed
<1>2. Stills(e, d) /\ d \in EngineState
  BY <1>1, StepsStill, CancelFields
<1> HIDE DEF d
<1>3. now \in SUBSET Keys
  BY <1>1
<1> HIDE DEF now
<1>4. /\ moved \in EngineState /\ moved.expect = d.expect /\ moved.out = d.out
  BY <1>1, <1>2, <1>3 DEF EngineState
<1>5. \/ r = e \/ r = DisarmAll(moved, ax) \/ r = moved
      \/ now # {} /\ r = [moved EXCEPT !.logical = @ \union {only}]
      \/ now # {} /\ r = CancelStaleCounterStrafe(moved, Opposite[only])
  BY DEF ResolveAxis, ResolveConflict, Engage, moved, now, d
<1> HIDE DEF r, moved
<1>6. Stills(e, moved)
  BY <1>2, <1>4 DEF Stills, NoWait
<1>7. Stills(e, DisarmAll(moved, ax))
  BY <1>4, <1>6, StepsStill, StillTrans
<1>8. ASSUME now # {} PROVE only \in Keys /\ Opposite[only] \in Keys
  BY <1>3, <1>8, AxisFacts
<1> HIDE DEF only
<1>9. ASSUME r = [moved EXCEPT !.logical = @ \union {only}] PROVE Stills(e, r)
  <2>1. r.expect = moved.expect /\ r.out = moved.out
    BY <1>4, <1>9 DEF EngineState
  <2> QED BY <1>6, <2>1 DEF Stills, NoWait
<1>10. ASSUME NEW j \in Keys PROVE Stills(e, CancelStaleCounterStrafe(moved, j))
  <2> DEFINE s == StopExpecting(moved, j)
  <2>1. Stills(e, s) /\ s \in EngineState
    BY <1>4, <1>6, StepsStill, StillTrans, StopFields
  <2>2. CancelStaleCounterStrafe(moved, j) = IF j \in moved.phys THEN s ELSE ReleaseIfDown(s, j)
    BY DEF CancelStaleCounterStrafe
  <2> HIDE DEF s
  <2>3. Stills(e, ReleaseIfDown(s, j))
    BY <2>1, StepsStill, StillTrans
  <2> QED BY <2>1, <2>2, <2>3
<1>11. Stills(e, e)
  BY DEF Stills
<1>12. Stills(e, r)
  BY <1>5, <1>6, <1>7, <1>8, <1>9, <1>10, <1>11
<1> QED BY <1>12 DEF r

\* HandleKeyDown during a pause in OFF.
LEMMA KeyDownStill ==
  ASSUME NEW e, Typed(e), NEW k \in Keys, k \notin e.phys, NEW route \in BOOLEAN, NEW c,
         c.mode = "OFF", c.target \in Identity, c.held \subseteq Slots
  PROVE  Stills(e, HandleKeyDown(e, k, route, c))
<1> DEFINE ax == AxisOf(k)
           p == [e EXCEPT !.phys = @ \union {k}, !.last[ax] = k]
           s == IF MacroBrakePending(p, k) THEN p ELSE StopExpecting(p, k)
           o == TrackIfOff(s, c)
           z == ResolveAxis(o, ax, TRUE, c)
           g == [z EXCEPT !.logical = @ \union {k}]
<1>1. /\ Typed(p) /\ p.expect = e.expect /\ p.out = e.out /\ p \in EngineState
  <2>1. ax \in Axes /\ k \in ax /\ e \in EngineState
    BY AxisFacts DEF AxisOf, Typed
  <2> HIDE DEF ax
  <2>2. /\ p \in EngineState /\ p.expect = e.expect /\ p.out = e.out /\ p.expired = e.expired
        /\ \A a \in Axes : p.last[a] = IF a = ax THEN k ELSE e.last[a]
    BY <2>1 DEF EngineState
  <2> HIDE DEF p
  <2>3. ASSUME NEW j \in Keys PROVE LastIsOfAxis(p, j)
    BY <2>1, <2>2, AxisFacts DEF LastIsOfAxis, Typed
  <2> QED BY <2>2, <2>3 DEF Typed
<1> HIDE DEF p
<1>2. Stills(e, p)
  BY <1>1 DEF Stills, NoWait
<1>3. Stills(e, s) /\ Typed(s) /\ s \in EngineState
  <2>1. Stills(p, StopExpecting(p, k)) /\ Alike(p, StopExpecting(p, k), c.target)
    BY <1>1, StepsStill, StepsAlike
  <2>2. Stills(e, StopExpecting(p, k)) /\ Typed(StopExpecting(p, k))
    BY <1>1, <1>2, <2>1, StillTrans, AlikeTyped
  <2> QED BY <1>1, <1>2, <2>2 DEF Typed
<1> HIDE DEF s
<1>4. Stills(e, o) /\ Typed(o)
  <2>1. /\ o \in EngineState /\ o.last = s.last /\ o.out = s.out /\ o.expired = s.expired
        /\ o.expect = s.expect
    BY <1>3, TrackFields
  <2> QED BY <1>3, <2>1 DEF Stills, NoWait, Typed, LastIsOfAxis
<1>5. HandleKeyDown(e, k, route, c) = IF ~route THEN o ELSE IF z.axisState[ax] = ax THEN z ELSE g
  <2>1. CASE ~route
    BY <2>1 DEF HandleKeyDown, o, s, p
  <2>2. CASE route
    <3>1. HandleKeyDown(e, k, route, c) = IF z.axisState[ax] = ax THEN z ELSE Engage(z, k, c)
      BY <2>2 DEF HandleKeyDown, o, s, p
    <3> HIDE DEF z
    <3> QED BY <2>2, <3>1 DEF Engage
  <2> QED BY <2>1, <2>2
<1> HIDE DEF o
<1>6. Stills(e, z) /\ z \in EngineState
  <2>1. Stills(o, z) /\ Alike(o, z, c.target)
    BY <1>4, ResolveAxisStill, ResolveAxisAlike
  <2> QED BY <1>4, <2>1, StillTrans DEF Alike
<1> HIDE DEF z
<1>7. Stills(e, g)
  <2>1. g.expect = z.expect /\ g.out = z.out
    BY <1>6 DEF EngineState
  <2> QED BY <1>6, <2>1 DEF Stills, NoWait
<1> QED BY <1>4, <1>5, <1>6, <1>7

\* HandleKeyUp during a pause in OFF: no brake starts.
LEMMA KeyUpStill ==
  ASSUME NEW e, Typed(e), e.suspended, NEW k \in Keys, NEW route \in BOOLEAN, NEW c,
         c.mode = "OFF", c.target \in Identity, c.held \subseteq Slots
  PROVE  Stills(e, HandleKeyUp(e, k, route, c))
<1> DEFINE ax == AxisOf(k)
           d == CancelSocdTransition(e, ax)
           p == [d EXCEPT !.phys = @ \ {k}]
           u == TrackIfOff(p, c)
           f == ReleaseIfDown(u, k)
           z == IF MacroBrakePending(u, k) THEN u ELSE f
           w == ResolveAxis(z, ax, FALSE, c)
<1>1. Alike(e, d, c.target) /\ Stills(e, d) /\ e \in EngineState
  BY StepsAlike, StepsStill DEF Typed
<1>2. Typed(d)
  BY <1>1, AlikeTyped
<1> HIDE DEF d
<1>3. /\ Typed(p) /\ p \in EngineState /\ p.expect = d.expect /\ p.out = d.out
      /\ p.suspended = e.suspended
  BY <1>1, <1>2 DEF Alike, Typed, EngineState, LastIsOfAxis
<1> HIDE DEF p
<1>4. Stills(e, u) /\ Typed(u) /\ u.suspended = e.suspended
  <2>1. /\ u \in EngineState /\ u.last = p.last /\ u.out = p.out /\ u.expired = p.expired
        /\ u.expect = p.expect /\ u.suspended = p.suspended
    BY <1>3, TrackFields
  <2> QED BY <1>1, <1>3, <2>1 DEF Stills, NoWait, Typed, LastIsOfAxis
<1>5. HandleKeyUp(e, k, route, c) =
        IF k \notin e.phys THEN IF route THEN ResolveAxis(e, ax, FALSE, c) ELSE e
        ELSE IF route THEN RoutedKeyUp(u, k, c) ELSE u
  BY DEF HandleKeyUp, u, p, d
<1> HIDE DEF u
<1>6. RoutedKeyUp(u, k, c) = w
  <2>1. AutoCounterStrafe(u, k, c) = <<FALSE, u>>
    BY <1>4 DEF AutoCounterStrafe, NoBrake
  <2> DEFINE after == CASE MacroBrakePending(u, k) -> <<TRUE, u>>
                        [] ~MacroBrakePending(u, k) /\ Opposite[k] \notin u.phys -> <<FALSE, u>>
                        [] ~MacroBrakePending(u, k) /\ Opposite[k] \in u.phys -> <<FALSE, u>>
             y == IF after[1] THEN after[2] ELSE ReleaseIfDown(after[2], k)
  <2>2. RoutedKeyUp(u, k, c) = ResolveAxis(y, ax, FALSE, c)
    BY <2>1 DEF RoutedKeyUp
  <2>3. after = IF MacroBrakePending(u, k) THEN <<TRUE, u>> ELSE <<FALSE, u>>
    OBVIOUS
  <2> HIDE DEF after
  <2>4. y = z
    BY <2>3
  <2> QED BY <2>2, <2>4
<1>7. Stills(e, f) /\ Typed(f)
  <2>1. Stills(u, f) /\ Alike(u, f, c.target)
    BY <1>4, StepsStill, StepsAlike DEF Typed
  <2> QED BY <1>4, <2>1, StillTrans, AlikeTyped
<1> HIDE DEF f
<1>8. Stills(e, z) /\ Typed(z)
  BY <1>4, <1>7
<1> HIDE DEF z
<1>9. Stills(z, w) /\ Stills(e, ResolveAxis(e, ax, FALSE, c))
  BY <1>8, ResolveAxisStill
<1>10. Stills(e, w) /\ Stills(e, e)
  BY <1>8, <1>9, StillTrans DEF Stills
<1> HIDE DEF w
<1> QED BY <1>4, <1>5, <1>6, <1>9, <1>10

-----------------------------------------------------------------------------
(* The steps, while the target stays in front.                             *)

\* What no step changes.
StaysInFront ==
  /\ UNCHANGED <<published, foreground, seen, hooked, wasActive, requests, events>>
  /\ ledger' = down' /\ ~Contains(messages', "unhook")

\* The target, the queue and the timers stay meant for the published target.
StaysMeant ==
  /\ Idle' \/ batchTarget' = published
  /\ \A i \in DOMAIN routed' : routed'[i].target = published
  /\ Mine(table)' /\ Aims(eng', published)

\* With them, what is undisturbed and what is meant is kept.
LEMMA SteadyKept ==
  ASSUME SteadyInv, StaysInFront, StaysMeant, todo' = "rebuild" => ~eng'.suspended,
         QuietInv', BurstIsNotCut'
  PROVE  SteadyInv'
BY DEF SteadyInv, Undisturbed, Meant, StaysInFront, StaysMeant, Posts

\* A step that leaves the engine alone keeps the part that is about it.
LEMMA SteadyAlone ==
  ASSUME SteadyInv, UNCHANGED vars, StaysInFront,
         \A i \in DOMAIN routed' : routed'[i].target = published,
         todo' \in {"switch", "rebuild"} => todo' = todo,
         config.mode = "OFF" => table.held \subseteq systemDown'
  PROVE  SteadyInv'
<1>1. UNCHANGED <<eng, table, batchTarget, config, published>>
  BY DEF vars
<1>2. StaysMeant
  BY <1>1 DEF SteadyInv, Meant, StaysMeant, Idle, Mine
<1>3. QuietInv'
  BY <1>1 DEF SteadyInv, QuietInv, PausedOff, Quiet, LettingGo
<1>4. BurstIsNotCut'
  BY <1>1 DEF BurstIsNotCut
<1>5. todo' = "rebuild" => ~eng'.suspended
  BY <1>1 DEF SteadyInv, Undisturbed
<1> QED BY <1>2, <1>3, <1>4, <1>5, SteadyKept

\* An edge: a key that the boundary holds is let go of by the engine only.
LEMMA HookKeySteady ==
  ASSUME SteadyAssumption, RInv, SteadyInv, NEW k \in PlayerKeys, HookKey(k)
  PROVE  SteadyInv'
<1> DEFINE isDown == k \notin down
           event  == [key |-> k, down |-> isDown, route |-> HookRoutes, target |-> seen]
           taken  == IF isDown THEN HookRoutes /\ HasRoom /\ config.mode # "OFF"
                     ELSE k \in swallowed \/ (config.mode = "OFF" /\ HookRoutes /\ HoldsBrake(k))
<1>1. /\ RoutingTypeOK /\ k \in Keys /\ EngineTyped
      /\ seen = published /\ published \in Targets /\ ledger = down /\ ~Contains(messages, "unhook")
      /\ Mine(table) /\ QuietInv /\ BurstIsNotCut
      /\ \A i \in DOMAIN routed : routed[i].target = published
  BY RoutingAssumption DEF RInv, RoutingTypes, SteadyInv, Undisturbed, Meant, Posts
<1>2. /\ OwnerFree /\ HasRoom
      /\ down' = IF isDown THEN down \union {k} ELSE down \ {k}
      /\ ledger' = IF isDown THEN ledger \union {k} ELSE ledger \ {k}
      /\ routed' = Append(routed, event) /\ messages' = Posted(TRUE)
      /\ systemDown' = IF taken THEN systemDown
                       ELSE IF isDown THEN systemDown \union {k} ELSE systemDown \ {k}
      /\ UNCHANGED <<vars, focusVars, todo>>
  BY DEF HookKey, Push, SteadyAssumption
<1>3. StaysInFront
  <2>1. Contains(Posted(TRUE), "unhook") <=>
          \/ Contains(messages, "unhook")
          \/ "unhook" = "refresh" /\ SeenActive # wasActive
          \/ "unhook" = "unhook" /\ ~TRUE
          \/ "unhook" = "routed" /\ TRUE /\ ~gate
    BY <1>1, PostedContains DEF RoutingTypeOK
  <2>2. ~Contains(messages', "unhook")
    BY <1>1, <1>2, <2>1
  <2> QED BY <1>1, <1>2, <2>2 DEF StaysInFront, vars, focusVars
<1>4. \A i \in DOMAIN routed' : routed'[i].target = published
  <2>1. event.target = published /\ routed \in Seq(RoutedEvent)
    BY <1>1 DEF RoutingTypeOK
  <2> HIDE DEF event
  <2>2. \A i \in DOMAIN Append(routed, event) :
          \/ i \in DOMAIN routed /\ Append(routed, event)[i] = routed[i]
          \/ Append(routed, event)[i] = event
    BY <2>1
  <2> QED BY <1>1, <1>2, <2>1, <2>2
<1>5. ASSUME config.mode = "OFF" PROVE table.held \subseteq systemDown'
  <2>1. table.held \subseteq systemDown
    BY <1>1, <1>5 DEF BurstIsNotCut
  <2>2. CASE isDown \/ k \notin table.held
    BY <1>2, <2>1, <2>2
  <2>3. CASE ~isDown /\ k \in table.held
    <3>1. ~eng.suspended
      <4> SUFFICES ASSUME eng.suspended PROVE FALSE
        OBVIOUS
      <4>1. LettingGo /\ eng.out = <<>>
        BY <1>1, <1>2, <1>5 DEF QuietInv, PausedOff, Quiet, OwnerFree, Idle
      <4>2. ~Falls(eng.out, k)
        BY <1>1, <4>1, EmptyBatch
      <4> QED BY <1>1, <2>3, <4>1, <4>2 DEF LettingGo, Mine
    <3>2. HookRoutes /\ HoldsBrake(k)
      BY <1>1, <2>3, <3>1 DEF HookRoutes, SeenActive, HoldsBrake, Mine
    <3> QED BY <1>2, <1>5, <2>1, <2>3, <3>2
  <2> QED BY <2>2, <2>3
<1> QED BY <1>2, <1>3, <1>4, <1>5, SteadyAlone

\* The other steps leave the engine alone; the rest of them cannot be taken.
LEMMA AloneLeaves ==
  ASSUME SteadyAssumption, RInv, SteadyInv,
         \/ \E k \in PlayerKeys : RepeatKey(k) \/ StaleEdge(k) \/ NativeKey(k)
         \/ \E t \in Identity : Focus(t)
         \/ WinEvent \/ Resolve \/ PressF6 \/ ModeRequest \/ InstallHook \/ InstallPoll
         \/ RoutedInputReady \/ RouteMore \/ EndDrain
         \/ LoseFocus \/ RegainFocus \/ KeepFocus \/ EmergencyUnhook
         \/ UNCHANGED allVars
  PROVE  /\ UNCHANGED <<vars, ledger, down, routed, focusVars>>
         /\ todo' \in {"switch", "rebuild"} => todo' = todo
         /\ todo = "rebuild" => todo' = todo
         /\ systemDown \subseteq systemDown'
         /\ \/ messages' = messages
            \/ messages' = Append(messages, "toggle")
            \/ messages' = Append(messages, "routed")
            \/ messages # <<>> /\ messages' = Tail(messages)
<1>1. /\ hooked /\ ledger = down /\ events = <<>> /\ requests = <<>> /\ foreground = published
      /\ todo \notin Installing
      /\ wasActive /\ SeenActive /\ ~Contains(messages, "unhook") /\ messages \in Seq(Messages)
  BY DEF RInv, RoutingTypes, RoutingTypeOK, UnhookInv, SteadyInv, Undisturbed, Posts, SeenActive
<1>2. \/ \E k \in PlayerKeys : RepeatKey(k)
      \/ PressF6 \/ ModeRequest
      \/ RoutedInputReady \/ RouteMore \/ EndDrain \/ KeepFocus
      \/ UNCHANGED allVars
  <2>1. ASSUME NEW k \in PlayerKeys PROVE ~StaleEdge(k) /\ ~NativeKey(k)
    BY <1>1 DEF StaleEdge, NativeKey
  <2>2. ASSUME NEW t \in Identity PROVE ~Focus(t)
    BY <1>1 DEF Focus, SteadyAssumption
  <2>3. ~EmergencyUnhook
    <3> SUFFICES ASSUME EmergencyUnhook PROVE FALSE
      OBVIOUS
    <3>1. messages # <<>> /\ Head(messages) = "unhook"
      BY DEF EmergencyUnhook, NextMessage
    <3> QED BY <1>1, <3>1, ContainsTail
  <2>4. ~InstallHook /\ ~InstallPoll
    BY <1>1 DEF InstallHook, InstallPoll, Installing
  <2> QED BY <1>1, <2>1, <2>2, <2>3, <2>4 DEF WinEvent, Resolve, LoseFocus, RegainFocus
<1>3. ASSUME NEW k \in PlayerKeys, RepeatKey(k)
      PROVE  /\ UNCHANGED <<vars, ledger, down, routed, focusVars, todo, messages>>
             /\ systemDown \subseteq systemDown'
  BY <1>3 DEF RepeatKey
<1>4. CASE PressF6 \/ ModeRequest
  BY <1>4 DEF PressF6, ModeRequest, OwnerFree, hookVars
<1>5. CASE RoutedInputReady \/ RouteMore \/ EndDrain
  BY <1>5 DEF RoutedInputReady, RouteMore, EndDrain, CompleteDrain, NextMessage, OwnerFree, hookVars
<1>6. CASE KeepFocus
  BY <1>6 DEF KeepFocus, NextMessage, hookVars
<1>7. CASE UNCHANGED allVars
  BY <1>7 DEF allVars, hookVars
<1> QED BY <1>2, <1>3, <1>4, <1>5, <1>6, <1>7

\* They keep the invariant.
LEMMA AloneSteady ==
  ASSUME SteadyAssumption, RInv, SteadyInv,
         \/ \E k \in PlayerKeys : RepeatKey(k) \/ StaleEdge(k) \/ NativeKey(k)
         \/ \E t \in Identity : Focus(t)
         \/ WinEvent \/ Resolve \/ PressF6 \/ ModeRequest \/ InstallHook \/ InstallPoll
         \/ RoutedInputReady \/ RouteMore \/ EndDrain
         \/ LoseFocus \/ RegainFocus \/ KeepFocus \/ EmergencyUnhook
         \/ UNCHANGED allVars
  PROVE  SteadyInv'
<1>1. /\ ledger = down /\ events = <<>> /\ foreground = published
      /\ wasActive /\ SeenActive /\ ~Contains(messages, "unhook") /\ messages \in Seq(Messages)
      /\ BurstIsNotCut /\ \A i \in DOMAIN routed : routed[i].target = published
  BY DEF RInv, RoutingTypes, RoutingTypeOK, SteadyInv, Undisturbed, Meant, Posts, SeenActive
<1>2. /\ UNCHANGED <<vars, ledger, down, routed, focusVars>>
      /\ todo' \in {"switch", "rebuild"} => todo' = todo
      /\ systemDown \subseteq systemDown'
      /\ \/ messages' = messages
         \/ messages' = Append(messages, "toggle")
         \/ messages' = Append(messages, "routed")
         \/ messages # <<>> /\ messages' = Tail(messages)
  BY AloneLeaves
<1>3. ~Contains(messages', "unhook")
  <2>1. /\ Contains(Append(messages, "toggle"), "unhook") <=> Contains(messages, "unhook")
        /\ Contains(Append(messages, "routed"), "unhook") <=> Contains(messages, "unhook")
    BY <1>1, ContainsAppend DEF Messages
  <2>2. messages # <<>> /\ Contains(Tail(messages), "unhook") => Contains(messages, "unhook")
    BY <1>1, ContainsTail
  <2> QED BY <1>1, <1>2, <2>1, <2>2
<1>4. StaysInFront
  BY <1>1, <1>2, <1>3 DEF StaysInFront, vars, focusVars
<1>5. config.mode = "OFF" => table.held \subseteq systemDown'
  BY <1>1, <1>2 DEF BurstIsNotCut
<1>6. \A i \in DOMAIN routed' : routed'[i].target = published
  BY <1>1, <1>2
<1> QED BY <1>2, <1>4, <1>5, <1>6, SteadyAlone

\* A batch for the published target is handed over.
Handed(e) ==
  /\ eng'.out = e.out /\ eng'.expect = e.expect /\ eng'.suspended = e.suspended
  /\ Aims(eng', published) /\ (Idle' \/ batchTarget' = published)
  /\ UNCHANGED <<table, config, foreground, published>>

\* SubmitInputBatch hands over a batch for the target that is in front.
LEMMA SubmitHanded ==
  ASSUME NEW e, Typed(e), Aims(e, published), Submit(e, published)
  PROVE  Handed(e)
<1>1. /\ UNCHANGED <<table, config, foreground, published>>
      /\ eng' = IF e.out = <<>> THEN Commit(e, table.held) ELSE e
      /\ batchTarget' = IF e.out = <<>> THEN NoTarget ELSE published
  BY DEF Submit
<1>2. LET r == Commit(e, table.held)
      IN  r.out = e.out /\ r.expect = e.expect /\ r.suspended = e.suspended
            /\ r.expectTarget = e.expectTarget
  BY DEF Commit, Typed, EngineState
<1>3. /\ eng'.out = e.out /\ eng'.expect = e.expect /\ eng'.suspended = e.suspended
      /\ eng'.expectTarget = e.expectTarget
  BY <1>1, <1>2
<1> QED BY <1>1, <1>3 DEF Handed, Aims, Idle

\* What a handed over batch leaves to be shown.
LEMMA HandedSteady ==
  ASSUME SteadyInv, NEW e, Handed(e), StaysInFront, UNCHANGED systemDown,
         \A i \in DOMAIN routed' : routed'[i].target = published,
         todo' = "rebuild" => ~e.suspended,
         (config.mode = "OFF" /\ e.suspended) \/ todo' = "switch" =>
           /\ NoWait(e)
           /\ \A k \in Keys : ~Presses(e.out, k) /\ (k \in table.held => Falls(e.out, k))
  PROVE  SteadyInv'
<1>1. StaysMeant
  BY DEF Handed, StaysMeant, SteadyInv, Meant, Mine
<1>2. QuietInv'
  BY DEF QuietInv, PausedOff, Quiet, LettingGo, NoWait, Handed
<1>3. BurstIsNotCut'
  BY DEF SteadyInv, BurstIsNotCut, Handed
<1> QED BY <1>1, <1>2, <1>3, SteadyKept DEF Handed

\* Between two handlers of a quiet pause nothing is held.
LEMMA QuietHoldsNothing ==
  ASSUME Idle, Quiet, Mine(table), NEW k \in Keys
  PROVE  k \notin table.held
BY EmptyBatch DEF Idle, Quiet, LettingGo, Mine

\* A routed or recorded edge.
LEMMA RouteSteady ==
  ASSUME RInv, SteadyInv, Route
  PROVE  SteadyInv'
<1> DEFINE event == Head(routed)
           k == event.key
           route == event.route /\ Active(event.target)
           stale == event.down /\ k \in eng.phys
<1>1. /\ RoutingTypeOK /\ EngineTyped /\ Typed(eng) /\ Aims(eng, published) /\ published \in Identity
      /\ ledger = down /\ ~Contains(messages, "unhook") /\ Mine(table) /\ QuietInv
      /\ todo = "rebuild" => ~eng.suspended
      /\ \A i \in DOMAIN routed : routed[i].target = published
  BY DEF RInv, RoutingTypes, EngineTyped, SteadyInv, Undisturbed, Meant, Posts
<1>2. PICK refused \in TimerRefusals, travel \in Keys \union {NoKey} :
        /\ routed # <<>> /\ travel \in AxisOf(k) \union {NoKey}
        /\ RouteNext(refused, travel)
  BY DEF Route
<1>3. /\ routed' = Tail(routed) /\ Idle /\ todo # "switch" /\ todo' # "switch"
      /\ todo' = "rebuild" => todo = "rebuild"
      /\ UNCHANGED <<down, systemDown, ledger, swallowed, gate, messages, focusVars>>
      /\ IF stale THEN UNCHANGED vars
         ELSE IF event.down THEN KeyDown(k, route, event.target, refused)
              ELSE KeyUp(k, route, event.target, travel, refused)
  BY <1>2 DEF RouteNext, RInv, WokenInv
<1>4. event \in RoutedEvent /\ event.target = published /\ \A i \in DOMAIN routed' : routed'[i].target = published
  <2>1. routed \in Seq(RoutedEvent) /\ routed # <<>>
    BY <1>1, <1>2 DEF RoutingTypeOK
  <2>2. 1 \in DOMAIN routed /\ event = routed[1] /\ event \in RoutedEvent
        /\ \A i \in DOMAIN Tail(routed) : i + 1 \in DOMAIN routed /\ Tail(routed)[i] = routed[i + 1]
    BY <2>1
  <2> QED BY <1>1, <1>3, <2>2
<1>5. k \in Keys /\ event.down \in BOOLEAN /\ route \in BOOLEAN
  BY <1>4 DEF RoutedEvent, Active
<1> HIDE DEF event, route
<1>6. CASE stale
  <2>1. UNCHANGED vars
    BY <1>3, <1>6
  <2>2. StaysInFront
    BY <1>1, <1>3, <2>1 DEF StaysInFront, vars, focusVars
  <2>3. config.mode = "OFF" => table.held \subseteq systemDown'
    BY <1>3 DEF SteadyInv, BurstIsNotCut
  <2> QED BY <1>3, <1>4, <2>1, <2>2, <2>3, SteadyAlone
<1>7. ASSUME ~stale
      PROVE  SteadyInv'
  <2> DEFINE c == Situation(published, IF event.down THEN NoKey ELSE travel, refused)
             e == IF event.down THEN HandleKeyDown(eng, k, route, c)
                                ELSE HandleKeyUp(eng, k, route, c)
  <2>1. /\ c.target = published /\ c.held = table.held /\ c.held \subseteq Slots
        /\ c.mode = config.mode
        /\ ~event.down => c.travel = travel
    BY <1>1, EngineTypedTypes DEF Situation
  <2>2. IF event.down /\ ~route
        THEN eng' = e /\ UNCHANGED <<table, batchTarget, config, foreground, published>>
        ELSE Submit(e, published)
    BY <1>3, <1>4, <1>7 DEF KeyDown, KeyUp
  <2> HIDE DEF c
  <2>3. Typed(e) /\ e.suspended = eng.suspended /\ Aims(e, published)
    <3> DEFINE d == HandleKeyDown(eng, k, route, c)
               u == HandleKeyUp(eng, k, route, c)
    <3>1. CASE event.down
      <4>1. k \notin eng.phys
        BY <1>7, <3>1
      <4>2. Typed(d) /\ d.suspended = eng.suspended /\ Aims(d, published)
        BY <1>1, <1>5, <2>1, <4>1, HandleKeyDownTyped
      <4> QED BY <3>1, <4>2
    <3>2. CASE ~event.down
      <4>1. c.travel \in AxisOf(k) \union {NoKey}
        BY <1>2, <2>1, <3>2
      <4>2. Typed(u) /\ u.suspended = eng.suspended /\ Aims(u, published)
        BY <1>1, <1>5, <2>1, <4>1, HandleKeyUpTyped
      <4> QED BY <3>2, <4>2
    <3> QED BY <3>1, <3>2
  <2>4. ASSUME config.mode = "OFF", eng.suspended
        PROVE  /\ NoWait(e)
               /\ \A j \in Keys : ~Presses(e.out, j) /\ j \notin table.held
    <3>1. Stills(eng, e)
      BY <1>1, <1>5, <1>7, <2>1, <2>4, KeyDownStill, KeyUpStill
    <3>2. Quiet /\ \A j \in Keys : ~Presses(eng.out, j)
      BY <1>1, <2>4 DEF QuietInv, PausedOff, Quiet, LettingGo
    <3>3. \A j \in Keys : j \notin table.held
      BY <1>1, <1>3, <3>2, QuietHoldsNothing
    <3> QED BY <3>1, <3>2, <3>3 DEF Stills, Quiet
  <2>5. event.down /\ ~route => e.out = eng.out
    <3>1. ASSUME event.down, ~route PROVE e = Recorded(eng, k, c)
      <4>1. k \notin eng.phys
        BY <1>7, <3>1
      <4> QED BY <3>1, <4>1 DEF HandleKeyDown, Recorded
    <3>2. ASSUME event.down, ~route PROVE Recorded(eng, k, c).out = eng.out
      <4> DEFINE p == [eng EXCEPT !.phys = @ \union {k}, !.last[AxisOf(k)] = k]
                 s == IF MacroBrakePending(p, k) THEN p ELSE StopExpecting(p, k)
      <4>1. p \in EngineState /\ p.out = eng.out
        BY <1>1, <1>5 DEF Typed, EngineState
      <4> HIDE DEF p
      <4>2. s \in EngineState /\ s.out = eng.out
        BY <1>5, <4>1, StopFields
      <4>3. Recorded(eng, k, c) = TrackIfOff(s, c)
        BY DEF Recorded, p
      <4> HIDE DEF s
      <4> QED BY <2>1, <4>2, <4>3, TrackFields
    <3> QED BY <3>1, <3>2
  <2> HIDE DEF e
  <2>6. Handed(e)
    <3>1. CASE event.down /\ ~route
      BY <1>3, <2>2, <2>3, <2>5, <3>1 DEF Handed, Idle
    <3>2. CASE ~(event.down /\ ~route)
      BY <2>2, <2>3, <3>2, SubmitHanded
    <3> QED BY <3>1, <3>2
  <2>7. StaysInFront
    BY <1>1, <1>3, <2>6 DEF StaysInFront, Handed, focusVars
  <2> QED BY <1>1, <1>3, <1>4, <2>3, <2>4, <2>6, <2>7, HandedSteady
<1> QED BY <1>6, <1>7

\* A pause and a resume.
LEMMA ToggleSteady ==
  ASSUME RInv, SteadyInv, OwnerFree, NEW posted, ToggleEngine(posted),
         ~Contains(posted, "unhook")
  PROVE  SteadyInv'
<1>1. /\ RoutingTypeOK /\ EngineTyped /\ Typed(eng) /\ Aims(eng, published) /\ published \in Identity
      /\ ledger = down /\ hooked /\ Mine(table) /\ Idle /\ eng.out = <<>> /\ todo = "none"
      /\ eng \in EngineState
      /\ \A i \in DOMAIN routed : routed[i].target = published
  BY DEF RInv, RoutingTypes, EngineTyped, Typed, SteadyInv, Undisturbed, Meant, OwnerFree, Idle
<1>2. CASE ~eng.suspended
  <2> DEFINE p == [eng EXCEPT !.suspended = TRUE]
             e == Suspend(eng)
  <2>1. Submit(e, published) /\ messages' = posted /\ UNCHANGED <<hookVars, focusVars, todo>>
    BY <1>2 DEF ToggleEngine
  <2>2. Typed(p) /\ p.out = <<>> /\ p.logical = eng.logical /\ p \in EngineState /\ p.suspended
    BY <1>1 DEF Typed, EngineState, LastIsOfAxis
  <2>3. e = LetGoOfAll(p)
    BY DEF Suspend
  <2> HIDE DEF p, e
  <2>4. /\ Typed(e) /\ NoWait(e) /\ e.suspended
        /\ \A k \in Keys : (Falls(e.out, k) <=> k \in eng.logical) /\ ~Presses(e.out, k)
    <3>1. Alike(p, e, published)
      BY <1>1, <2>2, <2>3, LetGoOfAllAlike
    <3>2. Typed(e)
      BY <2>2, <3>1, AlikeTyped
    <3>3. \A k \in Keys : (Falls(e.out, k) <=> k \in p.logical) /\ ~Presses(e.out, k)
      BY <1>1, <2>2, <2>3, LetGoOfAllAlike
    <3>4. NoWait(e) /\ e.suspended
      BY <2>2, <2>3, LetGoFields DEF NoWait
    <3> QED BY <2>2, <3>2, <3>3, <3>4
  <2>5. \A k \in Keys : k \in table.held => Falls(e.out, k)
    BY <1>1, <2>4 DEF EngineTyped
  <2>6. Handed(e)
    <3>1. Aims(e, published)
      BY <2>4 DEF Aims, NoWait
    <3> QED BY <2>1, <2>4, <3>1, SubmitHanded
  <2>7. StaysInFront
    BY <1>1, <2>1, <2>6 DEF StaysInFront, Handed, hookVars, focusVars
  <2> QED BY <1>1, <2>1, <2>4, <2>5, <2>6, <2>7, HandedSteady DEF hookVars
<1>3. CASE eng.suspended
  <2>1. /\ eng' = Commit(Resume(eng), table.held) /\ todo' = "rebuild"
        /\ UNCHANGED <<table, batchTarget, config, foreground, published, down,
                       systemDown, ledger, swallowed, requests, events, hooked, timers>>
        /\ messages' = posted /\ UNCHANGED <<routed, gate, seen, wasActive>>
    BY <1>1, <1>3 DEF ToggleEngine, Reinstall
  <2>2. /\ eng'.out = eng.out /\ eng'.expect = eng.expect /\ eng'.suspended = FALSE
        /\ eng'.expectTarget = eng.expectTarget
    BY <1>1, <2>1 DEF Commit, Resume, EngineState
  <2>3. StaysInFront
    BY <1>1, <2>1 DEF StaysInFront
  <2>4. StaysMeant
    BY <1>1, <2>1, <2>2 DEF StaysMeant, Mine, Aims, Idle
  <2>5. QuietInv' /\ BurstIsNotCut'
    BY <2>1, <2>2 DEF QuietInv, PausedOff, SteadyInv, BurstIsNotCut
  <2> QED BY <2>2, <2>3, <2>4, <2>5, SteadyKept
<1> QED BY <1>2, <1>3

\* The rebuild after a resume.
LEMMA RebuildSteady ==
  ASSUME RInv, SteadyInv, Rebuild
  PROVE  SteadyInv'
<1> DEFINE c == Situation(published, NoKey, {})
           e == RebuildState(eng, ledger, c)
<1>1. /\ RoutingTypeOK /\ EngineTyped /\ Typed(eng) /\ Aims(eng, published) /\ published \in Identity
      /\ ledger = down /\ ~Contains(messages, "unhook") /\ ledger \in SUBSET Keys
      /\ todo = "rebuild" => ~eng.suspended
      /\ \A i \in DOMAIN routed : routed[i].target = published
  BY DEF RInv, RoutingTypes, RoutingTypeOK, EngineTyped, SteadyInv, Undisturbed, Meant, Posts
<1>2. /\ todo = "rebuild" /\ Submit(e, published) /\ todo' = "none"
      /\ UNCHANGED <<down, systemDown, ledger, swallowed, routed, messages, focusVars>>
  BY DEF Rebuild
<1>3. Typed(e) /\ e.suspended = eng.suspended /\ Aims(e, published)
  <2> HIDE DEF c
  <2> QED BY <1>1, RebuildTyped
<1> HIDE DEF e
<1>4. Handed(e)
  BY <1>2, <1>3, SubmitHanded
<1>5. StaysInFront
  BY <1>1, <1>2, <1>4 DEF StaysInFront, Handed, focusVars
<1> QED BY <1>1, <1>2, <1>3, <1>4, <1>5, HandedSteady

\* The change of the mode.
LEMMA ModeSteady ==
  ASSUME RInv, SteadyInv, PrepareModeChange \/ \E mode \in ModesAllowed : SwitchMode(mode)
  PROVE  SteadyInv'
<1>1. /\ RoutingTypeOK /\ EngineTyped /\ Typed(eng) /\ Aims(eng, published) /\ published \in Identity
      /\ ledger = down /\ ~Contains(messages, "unhook") /\ Mine(table) /\ QuietInv
      /\ eng \in EngineState /\ table.held \subseteq Keys
      /\ \A i \in DOMAIN routed : routed[i].target = published
  BY DEF RInv, RoutingTypes, EngineTyped, Typed, SteadyInv, Undisturbed, Meant, Posts
<1>2. CASE PrepareModeChange /\ UNCHANGED vars /\ todo' = "none"
  <2>1. UNCHANGED <<down, systemDown, ledger, swallowed, routed, messages, focusVars>>
    BY <1>2 DEF PrepareModeChange
  <2>2. StaysInFront
    BY <1>1, <1>2, <2>1 DEF StaysInFront, vars, focusVars
  <2> QED BY <1>1, <1>2, <2>1, <2>2, SteadyAlone DEF SteadyInv, BurstIsNotCut
<1>3. CASE PrepareModeChange /\ ClearHeldKeys(published) /\ todo' = "switch"
  <2> DEFINE e == LetGoOfAll(eng)
  <2>1. /\ Submit(e, published) /\ eng.out = <<>>
        /\ UNCHANGED <<down, systemDown, ledger, swallowed, routed, messages, focusVars>>
    BY <1>3 DEF PrepareModeChange, ClearHeldKeys, Idle
  <2>2. /\ Typed(e) /\ NoWait(e)
        /\ \A k \in Keys : (Falls(e.out, k) <=> k \in eng.logical) /\ ~Presses(e.out, k)
    <3>1. Alike(eng, e, published)
      BY <1>1, <2>1, LetGoOfAllAlike
    <3>2. Typed(e)
      BY <1>1, <3>1, AlikeTyped
    <3>3. \A k \in Keys : (Falls(e.out, k) <=> k \in eng.logical) /\ ~Presses(e.out, k)
      BY <1>1, <2>1, LetGoOfAllAlike
    <3>4. NoWait(e)
      BY <1>1, <2>1, LetGoFields DEF NoWait
    <3> QED BY <3>2, <3>3, <3>4
  <2> HIDE DEF e
  <2>3. \A k \in Keys : k \in table.held => Falls(e.out, k)
    BY <1>1, <2>1, <2>2 DEF EngineTyped, Idle
  <2>4. Handed(e)
    <3>1. Aims(e, published)
      BY <2>2 DEF Aims, NoWait
    <3> QED BY <2>1, <2>2, <3>1, SubmitHanded
  <2>5. StaysInFront
    BY <1>1, <2>1, <2>4 DEF StaysInFront, Handed, focusVars
  <2> QED BY <1>1, <1>3, <2>1, <2>2, <2>3, <2>4, <2>5, HandedSteady
<1>4. ASSUME NEW mode \in ModesAllowed, SwitchMode(mode)
      PROVE  SteadyInv'
  <2>1. /\ todo = "switch" /\ todo' = "none"
        /\ \/ table.held \intersect Keys = {}
           \/ config' = config
        /\ UNCHANGED <<eng, table, batchTarget, foreground, published, down, systemDown,
                       ledger, routed, gate, messages, focusVars>>
    BY <1>4 DEF SwitchMode
  <2>2. StaysInFront
    BY <1>1, <2>1 DEF StaysInFront, focusVars
  <2>3. StaysMeant
    BY <2>1 DEF StaysMeant, SteadyInv, Meant, Mine, Idle
  <2>4. QuietInv'
    BY <1>1, <2>1 DEF QuietInv, Quiet, LettingGo
  <2>5. BurstIsNotCut'
    BY <1>1, <2>1 DEF SteadyInv, BurstIsNotCut
  <2> QED BY <2>1, <2>2, <2>3, <2>4, <2>5, SteadyKept
<1> QED BY <1>2, <1>3, <1>4 DEF PrepareModeChange

\* An event of the batch is sent.
LEMMA SendSteady ==
  ASSUME SteadyAssumption, RInv, SteadyInv, NEW ok \in Outcomes, SendOne(ok)
  PROVE  SteadyInv'
<1>1. /\ RoutingTypeOK /\ EngineTyped /\ ok = TRUE /\ ~Idle /\ eng \in EngineState
      /\ Undisturbed /\ Meant /\ QuietInv /\ batchTarget = published /\ Aims(eng, published)
  BY DEF RInv, RoutingTypes, EngineTyped, Typed, SteadyInv, Meant, SteadyAssumption, Outcomes,
         SendOne, FlushOne
<1> DEFINE after == SlotsAfter(TRUE)
           rest == [eng EXCEPT !.out = Tail(@)]
<1>2. /\ table' = after
      /\ eng' = IF rest.out = <<>> THEN Commit(rest, after.held) ELSE rest
      /\ batchTarget' = IF rest.out = <<>> THEN NoTarget ELSE batchTarget
      /\ UNCHANGED <<config, foreground, published>> /\ Elsewhere
      /\ systemDown' = (systemDown \ (table.held \ table'.held)) \union (table'.held \ table.held)
      /\ FlushOne(TRUE)
  BY <1>1 DEF SendOne, FlushOne, SlotsAfter, Injected
<1>3. Mine(after)
  BY <1>1, SentMine
<1> HIDE DEF after
<1>4. /\ eng'.out = rest.out /\ eng'.expect = eng.expect /\ eng'.expectTarget = eng.expectTarget
      /\ eng'.suspended = eng.suspended
  BY <1>1, <1>2 DEF Commit, EngineState
<1> HIDE DEF rest
<1>5. StaysInFront
  BY <1>1, <1>2 DEF StaysInFront, Undisturbed, Posts, Elsewhere, focusVars
<1>6. StaysMeant
  BY <1>1, <1>2, <1>3, <1>4 DEF StaysMeant, Meant, Aims, Idle, Elsewhere, Mine
<1>7. QuietInv'
  <2>1. LettingGo => LettingGo'
    BY <1>1, <1>2, FlushRan
  <2> QED BY <1>1, <1>2, <1>4, <2>1 DEF QuietInv, PausedOff, Quiet, NoWait, Elsewhere
<1>8. BurstIsNotCut'
  BY <1>2 DEF SteadyInv, BurstIsNotCut
<1>9. todo' = "rebuild" => ~eng'.suspended
  BY <1>1, <1>2, <1>4 DEF Undisturbed, Elsewhere
<1> QED BY <1>5, <1>6, <1>7, <1>8, <1>9, SteadyKept

\* Timers expire; a pause in OFF ignores them.
LEMMA TimerSteady ==
  ASSUME RInv, SteadyInv, (\E k \in Keys : FireTimer(k)) \/ DrainExpired \/ PumpReleases
  PROVE  SteadyInv'
<1>1. /\ RoutingTypeOK /\ EngineTyped /\ Typed(eng) /\ Aims(eng, published) /\ published \in Identity
      /\ ledger = down /\ ~Contains(messages, "unhook") /\ Mine(table) /\ QuietInv
      /\ eng \in EngineState
      /\ \A i \in DOMAIN routed : routed[i].target = published
  BY DEF RInv, RoutingTypes, EngineTyped, Typed, SteadyInv, Undisturbed, Meant, Posts
<1>2. ASSUME NEW k \in Keys, FireTimer(k)
      PROVE  SteadyInv'
  <2>1. /\ eng' = [eng EXCEPT !.armed[k] = NoTimer, !.expired = Append(@, <<k, eng.armed[k]>>)]
        /\ UNCHANGED <<table, batchTarget, config, foreground, published, systemDown>> /\ Elsewhere
    BY <1>2 DEF FireTimer, TimerFire
  <2>2. /\ eng'.out = eng.out /\ eng'.expect = eng.expect /\ eng'.expectTarget = eng.expectTarget
        /\ eng'.suspended = eng.suspended
    BY <1>1, <2>1 DEF EngineState
  <2>3. StaysInFront
    BY <1>1, <2>1 DEF StaysInFront, Elsewhere, focusVars
  <2>4. StaysMeant
    BY <2>1, <2>2 DEF StaysMeant, SteadyInv, Meant, Aims, Idle, Elsewhere, Mine
  <2>5. QuietInv' /\ BurstIsNotCut' /\ (todo' = "rebuild" => ~eng'.suspended)
    BY <2>1, <2>2 DEF QuietInv, PausedOff, Quiet, LettingGo, NoWait, SteadyInv, BurstIsNotCut,
                      Elsewhere, Undisturbed
  <2> QED BY <2>3, <2>4, <2>5, SteadyKept
<1>3. CASE DrainExpired
  <2> DEFINE k  == Head(eng.expired)[1]
             id == Head(eng.expired)[2]
             t  == eng.expectTarget[k]
             c  == Situation(t, NoKey, {})
             e  == Rest(eng)
             r  == OnTimerExpired(e, k, id, c)
  <2>1. /\ Idle /\ eng.expired # <<>> /\ todo = "none"
        /\ IF IsExpected(eng, k, id) THEN Submit(r, t)
           ELSE /\ eng' = e
                /\ UNCHANGED <<table, batchTarget, config, foreground, published>>
        /\ UNCHANGED systemDown /\ Elsewhere
    BY <1>3 DEF DrainExpired, DrainTimer, Rest
  <2>2. Head(eng.expired) \in Keys \X TimerIds
    BY <1>1, <2>1, HeadTailProperties DEF EngineState
  <2>3. k \in Keys /\ id \in TimerIds /\ id # NoTimer
    BY <2>2, TimerAssumption
  <2> HIDE DEF k, id, c
  <2>4. /\ Typed(e) /\ e.out = eng.out /\ e.expect = eng.expect /\ e.suspended = eng.suspended
        /\ e.expectTarget = eng.expectTarget
    <3> DEFINE q == Tail(eng.expired)
    <3>1. q \in Seq(Keys \X TimerIds) /\ Len(q) <= MaxExpired
      <4>1. eng.expired \in Seq(Keys \X TimerIds) /\ Len(eng.expired) <= MaxExpired
        BY <1>1 DEF Typed, EngineState
      <4> QED BY <2>1, <4>1, EngineAssumption
    <3>2. e = [eng EXCEPT !.expired = q]
      BY DEF Rest
    <3> HIDE DEF q, e
    <3> QED BY <1>1, <3>1, <3>2 DEF Typed, EngineState, LastIsOfAxis
  <2> HIDE DEF e
  <2>5. CASE IsExpected(eng, k, id)
    <3>1. t = published
      BY <1>1, <2>3, <2>5 DEF IsExpected, Aims
    <3>2. Alike(e, r, published) /\ Typed(r)
      BY <1>1, <2>3, <2>4, OnTimerExpiredAlike, AlikeTyped
    <3> HIDE DEF r
    <3>3. Aims(r, published) /\ r.suspended = eng.suspended
      BY <1>1, <2>4, <3>2 DEF Alike, Aims
    <3>4. Handed(r)
      BY <2>1, <2>5, <3>1, <3>2, <3>3, SubmitHanded
    <3>5. ~(config.mode = "OFF" /\ eng.suspended)
      BY <1>1, <2>3, <2>5 DEF QuietInv, PausedOff, Quiet, NoWait, IsExpected
    <3>6. StaysInFront
      BY <1>1, <2>1, <3>4 DEF StaysInFront, Handed, Elsewhere, focusVars
    <3> QED BY <1>1, <2>1, <3>3, <3>4, <3>5, <3>6, HandedSteady DEF Elsewhere
  <2>6. CASE ~IsExpected(eng, k, id)
    <3>1. Handed(e)
      BY <1>1, <2>1, <2>4, <2>6 DEF Handed, Aims, Idle
    <3>2. StaysInFront
      BY <1>1, <2>1, <3>1 DEF StaysInFront, Handed, Elsewhere, focusVars
    <3>3. config.mode = "OFF" /\ eng.suspended =>
            /\ NoWait(e)
            /\ \A j \in Keys : ~Presses(e.out, j) /\ (j \in table.held => Falls(e.out, j))
      BY <1>1, <2>4 DEF QuietInv, PausedOff, Quiet, LettingGo, NoWait, Mine
    <3> QED BY <1>1, <2>1, <2>4, <3>1, <3>2, <3>3, HandedSteady DEF Elsewhere
  <2> QED BY <2>5, <2>6
<1>4. ~PumpReleases
  BY <1>1 DEF PumpReleases, PumpSomething, Pump, Mine
<1> QED BY <1>2, <1>3, <1>4

\* The invariant holds of the start.
LEMMA SteadyInit ==
  RoutingInit => SteadyInv
<1> SUFFICES ASSUME RoutingInit PROVE SteadyInv
  OBVIOUS
<1>1. /\ eng = InitialEngine(Favourite) /\ table = EmptyTable
      /\ foreground \in Targets /\ published = foreground
      /\ down = {} /\ ledger = {} /\ routed = <<>> /\ messages = <<>>
      /\ seen = foreground /\ requests = <<>> /\ wasActive = TRUE /\ events = <<>>
      /\ hooked = TRUE /\ todo = "none"
  BY DEF RoutingInit, Init
<1>2. table.held = {} /\ table.pending = {}
  BY <1>1 DEF EmptyTable
<1>3. eng.out = <<>> /\ ~eng.suspended /\ \A k \in Keys : eng.expect[k] = NoTimer
  BY <1>1 DEF InitialEngine
<1>4. Undisturbed
  BY <1>1 DEF Undisturbed, Posts, Contains
<1>5. Meant
  BY <1>1, <1>2, <1>3 DEF Meant, Mine, Aims, Idle
<1> QED BY <1>1, <1>2, <1>3, <1>4, <1>5 DEF SteadyInv, QuietInv, PausedOff, BurstIsNotCut

\* Every step of the specification keeps it.
LEMMA SteadyStep ==
  ASSUME SteadyAssumption
  PROVE  RInv /\ SteadyInv /\ [RoutingNext]_allVars => SteadyInv'
<1> SUFFICES ASSUME RInv, SteadyInv, [RoutingNext]_allVars PROVE SteadyInv'
  OBVIOUS
<1>1. ASSUME NEW k \in PlayerKeys, HookKey(k) PROVE SteadyInv'
  BY <1>1, HookKeySteady
<1>2. CASE \/ \E k \in PlayerKeys : RepeatKey(k) \/ StaleEdge(k) \/ NativeKey(k)
           \/ \E t \in Identity : Focus(t)
           \/ WinEvent \/ Resolve \/ PressF6 \/ ModeRequest \/ InstallHook \/ InstallPoll
           \/ RoutedInputReady \/ RouteMore \/ EndDrain
           \/ LoseFocus \/ RegainFocus \/ KeepFocus \/ EmergencyUnhook
           \/ UNCHANGED allVars
  BY <1>2, AloneSteady
<1>3. CASE ToggleSuspendSent \/ ToggleSuspendPosted
  <2>1. ~Contains(messages, "unhook") /\ messages \in Seq(Messages)
    BY DEF SteadyInv, Undisturbed, Posts, RInv, RoutingTypes, RoutingTypeOK
  <2>2. messages # <<>> => ~Contains(Tail(messages), "unhook")
    BY <2>1, ContainsTail
  <2> QED BY <1>3, <2>1, <2>2, ToggleSteady DEF ToggleSuspendSent, ToggleSuspendPosted
<1>4. CASE Route
  BY <1>4, RouteSteady
<1>5. CASE Rebuild
  BY <1>5, RebuildSteady
<1>6. CASE PrepareModeChange \/ \E mode \in ModesAllowed : SwitchMode(mode)
  BY <1>6, ModeSteady
<1>7. ASSUME NEW ok \in Outcomes, SendOne(ok) PROVE SteadyInv'
  BY <1>7, SendSteady
<1>8. CASE (\E k \in Keys : FireTimer(k)) \/ DrainExpired \/ PumpReleases
  BY <1>8, TimerSteady
<1> QED BY <1>1, <1>2, <1>3, <1>4, <1>5, <1>6, <1>7, <1>8 DEF RoutingNext, OwnerStep

(* README.md:17: in OFF a native release of a key cannot cut a brake short *)
(* that the engine holds on the same key, as long as the target stays in   *)
(* front and no event is refused or lost.                                  *)
THEOREM RoutingBurstIsNotCut ==
  ASSUME SteadyAssumption
  PROVE  RoutingSpec => []BurstIsNotCut
<1>1. RoutingInit => SteadyInv
  BY SteadyInit
<1>2. RInv /\ SteadyInv /\ [RoutingNext]_allVars => SteadyInv'
  BY SteadyStep
<1>3. SteadyInv => BurstIsNotCut
  BY DEF SteadyInv
<1> QED BY <1>1, <1>2, <1>3, RoutingInvariant, PTL DEF RoutingSpec

-----------------------------------------------------------------------------
(***************************************************************************)
(* While the target stays in front: newest key wins.  Outside OFF what     *)
(* will be held once the batch is sent is the logical state, whatever      *)
(* the batch is; and the logical state follows the physical keys of each   *)
(* axis, newest first.                                                     *)
(***************************************************************************)
\* What the boundary holds once the rest of the batch is sent.
Carried(e, held) == e.logical = Applied(held, e.out)

\* A batch that answers for the logical state still does.
Follows(e, r) == \A held \in SUBSET Keys : Carried(e, held) => Carried(r, held)

\* A press or a release added to the batch.
WithPress(q, k) == Append(q, Event(k, TRUE))
WithRelease(q, k) == Append(q, Event(k, FALSE))

\* Either decides about its own key.
LEMMA AppliedEvent ==
  ASSUME NEW held \in SUBSET Keys, NEW q \in Seq(EventSet), NEW k \in Keys, NEW d \in BOOLEAN
  PROVE  Applied(held, Append(q, Event(k, d))) =
           IF d THEN Applied(held, q) \union {k} ELSE Applied(held, q) \ {k}
<1> DEFINE x == Event(k, d)
<1>1. /\ \A y \in EventSet : y.key \in Keys /\ y.down \in BOOLEAN
      /\ x \in EventSet /\ x.key = k /\ x.down = d
  BY DEF EventSet, Event
<1> HIDE DEF x
<1>2. Applied(held, Append(q, x)) =
        IF x.down THEN Applied(held, q) \union {x.key} ELSE Applied(held, q) \ {x.key}
  BY <1>1, AppendApplied
<1> QED BY <1>1, <1>2 DEF x

LEMMA AppliedPress ==
  ASSUME NEW held \in SUBSET Keys, NEW q \in Seq(EventSet), NEW k \in Keys
  PROVE  Applied(held, WithPress(q, k)) = Applied(held, q) \union {k}
<1> DEFINE d == TRUE
<1>1. d \in BOOLEAN
  OBVIOUS
<1> HIDE DEF d
<1>2. Applied(held, Append(q, Event(k, d))) =
        IF d THEN Applied(held, q) \union {k} ELSE Applied(held, q) \ {k}
  BY <1>1, AppliedEvent
<1> QED BY <1>2 DEF d, WithPress

LEMMA AppliedRelease ==
  ASSUME NEW held \in SUBSET Keys, NEW q \in Seq(EventSet), NEW k \in Keys
  PROVE  Applied(held, WithRelease(q, k)) = Applied(held, q) \ {k}
<1> DEFINE d == FALSE
<1>1. d \in BOOLEAN
  OBVIOUS
<1> HIDE DEF d
<1>2. Applied(held, Append(q, Event(k, d))) =
        IF d THEN Applied(held, q) \union {k} ELSE Applied(held, q) \ {k}
  BY <1>1, AppliedEvent
<1> QED BY <1>2 DEF d, WithRelease

\* A batch with one event per key at most: what it presses will be held, and
\* what it does not release.
LEMMA AppliedOnce ==
  ASSUME NEW held \in SUBSET Keys, NEW q \in Seq(EventSet),
         \A i, j \in DOMAIN q : q[i].key = q[j].key => i = j
  PROVE  Applied(held, q) = {k \in Keys : Presses(q, k) \/ (k \in held /\ ~Falls(q, k))}
<1>1. \A i \in DOMAIN q : q[i] \in EventSet
  OBVIOUS
<1>2. \A i \in DOMAIN q : q[i].down \in BOOLEAN /\ q[i] = Event(q[i].key, q[i].down)
  BY <1>1 DEF EventSet, Event
<1>3. \A i, j \in DOMAIN q : j > i => i # j
  OBVIOUS
<1>4. ASSUME NEW k \in Keys
      PROVE  /\ LastEdgeIsDown(k, q) <=> Presses(q, k)
             /\ (\A i \in DOMAIN q : q[i].key # k) <=> ~Presses(q, k) /\ ~Falls(q, k)
  <2>1. \A d : Event(k, d).key = k /\ Event(k, d).down = d
    BY DEF Event
  <2>2. LastEdgeIsDown(k, q) <=> Presses(q, k)
    <3>1. ASSUME LastEdgeIsDown(k, q) PROVE Presses(q, k)
      <4>1. PICK i \in DOMAIN q : q[i].key = k /\ q[i].down
        BY <3>1 DEF LastEdgeIsDown
      <4>2. q[i] = Event(k, TRUE)
        BY <1>2, <4>1
      <4> QED BY <4>2 DEF Presses
    <3>2. ASSUME Presses(q, k) PROVE LastEdgeIsDown(k, q)
      <4>1. PICK i \in DOMAIN q : q[i] = Event(k, TRUE)
        BY <3>2 DEF Presses
      <4>2. \A j \in DOMAIN q : j > i => q[j].key # k
        BY <1>3, <2>1, <4>1
      <4> QED BY <2>1, <4>1, <4>2 DEF LastEdgeIsDown
    <3> QED BY <3>1, <3>2
  <2>3. (\A i \in DOMAIN q : q[i].key # k) <=> ~Presses(q, k) /\ ~Falls(q, k)
    BY <1>2, <2>1 DEF Falls, Presses
  <2> QED BY <2>2, <2>3
<1>5. \A k \in Keys : Presses(q, k) => ~Falls(q, k)
  <2> SUFFICES ASSUME NEW k \in Keys, Presses(q, k), Falls(q, k) PROVE FALSE
    OBVIOUS
  <2>1. PICK i \in DOMAIN q : q[i] = Event(k, TRUE)
    BY DEF Presses
  <2>2. PICK j \in DOMAIN q : q[j] = Event(k, FALSE)
    BY DEF Falls
  <2> QED BY <2>1, <2>2 DEF Event
<1> QED BY <1>4, <1>5 DEF Applied

\* Events has one event per key.
LEMMA EventsOnce ==
  ASSUME NEW S \in SUBSET Keys, NEW d \in BOOLEAN
  PROVE  LET q == Events(S, d)
         IN  /\ \A i \in DOMAIN q : q[i].key \in S
             /\ \A i, j \in DOMAIN q : q[i].key = q[j].key => i = j
<1> DEFINE n == Cardinality(S)
           q == SetToSeq(S)
<1>1. IsFiniteSet(S) /\ n \in Nat /\ ExistsBijection(1..n, S)
  BY KeysAssumption, FS_Subset, FS_CardinalityType
<1>2. \E f \in [1..n -> S] : IsInjective(f)
  BY <1>1 DEF ExistsBijection, Bijection, Injection
<1>3. q \in [1..n -> S] /\ IsInjective(q)
  BY <1>2 DEF SetToSeq
<1> HIDE DEF q
<1>4. Events(S, d) = [i \in 1..n |-> Event(q[i], d)]
  BY <1>3 DEF Events, q
<1> HIDE DEF n
<1>5. \A i, j \in 1..n : q[i] = q[j] => i = j
  BY <1>3 DEF IsInjective
<1> QED BY <1>3, <1>4, <1>5 DEF Event

\* First the releases, then the presses of other keys.
LEMMA EventsApplied ==
  ASSUME NEW held \in SUBSET Keys, NEW S \in SUBSET Keys, NEW T \in SUBSET Keys, S \intersect T = {}
  PROVE  Applied(held, Events(S, FALSE) \o Events(T, TRUE)) = (held \ S) \union T
<1> DEFINE p == Events(S, FALSE)
           q == Events(T, TRUE)
           r == p \o q
           m == Len(p)
<1>1. /\ p \in Seq(EventSet) /\ q \in Seq(EventSet)
      /\ \A x \in Keys : /\ Falls(p, x) <=> x \in S
                         /\ ~Presses(p, x) /\ ~Falls(q, x)
                         /\ Presses(q, x) <=> x \in T
  BY EventsBatch
<1>2. /\ \A i \in DOMAIN p : p[i].key \in S
      /\ \A i \in DOMAIN q : q[i].key \in T
      /\ \A i, j \in DOMAIN p : p[i].key = p[j].key => i = j
      /\ \A i, j \in DOMAIN q : q[i].key = q[j].key => i = j
  BY EventsOnce
<1> HIDE DEF p, q
<1>3. /\ r \in Seq(EventSet) /\ m \in Nat /\ Len(q) \in Nat
      /\ DOMAIN p = 1..m /\ DOMAIN q = 1..Len(q) /\ DOMAIN r = 1..(m + Len(q))
      /\ \A i \in 1..m : r[i] = p[i]
      /\ \A i \in 1..Len(q) : r[m + i] = q[i]
  BY <1>1, ConcatProperties
<1>4. \A x \in Keys : /\ Falls(r, x) <=> x \in S
                      /\ Presses(r, x) <=> x \in T
  BY <1>1, ConcatBatch
<1> HIDE DEF r, m
<1>5. \A i \in DOMAIN r : \/ i \in DOMAIN p /\ r[i] = p[i]
                          \/ i - m \in DOMAIN q /\ r[i] = q[i - m]
  <2> SUFFICES ASSUME NEW i \in DOMAIN r, i \notin 1..m
               PROVE  i - m \in 1..Len(q) /\ r[i] = q[i - m]
    BY <1>3
  <2>1. i - m \in 1..Len(q) /\ i = m + (i - m)
    BY <1>3
  <2> QED BY <1>3, <2>1
<1>6. \A i, j \in DOMAIN r : r[i].key = r[j].key => i = j
  <2> SUFFICES ASSUME NEW i \in DOMAIN r, NEW j \in DOMAIN r, r[i].key = r[j].key
               PROVE  i = j
    OBVIOUS
  <2>1. i \in Nat /\ j \in Nat
    BY <1>3
  <2>2. i \in DOMAIN p /\ j \in DOMAIN p => i = j
    BY <1>2, <1>3
  <2>3. i - m \in DOMAIN q /\ j - m \in DOMAIN q /\ r[i] = q[i - m] /\ r[j] = q[j - m] => i = j
    BY <1>2, <1>3, <2>1
  <2> QED BY <1>2, <1>5, <2>1, <2>2, <2>3
<1>7. Applied(held, r) = {k \in Keys : Presses(r, k) \/ (k \in held /\ ~Falls(r, k))}
  BY <1>3, <1>6, AppliedOnce
<1>8. Applied(held, r) = (held \ S) \union T
  BY <1>4, <1>7
<1> QED BY <1>8 DEF p, q, r

\* A step on ax: the batch answers for it, and the other axes are left alone.
Works(e, r, ax) ==
  /\ Typed(r) /\ r.suspended = e.suspended /\ Follows(e, r)
  /\ \A j \in Keys \ ax :
       /\ j \in r.phys <=> j \in e.phys
       /\ j \in r.logical <=> j \in e.logical
       /\ r.axisState[AxisOf(j)] = e.axisState[AxisOf(j)]
       /\ r.last[AxisOf(j)] = e.last[AxisOf(j)]
       /\ r.socd[AxisOf(j)] = e.socd[AxisOf(j)]
       /\ r.expect[j] = e.expect[j]

\* Steps, one after the other.
LEMMA WorksTrans ==
  ASSUME NEW e, NEW f, NEW g, NEW ax, Works(e, f, ax), Works(f, g, ax)
  PROVE  Works(e, g, ax)
BY DEF Works, Follows

\* A step that leaves the batch and the logical state alone.
LEMMA SilentWorks ==
  ASSUME NEW e, NEW r, NEW ax, Typed(r), OnlyAxis(e, r, ax),
         r.logical = e.logical, r.out = e.out
  PROVE  Works(e, r, ax)
BY DEF Works, Follows, Carried, OnlyAxis

\* What a handler does with the timers of one axis.
LEMMA TimersWork ==
  ASSUME NEW e, Typed(e), NEW k \in Keys, NEW t \in Identity
  PROVE  LET ax == AxisOf(k)
         IN  /\ Works(e, e, ax) /\ Works(e, StopExpecting(e, k), ax)
             /\ Works(e, DisarmAll(e, ax), ax) /\ Works(e, ScheduleTimer(e, k), ax)
             /\ Works(e, Expect(e, k, t), ax) /\ Works(e, CancelTimer(e, k), ax)
             /\ Works(e, CancelSocdTransition(e, ax), ax)
<1> DEFINE ax == AxisOf(k)
           o == Opposite[k]
<1>1. /\ e \in EngineState /\ Len(e.expired) <= MaxExpired /\ ax \in SUBSET Keys /\ ax \in Axes
  BY AxisFacts DEF Typed
<1>2. Step(k, o)
  BY Axis
<1> HIDE DEF o
<1>3. /\ Typed(StopExpecting(e, k)) /\ Typed(DisarmAll(e, ax)) /\ Typed(ScheduleTimer(e, k))
      /\ Typed(Expect(e, k, t)) /\ Typed(CancelTimer(e, k)) /\ Typed(CancelSocdTransition(e, ax))
  BY StepsAlike, AlikeTyped
<1>4. Works(e, e, ax)
  BY <1>1, SilentWorks DEF OnlyAxis
<1>5. Works(e, StopExpecting(e, k), ax)
  BY <1>1, <1>2, <1>3, StopStep, StopFields, SilentWorks DEF IsStop
<1>6. Works(e, DisarmAll(e, ax), ax)
  BY <1>1, <1>2, <1>3, DisarmStep, DisarmFields, SilentWorks DEF IsDisarm
<1>7. Works(e, ScheduleTimer(e, k), ax)
  BY <1>1, <1>2, <1>3, ScheduleStep, ScheduleFields, SilentWorks DEF IsSchedule
<1>8. Works(e, Expect(e, k, t), ax)
  BY <1>1, <1>2, <1>3, ExpectStep, ExpectFields, SilentWorks DEF IsExpect
<1>9. Works(e, CancelSocdTransition(e, ax), ax)
  BY <1>1, <1>2, <1>3, CancelStep, CancelFields, SilentWorks DEF IsCancel, Ended
<1>10. Works(e, CancelTimer(e, k), ax)
  <2> DEFINE r == CancelTimer(e, k)
  <2>1. /\ r.phys = e.phys /\ r.logical = e.logical /\ r.axisState = e.axisState /\ r.last = e.last
        /\ r.socd = e.socd /\ r.expect = e.expect /\ r.out = e.out /\ r.suspended = e.suspended
    BY <1>1 DEF CancelTimer, EngineState
  <2>2. Typed(r)
    BY <1>3
  <2> HIDE DEF r
  <2>3. Works(e, r, ax)
    BY <2>1, <2>2 DEF Works, Follows, Carried
  <2> QED BY <2>3 DEF r
<1> QED BY <1>4, <1>5, <1>6, <1>7, <1>8, <1>9, <1>10

\* A press and a release.
LEMMA EventsWork ==
  ASSUME NEW e, Typed(e), NEW k \in Keys
  PROVE  Works(e, PressIfUp(e, k), AxisOf(k)) /\ Works(e, ReleaseIfDown(e, k), AxisOf(k))
<1> DEFINE p == PressIfUp(e, k)
           r == ReleaseIfDown(e, k)
<1>1. e \in EngineState /\ e.out \in Seq(EventSet)
  BY DEF Typed, EngineState, EventSet
<1>2. Step(k, Opposite[k])
  BY Axis
<1>3. Typed(p) /\ Typed(r)
  BY StepsAlike, AlikeTyped DEF Identity
<1>4. OnlyAxis(e, p, AxisOf(k)) /\ OnlyAxis(e, r, AxisOf(k))
  BY <1>1, <1>2, PressStep, ReleaseStep DEF IsPress, IsRelease
<1>5. /\ p.logical = e.logical \union {k}
      /\ p.out = IF k \in e.logical THEN e.out ELSE WithPress(e.out, k)
      /\ r.logical = e.logical \ {k}
      /\ r.out = IF k \in e.logical THEN WithRelease(e.out, k) ELSE e.out
  <2>1. e \in EngineState
    BY <1>1
  <2>2. /\ p.logical = e.logical \union {k}
        /\ p.out = IF k \in e.logical THEN e.out ELSE Append(e.out, Event(k, TRUE))
    BY ONLY <2>1, PressFields
  <2>3. /\ r.logical = e.logical \ {k}
        /\ r.out = IF k \in e.logical THEN Append(e.out, Event(k, FALSE)) ELSE e.out
    BY ONLY <2>1, ReleaseFields
  <2> HIDE DEF p, r
  <2> QED BY <2>2, <2>3 DEF WithPress, WithRelease
<1> HIDE DEF p, r
<1>6. Follows(e, p) /\ Follows(e, r)
  <2> SUFFICES ASSUME NEW held \in SUBSET Keys, Carried(e, held)
               PROVE  Carried(p, held) /\ Carried(r, held)
    BY DEF Follows
  <2>1. Applied(held, e.out) = e.logical
    BY DEF Carried
  <2>2. /\ Applied(held, WithPress(e.out, k)) = e.logical \union {k}
        /\ Applied(held, WithRelease(e.out, k)) = e.logical \ {k}
    BY <1>1, <2>1, AppliedPress, AppliedRelease
  <2>3. k \in e.logical => e.logical \union {k} = e.logical
    OBVIOUS
  <2>4. k \notin e.logical => e.logical \ {k} = e.logical
    OBVIOUS
  <2> QED BY <1>5, <2>1, <2>2, <2>3, <2>4 DEF Carried
<1>7. \A j \in Keys \ AxisOf(k) : j # k
  BY <1>2 DEF Step
<1>8. Works(e, p, AxisOf(k)) /\ Works(e, r, AxisOf(k))
  BY <1>3, <1>4, <1>5, <1>6, <1>7 DEF Works, OnlyAxis
<1> QED BY <1>8 DEF p, r

\* ResolveAxis's first step.
LEMMA MovedWorks ==
  ASSUME NEW e, Typed(e), NEW k \in Keys
  PROVE  Works(e, Moved(e, AxisOf(k)), AxisOf(k))
<1> DEFINE ax == AxisOf(k)
           d == CancelSocdTransition(e, ax)
           now == e.phys \intersect ax
           r == Moved(e, ax)
<1>1. e \in EngineState /\ ax \in Axes /\ ax \in SUBSET Keys
  BY AxisFacts DEF Typed
<1>2. Step(k, Opposite[k])
  BY Axis
<1>3. Works(e, d, ax) /\ OnlyAxis(e, r, ax) /\ d.logical = e.logical /\ d.out = e.out
  BY <1>1, <1>2, TimersWork, MovedStep, CancelFields DEF Identity, IsMoved, Ended
<1>4. now \in SUBSET Keys
  BY <1>1
<1>5. r = [d EXCEPT !.axisState[ax] = now]
  BY DEF Moved
<1> HIDE DEF d, now, r
<1>6. Typed(r) /\ r.logical = e.logical /\ r.out = e.out
  BY <1>1, <1>3, <1>4, <1>5 DEF Works, Typed, EngineState, LastIsOfAxis
<1>7. Works(e, r, ax)
  BY <1>3, <1>6, SilentWorks
<1> QED BY <1>7 DEF r

-----------------------------------------------------------------------------
(* The handlers outside OFF, on the axis {k, o} they are called for.       *)

\* Of each axis: it is known; a key held alone is down; of two held the newest
\* one is, and in FULL no other.
InOrder(e, mode, k) ==
  LET o == Opposite[k]
  IN  /\ e.axisState[AxisOf(k)] = e.phys \intersect AxisOf(k)
      /\ k \in e.phys => k \in e.logical \/ (o \in e.phys /\ o \in e.logical)
      /\ k \in e.phys /\ o \in e.phys /\ e.last[AxisOf(k)] = k =>
           k \in e.logical /\ (mode = "FULL" => o \notin e.logical)

Ordered(e, mode) == \A k \in Keys : InOrder(e, mode, k)
Overlapped(e, mode) == \A k \in Keys : OverlapIsOfLoser(e, mode, k)

\* A handler that works on one axis has to be looked at on that axis only.
LEMMA OtherAxesInOrder ==
  ASSUME NEW e, NEW r, NEW k, NEW o, Step(k, o), Works(e, r, AxisOf(k)), NEW mode,
         NEW j \in Keys, j \notin AxisOf(k)
  PROVE  /\ InOrder(e, mode, j) => InOrder(r, mode, j)
         /\ OverlapIsOfLoser(e, mode, j) => OverlapIsOfLoser(r, mode, j)
<1> DEFINE i == Opposite[j]
<1>1. /\ i \in Keys \ AxisOf(k) /\ j \in Keys \ AxisOf(k) /\ AxisOf(i) = AxisOf(j)
      /\ AxisOf(j) = {i, j}
  <2>1. i \in Keys /\ AxisOf(i) = AxisOf(j) /\ AxisOf(j) = {i, j}
    BY AxisFacts DEF AxisOf
  <2>2. i \notin AxisOf(k)
    BY AxisFacts DEF Step
  <2> QED BY <2>1, <2>2
<1>2. /\ j \in r.phys <=> j \in e.phys
      /\ i \in r.phys <=> i \in e.phys
      /\ j \in r.logical <=> j \in e.logical
      /\ i \in r.logical <=> i \in e.logical
      /\ r.axisState[AxisOf(j)] = e.axisState[AxisOf(j)]
      /\ r.last[AxisOf(j)] = e.last[AxisOf(j)]
      /\ r.socd[AxisOf(j)] = e.socd[AxisOf(j)]
      /\ r.expect[j] = e.expect[j]
  BY <1>1 DEF Works
<1>3. r.phys \intersect AxisOf(j) = e.phys \intersect AxisOf(j)
  BY <1>1, <1>2
<1> QED BY <1>2, <1>3 DEF InOrder, OverlapIsOfLoser

\* So both keys of the axis are all that is left to show.
LEMMA AxisOrdered ==
  ASSUME NEW e, NEW r, NEW k, NEW o, Step(k, o), Works(e, r, AxisOf(k)), NEW mode
  PROVE  /\ Ordered(e, mode) /\ InOrder(r, mode, k) /\ InOrder(r, mode, o) => Ordered(r, mode)
         /\ Overlapped(e, mode) /\ OverlapIsOfLoser(r, mode, k) /\ OverlapIsOfLoser(r, mode, o)
              => Overlapped(r, mode)
<1>1. \A j \in Keys : j \in AxisOf(k) => j = k \/ j = o
  BY DEF Step
<1> QED BY <1>1, OtherAxesInOrder DEF Ordered, Overlapped

\* ResolveConflict, from an axis without an overlap whose newest key is k.
LEMMA ConflictWorks ==
  ASSUME NEW e, Typed(e), NEW k, NEW o, Step(k, o), e.last[AxisOf(k)] = k,
         e.socd[AxisOf(k)] = NoTimer,
         NEW press, NEW c, c.target \in Identity, c.mode # "OFF"
  PROVE  LET r == ResolveConflict(e, AxisOf(k), press, c)
             ax == AxisOf(k)
         IN  /\ Works(e, r, ax)
             /\ r.phys = e.phys /\ r.last = e.last /\ r.axisState = e.axisState
             /\ k \in r.logical /\ (c.mode = "FULL" => o \notin r.logical)
             /\ r.socd[ax] # NoTimer => c.mode = "HUMANIZED" /\ r.expect[k] # r.socd[ax]
<1> DEFINE ax == AxisOf(k)
           idle == DisarmAll(e, ax)
           overlap == c.mode = "HUMANIZED" /\ press /\ o \in e.logical /\ o \notin c.refused
           timed == ScheduleTimer(idle, o)
           x == Expect(timed, o, c.target)
           kept == [x EXCEPT !.socd[ax] = timed.armed[o]]
           freed == ReleaseIfDown(idle, o)
           n == IF overlap THEN kept ELSE freed
           r == PressIfUp(n, k)
<1>1. k \in Keys /\ o \in Keys /\ ax = {k, o} /\ ax \in Axes /\ AxisOf(o) = ax /\ k # o
      /\ e \in EngineState
  BY DEF Step, Typed
<1>2. ResolveConflict(e, ax, press, c) = r
  BY DEF ResolveConflict, Step
<1>3. /\ Works(e, idle, ax) /\ Typed(idle) /\ IsDisarm(e, idle, k, o)
  <2>1. IsDisarm(e, idle, k, o)
    BY <1>1, DisarmStep
  <2>2. Works(e, idle, ax)
    BY <1>1, TimersWork DEF Identity
  <2> QED BY <2>1, <2>2 DEF Works
<1> HIDE DEF idle
<1>4. /\ Works(idle, timed, ax) /\ Typed(timed) /\ IsSchedule(idle, timed, o, k)
      /\ Works(idle, freed, ax) /\ Typed(freed) /\ IsRelease(idle, freed, o, k)
  <2>1. idle \in EngineState /\ Len(idle.expired) <= MaxExpired /\ Step(o, k)
    BY <1>3 DEF Typed, Step
  <2>2. IsSchedule(idle, timed, o, k) /\ IsRelease(idle, freed, o, k)
    BY <2>1, ScheduleStep, ReleaseStep
  <2>3. Works(idle, timed, ax) /\ Works(idle, freed, ax)
    BY <1>1, <1>3, TimersWork, EventsWork DEF Identity
  <2> QED BY <2>2, <2>3 DEF Works
<1> HIDE DEF timed, freed
<1>5. Works(timed, x, ax) /\ Typed(x) /\ IsExpect(timed, x, o, k)
  <2>1. timed \in EngineState /\ Step(o, k)
    BY <1>4 DEF Typed, Step
  <2>2. IsExpect(timed, x, o, k)
    BY <2>1, ExpectStep
  <2>3. Works(timed, x, ax)
    BY <1>1, <1>4, TimersWork
  <2> QED BY <2>2, <2>3 DEF Works
<1> HIDE DEF x
<1>6. /\ Works(x, kept, ax)
      /\ kept.phys = x.phys /\ kept.last = x.last /\ kept.axisState = x.axisState
      /\ kept.logical = x.logical /\ kept.expect = x.expect /\ kept.socd[ax] = timed.armed[o]
  <2> DEFINE id == timed.armed[o]
  <2>1. x \in EngineState /\ id \in TimerRef
    BY <1>1, <1>4, <1>5 DEF Typed, EngineState
  <2> HIDE DEF id
  <2>2. /\ kept \in EngineState
        /\ kept.phys = x.phys /\ kept.last = x.last /\ kept.axisState = x.axisState
        /\ kept.logical = x.logical /\ kept.expect = x.expect /\ kept.out = x.out
        /\ kept.suspended = x.suspended /\ kept.expired = x.expired
        /\ \A a \in Axes : kept.socd[a] = IF a = ax THEN id ELSE x.socd[a]
    BY <1>1, <2>1 DEF EngineState, id
  <2> HIDE DEF kept
  <2>3. Typed(kept)
    BY <1>5, <2>2 DEF Typed, LastIsOfAxis
  <2>4. \A j \in Keys \ ax : AxisOf(j) \in Axes /\ AxisOf(j) # ax
    BY Apart
  <2>5. Works(x, kept, ax)
    BY <2>2, <2>3, <2>4 DEF Works, Follows, Carried
  <2> QED BY <1>1, <2>2, <2>5 DEF id
<1>7. /\ Works(e, n, ax) /\ Typed(n)
      /\ n.phys = e.phys /\ n.last = e.last /\ n.axisState = e.axisState
      /\ c.mode = "FULL" => o \notin n.logical
      /\ n.socd[ax] # NoTimer => c.mode = "HUMANIZED" /\ n.expect[k] # n.socd[ax]
  <2> HIDE DEF kept
  <2>1. Works(e, kept, ax) /\ Works(e, freed, ax)
    BY <1>3, <1>4, <1>5, <1>6, WorksTrans
  <2>2. CASE overlap
    BY <1>3, <1>4, <1>5, <1>6, <2>1, <2>2
       DEF IsDisarm, IsSchedule, IsExpect, SameKeys, Works
  <2>3. CASE ~overlap
    BY <1>3, <1>4, <2>1, <2>3 DEF IsDisarm, IsRelease, SameKeys, Works
  <2> QED BY <2>2, <2>3
<1> HIDE DEF n
<1>8. Works(n, r, ax) /\ IsPress(n, r, k, o)
  <2>1. n \in EngineState
    BY <1>7 DEF Typed
  <2> QED BY <1>1, <1>7, <2>1, EventsWork, PressStep
<1> HIDE DEF r
<1>9. Works(e, r, ax)
  BY <1>7, <1>8, WorksTrans
<1> QED BY <1>1, <1>2, <1>7, <1>8, <1>9 DEF IsPress, SameKeys, SameTimers

-----------------------------------------------------------------------------
(* A key up outside OFF.                                                   *)

\* A step on ax that moves no physical key and resolves nothing.
Keeps(e, r, ax) == Works(e, r, ax) /\ SameKeys(e, r)

\* Steps, one after the other.
LEMMA KeepsTrans ==
  ASSUME NEW e, NEW f, NEW g, NEW ax, Keeps(e, f, ax), Keeps(f, g, ax)
  PROVE  Keeps(e, g, ax)
<1>1. Works(e, g, ax)
  BY WorksTrans DEF Keeps
<1> QED BY <1>1 DEF Keeps, SameKeys

\* A step leaves a well-typed state.
LEMMA KeepsTyped ==
  ASSUME NEW e, NEW r, NEW ax, Keeps(e, r, ax)
  PROVE  Typed(r)
BY DEF Keeps, Works

\* What the handlers are made of.
LEMMA StepsKeep ==
  ASSUME NEW e, Typed(e), NEW k \in Keys, NEW t \in Identity
  PROVE  LET ax == AxisOf(k)
         IN  /\ Keeps(e, e, ax) /\ Keeps(e, StopExpecting(e, k), ax)
             /\ Keeps(e, ScheduleTimer(e, k), ax) /\ Keeps(e, Expect(e, k, t), ax)
             /\ Keeps(e, CancelTimer(e, k), ax) /\ Keeps(e, [e EXCEPT !.expect[k] = NoTimer], ax)
             /\ Keeps(e, PressIfUp(e, k), ax) /\ Keeps(e, ReleaseIfDown(e, k), ax)
<1> DEFINE ax == AxisOf(k)
           o == Opposite[k]
<1>1. e \in EngineState /\ Len(e.expired) <= MaxExpired /\ Step(k, o)
  BY Axis DEF Typed
<1> HIDE DEF o
<1>2. /\ Works(e, e, ax) /\ Works(e, StopExpecting(e, k), ax)
      /\ Works(e, ScheduleTimer(e, k), ax) /\ Works(e, Expect(e, k, t), ax)
      /\ Works(e, CancelTimer(e, k), ax)
      /\ Works(e, PressIfUp(e, k), ax) /\ Works(e, ReleaseIfDown(e, k), ax)
  BY TimersWork, EventsWork
<1>3. SameKeys(e, e)
  BY DEF SameKeys
<1>4. SameKeys(e, StopExpecting(e, k))
  BY <1>1, StopStep DEF IsStop
<1>5. SameKeys(e, ScheduleTimer(e, k))
  BY <1>1, ScheduleStep DEF IsSchedule
<1>6. SameKeys(e, Expect(e, k, t))
  BY <1>1, ExpectStep DEF IsExpect
<1>7. SameKeys(e, CancelTimer(e, k))
  BY <1>1 DEF CancelTimer, EngineState, SameKeys
<1>8. SameKeys(e, PressIfUp(e, k)) /\ SameKeys(e, ReleaseIfDown(e, k))
  BY <1>1, PressStep, ReleaseStep DEF IsPress, IsRelease
<1>9. Keeps(e, [e EXCEPT !.expect[k] = NoTimer], ax)
  <2> DEFINE n == [e EXCEPT !.expect[k] = NoTimer]
  <2>1. /\ n \in EngineState /\ SameKeys(e, n)
        /\ n.logical = e.logical /\ n.out = e.out /\ n.suspended = e.suspended
        /\ n.expired = e.expired /\ n.last = e.last
        /\ \A j \in Keys : j # k => n.expect[j] = e.expect[j]
    BY <1>1 DEF EngineState, TimerRef, SameKeys
  <2> HIDE DEF n
  <2>2. Typed(n)
    BY <2>1 DEF Typed, LastIsOfAxis
  <2>3. \A j \in Keys \ ax : j # k
    BY <1>1 DEF Step
  <2>4. Works(e, n, ax)
    BY <2>1, <2>2, <2>3 DEF Works, Follows, Carried, SameKeys
  <2> QED BY <2>1, <2>4 DEF Keeps, n
<1> QED BY <1>2, <1>3, <1>4, <1>5, <1>6, <1>7, <1>8, <1>9 DEF Keeps

\* AutoCounterStrafe, whether the brake starts or not.
LEMMA BrakeKeeps ==
  ASSUME NEW e, Typed(e), NEW k \in Keys, NEW c, c.target \in Identity,
         c.travel \in AxisOf(k) \union {NoKey}
  PROVE  Keeps(e, AutoCounterStrafe(e, k, c)[2], AxisOf(k))
<1> DEFINE ax == AxisOf(k)
           t == c.target
           rel == c.travel
           counter == Opposite[rel]
           overlap == c.overlap /\ rel \in e.logical
           refused == NoBrake(e, k, c) \/ (overlap /\ rel \in c.refused)
           i == IF overlap THEN ScheduleTimer(e, rel) ELSE e
           b == BrakeOf(e, rel, c)
           w == CancelTimer(i, rel)
<1>1. Keeps(e, e, ax)
  BY StepsKeep DEF Identity
<1>2. CASE rel = NoKey
  BY <1>1, <1>2 DEF AutoCounterStrafe, NoBrake
<1>3. CASE rel # NoKey
  <2>1. rel \in Keys /\ counter \in Keys /\ AxisOf(rel) = ax /\ AxisOf(counter) = ax
    BY <1>3, Axis, AxisFacts DEF Step
  <2>2. Keeps(e, i, ax) /\ Typed(i)
    BY <1>1, <2>1, StepsKeep, KeepsTyped DEF Identity
  <2>3. Keeps(e, w, ax)
    <3> HIDE DEF i
    <3>1. Keeps(i, w, ax)
      BY <2>1, <2>2, StepsKeep DEF Identity
    <3> QED BY <2>2, <3>1, KeepsTrans
  <2>4. Keeps(e, b, ax)
    <3> DEFINE a == ScheduleTimer(i, counter)
               x == Expect(a, rel, c.target)
               n == [a EXCEPT !.expect[rel] = NoTimer]
               f == ReleaseIfDown(n, rel)
               z == IF overlap THEN x ELSE f
               p == PressIfUp(z, counter)
               r == Expect(p, counter, c.target)
    <3>1. b = r
      BY DEF BrakeOf
    <3> HIDE DEF i
    <3>2. Keeps(i, a, ax) /\ Typed(a)
      BY <2>1, <2>2, StepsKeep, KeepsTyped DEF Identity
    <3> HIDE DEF a
    <3>3. Keeps(a, x, ax)
      BY <2>1, <3>2, StepsKeep
    <3>4. Keeps(a, n, ax) /\ Typed(n)
      BY <2>1, <3>2, StepsKeep, KeepsTyped DEF Identity
    <3> HIDE DEF x, n
    <3>5. Keeps(n, f, ax)
      BY <2>1, <3>4, StepsKeep DEF Identity
    <3>6. Keeps(a, z, ax) /\ Typed(z)
      BY <3>2, <3>3, <3>4, <3>5, KeepsTrans, KeepsTyped
    <3> HIDE DEF z
    <3>7. Keeps(z, p, ax) /\ Typed(p)
      BY <2>1, <3>6, StepsKeep, KeepsTyped DEF Identity
    <3> HIDE DEF p
    <3>8. Keeps(p, r, ax)
      BY <2>1, <3>7, StepsKeep
    <3> HIDE DEF r
    <3> QED BY <2>2, <3>1, <3>2, <3>6, <3>7, <3>8, KeepsTrans
  <2>5. AutoCounterStrafe(e, k, c) =
          CASE refused -> <<FALSE, e>>
            [] ~refused /\ counter \in c.refused -> <<FALSE, IF overlap THEN w ELSE e>>
            [] ~refused /\ counter \notin c.refused -> <<TRUE, b>>
    BY DEF AutoCounterStrafe, BrakeOf
  <2> HIDE DEF w, b, refused, overlap
  <2> QED BY <1>1, <2>3, <2>4, <2>5
<1> QED BY <1>2, <1>3

\* ResolveAxis on an axis {k, o} whose overlap is over and k of which is up.
LEMMA ResolveLifted ==
  ASSUME NEW e, Typed(e), NEW k, NEW o, Step(k, o), k \notin e.phys, e.socd[AxisOf(k)] = NoTimer,
         NEW c, c.mode # "OFF"
  PROVE  LET r == ResolveAxis(e, AxisOf(k), FALSE, c)
             ax == AxisOf(k)
         IN  /\ Works(e, r, ax) /\ r.phys = e.phys /\ r.socd[ax] = NoTimer
             /\ r.axisState[ax] = e.phys \intersect ax
             /\ e.axisState[ax] = e.phys \intersect ax => r = e
             /\ o \in e.phys /\ e.axisState[ax] = ax => o \in r.logical
<1> DEFINE ax == AxisOf(k)
           m == Moved(e, ax)
           now == e.phys \intersect ax
           only == CHOOSE j \in now : TRUE
           s == StopExpecting(m, k)
           r == ResolveAxis(e, ax, FALSE, c)
<1>1. /\ k \in Keys /\ o \in Keys /\ k # o /\ ax = {k, o} /\ ax \in Axes /\ o = Opposite[k]
      /\ k = Opposite[o] /\ AxisOf(o) = ax /\ e \in EngineState
  BY DEF Step, Typed
<1>2. now = IF o \in e.phys THEN {o} ELSE {}
  BY <1>1
<1>3. now # ax /\ (now # {} => o \in e.phys /\ now = {o})
  BY <1>1, <1>2
<1>4. now # {} => only = o
  BY <1>3
<1>5. /\ Works(e, m, ax) /\ Typed(m) /\ m.phys = e.phys /\ m.socd[ax] = NoTimer
      /\ m.axisState[ax] = now
  <2>1. IsMoved(e, m, k, o)
    BY <1>1, MovedStep
  <2>2. Works(e, m, ax)
    BY <1>1, MovedWorks
  <2> HIDE DEF m, now, ax
  <2> QED BY <2>1, <2>2 DEF IsMoved, Ended, Works, now, ax
<1>6. r = CASE now = e.axisState[ax] -> e
            [] now # e.axisState[ax] ->
                 CASE now = {} -> m
                   [] now # {} /\ e.axisState[ax] = ax -> PressIfUp(m, o)
                   [] now # {} /\ e.axisState[ax] # ax -> ReleaseIfDown(s, k)
  <2>1. r = CASE now = e.axisState[ax] -> e
            [] now # e.axisState[ax] ->
                 CASE now = {} -> m
                   [] now # {} /\ e.axisState[ax] = ax -> Engage(m, only, c)
                   [] now # {} /\ e.axisState[ax] # ax -> CancelStaleCounterStrafe(m, Opposite[only])
    <3> HIDE DEF ax, only
    <3> QED BY <1>3 DEF ResolveAxis, Moved, only
  <2>2. Engage(m, o, c) = PressIfUp(m, o)
    BY DEF Engage
  <2>3. CancelStaleCounterStrafe(m, k) = ReleaseIfDown(s, k)
    BY <1>5 DEF CancelStaleCounterStrafe
  <2> HIDE DEF m, now, only, s, r
  <2>4. now # {} => only = o /\ Opposite[only] = k
    BY <1>1, <1>4
  <2> QED BY <2>1, <2>2, <2>3, <2>4
<1> HIDE DEF m, now, only, r
<1>7. Keeps(m, PressIfUp(m, o), ax) /\ o \in PressIfUp(m, o).logical
  <2>1. Keeps(m, PressIfUp(m, o), ax)
    BY <1>1, <1>5, StepsKeep DEF Identity
  <2>2. o \in PressIfUp(m, o).logical
    <3>1. m \in EngineState /\ Step(o, k)
      BY <1>1, <1>5, Zenon DEF Typed, Step
    <3> QED BY <1>1, <3>1, PressStep DEF IsPress
  <2> QED BY <2>1, <2>2
<1>8. Keeps(m, ReleaseIfDown(s, k), ax)
  <2>1. Keeps(m, s, ax) /\ Typed(s)
    BY <1>1, <1>5, StepsKeep, KeepsTyped DEF Identity
  <2> HIDE DEF s
  <2>2. Keeps(s, ReleaseIfDown(s, k), ax)
    BY <1>1, <2>1, StepsKeep DEF Identity
  <2> QED BY <2>1, <2>2, KeepsTrans
<1> HIDE DEF s
<1>9. /\ Works(e, PressIfUp(m, o), ax) /\ Works(e, ReleaseIfDown(s, k), ax)
      /\ SameKeys(m, PressIfUp(m, o)) /\ SameKeys(m, ReleaseIfDown(s, k))
  BY <1>5, <1>7, <1>8, WorksTrans DEF Keeps
<1>10. CASE now = e.axisState[ax]
  <2>1. r = e /\ Works(e, e, ax)
    BY <1>1, <1>6, <1>10, StepsKeep, Zenon DEF Identity, Keeps
  <2> QED BY <1>1, <1>2, <1>10, <2>1, Zenon DEF r, now
<1>11. CASE now # e.axisState[ax]
  <2>1. \/ now = {} /\ r = m
        \/ now # {} /\ e.axisState[ax] = ax /\ r = PressIfUp(m, o)
        \/ now # {} /\ e.axisState[ax] # ax /\ r = ReleaseIfDown(s, k)
    BY <1>6, <1>11
  <2>2. Works(e, r, ax) /\ r.phys = m.phys /\ r.socd[ax] = m.socd[ax]
          /\ r.axisState[ax] = m.axisState[ax]
    BY <1>5, <1>9, <2>1 DEF SameKeys
  <2>3. o \in e.phys /\ e.axisState[ax] = ax => o \in r.logical
    BY <1>2, <1>7, <2>1
  <2> QED BY <1>5, <1>11, <2>2, <2>3 DEF r, now
<1> QED BY <1>10, <1>11

\* HandleKeyUp up to the release.
LEMMA LiftedWorks ==
  ASSUME NEW e, Typed(e), NEW k, NEW o, Step(k, o), NEW c, c.mode # "OFF"
  PROVE  LET u == Lifted(e, k, c)
             ax == AxisOf(k)
         IN  /\ Works(e, u, ax) /\ u.phys = e.phys \ {k} /\ u.axisState = e.axisState
             /\ u.socd[ax] = NoTimer
<1> DEFINE ax == AxisOf(k)
           d == CancelSocdTransition(e, ax)
           u == [d EXCEPT !.phys = @ \ {k}]
<1>1. k \in Keys /\ \A j \in Keys \ ax : j # k
  BY DEF Step
<1>2. /\ Works(e, d, ax) /\ d \in EngineState /\ d.phys = e.phys /\ d.axisState = e.axisState
      /\ d.socd[ax] = NoTimer
  <2>1. e \in EngineState
    BY DEF Typed
  <2>2. IsCancel(e, d, k, o)
    BY <2>1, CancelStep
  <2>3. Works(e, d, ax)
    BY <1>1, TimersWork DEF Identity
  <2> HIDE DEF d, ax
  <2> QED BY <2>2, <2>3 DEF IsCancel, Ended, Works, Typed, ax
<1>3. Lifted(e, k, c) = u
  BY DEF Lifted, TrackIfOff
<1> HIDE DEF d
<1>4. /\ u \in EngineState /\ u.phys = d.phys \ {k} /\ u.axisState = d.axisState
      /\ u.last = d.last /\ u.socd = d.socd /\ u.expect = d.expect /\ u.logical = d.logical
      /\ u.out = d.out /\ u.suspended = d.suspended /\ u.expired = d.expired
  BY <1>2 DEF EngineState
<1> HIDE DEF u
<1>5. Typed(u)
  BY <1>2, <1>4 DEF Works, Typed, LastIsOfAxis
<1>6. Works(d, u, ax)
  BY <1>1, <1>4, <1>5 DEF Works, Follows, Carried
<1>7. Works(e, u, ax)
  BY <1>2, <1>6, WorksTrans
<1> QED BY <1>2, <1>3, <1>4, <1>7

\* HandleKeyUp keeps every axis in order.
LEMMA KeyUpOrdered ==
  ASSUME NEW e, Typed(e), NEW k \in Keys, NEW route \in BOOLEAN, NEW c, c.mode # "OFF",
         c.target \in Identity, c.travel \in AxisOf(k) \union {NoKey}, Overlapped(e, c.mode)
  PROVE  LET r == HandleKeyUp(e, k, route, c)
         IN  /\ Works(e, r, AxisOf(k)) /\ Overlapped(r, c.mode)
             /\ route /\ Ordered(e, c.mode) => Ordered(r, c.mode)
<1> DEFINE ax == AxisOf(k)
           o == Opposite[k]
           u == Lifted(e, k, c)
           brake == AutoCounterStrafe(u, k, c)[2]
           freed(x) == ReleaseIfDown(x, k)
           end(x) == ResolveAxis(x, ax, FALSE, c)
           r == HandleKeyUp(e, k, route, c)
<1>1. Step(k, o) /\ k \in Keys /\ o \in Keys /\ ax = {k, o} /\ AxisOf(o) = ax /\ k # o
      /\ k = Opposite[o] /\ o = Opposite[k]
  BY Axis DEF Step
<1>0. Step(k, o)
  BY <1>1
<1> HIDE DEF o
<1>2. CASE k \notin e.phys
  <2>1. e.socd[ax] = NoTimer
    BY <1>2 DEF Overlapped, OverlapIsOfLoser
  <2>2. r = IF route THEN end(e) ELSE e
    BY <1>2 DEF HandleKeyUp
  <2>3. /\ Works(e, end(e), ax) /\ end(e).socd[ax] = NoTimer
        /\ e.axisState[ax] = e.phys \intersect ax => end(e) = e
    BY <1>0, <1>2, <2>1, ResolveLifted, Zenon
  <2>4. Works(e, e, ax)
    BY TimersWork DEF Identity
  <2> HIDE DEF r, end
  <2>5. Works(e, r, ax) /\ r.socd[ax] = NoTimer
    BY <2>1, <2>2, <2>3, <2>4
  <2>6. OverlapIsOfLoser(r, c.mode, k) /\ OverlapIsOfLoser(r, c.mode, o)
    BY <1>1, <2>5 DEF OverlapIsOfLoser
  <2>7. Overlapped(r, c.mode)
    BY <1>1, <2>5, <2>6, AxisOrdered
  <2>8. ASSUME Ordered(e, c.mode) PROVE Ordered(r, c.mode)
    <3>1. r = e
      BY <2>2, <2>3, <2>8 DEF Ordered, InOrder
    <3> QED BY <2>8, <3>1
  <2> QED BY <2>5, <2>7, <2>8 DEF r
<1>3. CASE k \in e.phys
  <2>1. /\ Works(e, u, ax) /\ Typed(u) /\ u.phys = e.phys \ {k} /\ u.axisState = e.axisState
        /\ u.socd[ax] = NoTimer
    <3>1. Works(e, u, ax) => Typed(u)
      BY DEF Works
    <3> QED BY <1>0, <3>1, LiftedWorks
  <2>2. r = IF route THEN RoutedKeyUp(u, k, c) ELSE u
    BY <1>3 DEF HandleKeyUp, Lifted
  <2> HIDE DEF u, r
  <2>3. PICK x : Keeps(u, x, ax) /\ RoutedKeyUp(u, k, c) = end(x)
    <3>1. Keeps(u, u, ax) /\ Keeps(u, brake, ax) /\ Typed(brake)
      BY <1>1, <2>1, StepsKeep, BrakeKeeps, KeepsTyped DEF Identity
    <3>2. \E y \in {u, brake} : RoutedKeyUp(u, k, c) = end(y) \/ RoutedKeyUp(u, k, c) = end(freed(y))
      <4> DEFINE b == AutoCounterStrafe(u, k, c)
                 a == CASE MacroBrakePending(u, k) -> <<TRUE, u>>
                        [] ~MacroBrakePending(u, k) /\ Opposite[k] \notin u.phys -> b
                        [] ~MacroBrakePending(u, k) /\ Opposite[k] \in u.phys -> <<FALSE, u>>
      <4>1. RoutedKeyUp(u, k, c) = end(IF a[1] THEN a[2] ELSE freed(a[2]))
        BY DEF RoutedKeyUp
      <4>2. a[2] \in {u, brake}
        <5> HIDE DEF b
        <5>1. a[2] = u \/ a[2] = b[2]
          OBVIOUS
        <5> QED BY <5>1 DEF b
      <4> HIDE DEF a, b, brake, end, freed
      <4> QED BY <4>1, <4>2
    <3> HIDE DEF brake, end
    <3>3. \A y \in {u, brake} : Keeps(u, y, ax) /\ Keeps(y, freed(y), ax)
      BY <2>1, <3>1, StepsKeep DEF Identity
    <3>4. \A y \in {u, brake} : Keeps(u, y, ax) /\ Keeps(u, freed(y), ax)
      BY <3>3, KeepsTrans
    <3> HIDE DEF freed
    <3> QED BY <3>2, <3>4
  <2>4. Typed(x) /\ x.phys = u.phys /\ x.socd = u.socd /\ x.axisState = u.axisState
    BY <2>3, KeepsTyped DEF Keeps, SameKeys
  <2>5. /\ Works(x, end(x), ax) /\ end(x).phys = x.phys /\ end(x).socd[ax] = NoTimer
        /\ end(x).axisState[ax] = x.phys \intersect ax
        /\ x.axisState[ax] = x.phys \intersect ax => end(x) = x
        /\ o \in x.phys /\ x.axisState[ax] = ax => o \in end(x).logical
    <3>1. k \notin x.phys /\ x.socd[ax] = NoTimer
      BY <2>1, <2>4
    <3> QED BY <1>0, <2>4, <3>1, ResolveLifted
  <2> HIDE DEF end
  <2>6. Works(e, end(x), ax)
    BY <2>1, <2>3, <2>5, WorksTrans DEF Keeps
  <2>7. Works(e, r, ax) /\ r.socd[ax] = NoTimer
    BY <2>1, <2>2, <2>3, <2>5, <2>6
  <2>8. OverlapIsOfLoser(r, c.mode, k) /\ OverlapIsOfLoser(r, c.mode, o)
    BY <1>1, <2>7 DEF OverlapIsOfLoser
  <2>9. Overlapped(r, c.mode)
    BY <1>1, <2>7, <2>8, AxisOrdered
  <2>10. ASSUME route, Ordered(e, c.mode) PROVE Ordered(r, c.mode)
    <3>1. r = end(x) /\ r.phys = e.phys \ {k} /\ r.axisState[ax] = r.phys \intersect ax
      BY <2>1, <2>2, <2>3, <2>4, <2>5, <2>10
    <3>2. o \in r.phys => o \in r.logical
      <4>1. ASSUME o \in r.phys PROVE e.axisState[ax] = ax
        <5>1. e.axisState[ax] = e.phys \intersect ax
          BY <2>10 DEF Ordered, InOrder
        <5>2. o \in e.phys
          BY <3>1, <4>1
        <5> QED BY <1>1, <1>3, <5>1, <5>2
      <4> QED BY <2>1, <2>4, <2>5, <3>1, <4>1
    <3>3. InOrder(r, c.mode, k) /\ InOrder(r, c.mode, o)
      BY <1>1, <3>1, <3>2 DEF InOrder
    <3> QED BY <1>1, <2>7, <2>10, <3>3, AxisOrdered
  <2> QED BY <2>7, <2>9, <2>10 DEF r
<1> QED BY <1>2, <1>3

-----------------------------------------------------------------------------
(* A key down outside OFF.                                                 *)

\* HandleKeyDown up to the resolution of the axis.
LEMMA RecordedWorks ==
  ASSUME NEW e, Typed(e), NEW k, NEW o, Step(k, o), NEW c, c.mode # "OFF"
  PROVE  LET n == Recorded(e, k, c)
             ax == AxisOf(k)
         IN  /\ Works(e, n, ax) /\ n.phys = e.phys \union {k} /\ n.axisState = e.axisState
             /\ n.last[ax] = k /\ n.socd = e.socd
<1> DEFINE ax == AxisOf(k)
           p == [e EXCEPT !.phys = @ \union {k}, !.last[ax] = k]
           s == StopExpecting(p, k)
<1>1. e \in EngineState /\ k \in Keys /\ ax \in Axes /\ k \in ax
  BY DEF Step, Typed
<1>2. /\ p \in EngineState /\ p.phys = e.phys \union {k} /\ p.axisState = e.axisState
      /\ p.socd = e.socd /\ p.expect = e.expect /\ p.logical = e.logical /\ p.out = e.out
      /\ p.suspended = e.suspended /\ p.expired = e.expired
      /\ \A a \in Axes : p.last[a] = IF a = ax THEN k ELSE e.last[a]
  BY <1>1 DEF EngineState
<1>3. Recorded(e, k, c) \in {p, s}
  BY DEF Recorded, TrackIfOff
<1> HIDE DEF p
<1>4. Typed(p)
  <2>1. \A j \in Keys : AxisOf(j) \in Axes
    BY AxisFacts
  <2> QED BY <1>1, <1>2, <2>1 DEF Typed, LastIsOfAxis
<1>5. Works(e, p, ax)
  <2>1. \A j \in Keys \ ax : j # k /\ AxisOf(j) # ax /\ AxisOf(j) \in Axes
    BY <1>1, Apart
  <2> QED BY <1>2, <1>4, <2>1 DEF Works, Follows, Carried
<1>6. Keeps(p, s, ax) /\ s.last = p.last /\ s.socd = p.socd
  <2>1. Keeps(p, s, ax)
    BY <1>1, <1>4, StepsKeep DEF Identity
  <2> HIDE DEF s
  <2> QED BY <2>1 DEF Keeps, SameKeys
<1> HIDE DEF s
<1>7. Works(e, s, ax) /\ s.phys = p.phys /\ s.axisState = p.axisState
  BY <1>5, <1>6, WorksTrans DEF Keeps, SameKeys
<1> QED BY <1>1, <1>2, <1>3, <1>5, <1>6, <1>7

\* HandleKeyDown when the other key of the axis is up.
LEMMA DownAloneOrdered ==
  ASSUME NEW e, Typed(e), NEW k, NEW o, Step(k, o), k \in e.phys, o \notin e.phys,
         e.socd[AxisOf(k)] = NoTimer, NEW c, c.mode # "OFF"
  PROVE  LET ax == AxisOf(k)
             z == ResolveAxis(e, ax, TRUE, c)
             r == PressIfUp(z, k)
         IN  /\ z.axisState[ax] # ax
             /\ Works(e, r, ax) /\ r.phys = e.phys /\ r.socd[ax] = NoTimer
             /\ r.axisState[ax] = r.phys \intersect ax /\ k \in r.logical
<1> DEFINE ax == AxisOf(k)
           m == Moved(e, ax)
           now == e.phys \intersect ax
           only == CHOOSE j \in now : TRUE
           s == StopExpecting(m, o)
           z == ResolveAxis(e, ax, TRUE, c)
           r == PressIfUp(z, k)
<1>1. /\ k \in Keys /\ o \in Keys /\ k # o /\ ax = {k, o} /\ ax \in Axes /\ o = Opposite[k]
      /\ k = Opposite[o] /\ AxisOf(o) = ax /\ e \in EngineState
  BY DEF Step, Typed
<1>2. now = {k} /\ now # ax /\ now # {} /\ only = k
  <2>1. now = {k}
    BY <1>1
  <2> QED BY <1>1, <2>1
<1>3. /\ Works(e, m, ax) /\ Typed(m) /\ m.phys = e.phys /\ m.socd[ax] = NoTimer
      /\ m.axisState[ax] = now
  <2>1. IsMoved(e, m, k, o)
    BY <1>1, MovedStep
  <2>2. Works(e, m, ax)
    BY <1>1, MovedWorks
  <2> HIDE DEF m, now, ax
  <2> QED BY <2>1, <2>2 DEF IsMoved, Ended, Works, now, ax
<1>4. z = IF now = e.axisState[ax] THEN e
          ELSE IF e.axisState[ax] = ax THEN PressIfUp(m, k) ELSE ReleaseIfDown(s, o)
  <2>1. z = IF now = e.axisState[ax] THEN e
            ELSE IF e.axisState[ax] = ax THEN Engage(m, only, c)
                                         ELSE CancelStaleCounterStrafe(m, Opposite[only])
    <3> HIDE DEF ax, only
    <3> QED BY <1>2 DEF ResolveAxis, Moved, only
  <2>2. Engage(m, k, c) = PressIfUp(m, k)
    BY DEF Engage
  <2>3. CancelStaleCounterStrafe(m, o) = ReleaseIfDown(s, o)
    BY <1>3 DEF CancelStaleCounterStrafe
  <2> HIDE DEF m, now, only, s, z
  <2> QED BY <1>1, <1>2, <2>1, <2>2, <2>3
<1> HIDE DEF m, now, only
<1>5. Keeps(m, PressIfUp(m, k), ax)
  BY <1>1, <1>3, StepsKeep DEF Identity
<1>6. Keeps(m, ReleaseIfDown(s, o), ax)
  <2>1. Keeps(m, s, ax) /\ Typed(s)
    BY <1>1, <1>3, StepsKeep, KeepsTyped DEF Identity
  <2> HIDE DEF s
  <2>2. Keeps(s, ReleaseIfDown(s, o), ax)
    BY <1>1, <2>1, StepsKeep DEF Identity
  <2> QED BY <2>1, <2>2, KeepsTrans
<1> HIDE DEF s
<1>7. /\ Works(e, PressIfUp(m, k), ax) /\ Works(e, ReleaseIfDown(s, o), ax)
      /\ SameKeys(m, PressIfUp(m, k)) /\ SameKeys(m, ReleaseIfDown(s, o))
      /\ Works(e, e, ax)
  <2>1. Works(e, e, ax)
    BY <1>1, StepsKeep DEF Identity, Keeps
  <2> QED BY <1>3, <1>5, <1>6, <2>1, WorksTrans DEF Keeps
<1> HIDE DEF z
<1>8. Works(e, z, ax) /\ z.phys = e.phys /\ z.socd[ax] = NoTimer /\ z.axisState[ax] = now
  BY <1>3, <1>4, <1>7 DEF SameKeys
<1>9. Keeps(z, r, ax) /\ k \in r.logical
  <2>1. Typed(z) /\ z \in EngineState /\ Step(k, o)
    BY <1>8 DEF Works, Typed
  <2>2. Keeps(z, r, ax)
    BY <1>1, <2>1, StepsKeep DEF Identity
  <2>3. k \in r.logical
    BY <1>1, <2>1, PressStep DEF IsPress
  <2> QED BY <2>2, <2>3
<1> HIDE DEF r
<1>10. Works(e, r, ax) /\ r.phys = z.phys /\ r.socd = z.socd /\ r.axisState = z.axisState
  BY <1>8, <1>9, WorksTrans DEF Keeps, SameKeys
<1> QED BY <1>2, <1>8, <1>9, <1>10 DEF r, z, now

\* HandleKeyDown keeps every axis in order.
LEMMA KeyDownOrdered ==
  ASSUME NEW e, Typed(e), NEW k \in Keys, k \notin e.phys, NEW route \in BOOLEAN,
         NEW c, c.mode # "OFF", c.target \in Identity, Overlapped(e, c.mode)
  PROVE  LET r == HandleKeyDown(e, k, route, c)
         IN  /\ Works(e, r, AxisOf(k)) /\ Overlapped(r, c.mode)
             /\ route /\ Ordered(e, c.mode) => Ordered(r, c.mode)
<1> DEFINE ax == AxisOf(k)
           o == Opposite[k]
           n == Recorded(e, k, c)
           z == ResolveAxis(n, ax, TRUE, c)
           r == HandleKeyDown(e, k, route, c)
<1>0. Step(k, o)
  BY Axis
<1>1. /\ k \in Keys /\ o \in Keys /\ ax = {k, o} /\ AxisOf(o) = ax /\ k # o
      /\ k = Opposite[o] /\ o = Opposite[k] /\ ax \in Axes
  BY <1>0 DEF Step
<1> HIDE DEF o
<1>2. e.socd[ax] = NoTimer
  BY DEF Overlapped, OverlapIsOfLoser
<1>3. r = IF ~route THEN n ELSE IF z.axisState[ax] = ax THEN z ELSE PressIfUp(z, k)
  <2>1. Engage(z, k, c) = PressIfUp(z, k)
    BY DEF Engage
  <2>2. CASE ~route
    BY <2>2 DEF HandleKeyDown, Recorded
  <2>3. CASE route
    <3>1. r = IF z.axisState[ax] = ax THEN z ELSE Engage(z, k, c)
      BY <2>3 DEF HandleKeyDown, Recorded
    <3> HIDE DEF z, r
    <3> QED BY <2>1, <2>3, <3>1
  <2> QED BY <2>2, <2>3
<1>4. /\ Works(e, n, ax) /\ n.phys = e.phys \union {k} /\ n.axisState = e.axisState
      /\ n.last[ax] = k /\ n.socd = e.socd
  BY <1>0, RecordedWorks
<1> HIDE DEF n
<1>5. Typed(n) /\ n.socd[ax] = NoTimer /\ k \in n.phys
  BY <1>2, <1>4 DEF Works
<1> HIDE DEF r
\* Both keys of ax, whatever is left of the handler.
<1>6. ASSUME NEW x, Works(e, x, ax), x.phys = n.phys,
             x.socd[ax] # NoTimer =>
               c.mode = "HUMANIZED" /\ o \in x.phys /\ x.last[ax] = k /\ x.expect[k] # x.socd[ax]
      PROVE  Overlapped(x, c.mode)
  <2>1. OverlapIsOfLoser(x, c.mode, k) /\ OverlapIsOfLoser(x, c.mode, o)
    BY <1>1, <1>5, <1>6 DEF OverlapIsOfLoser
  <2> QED BY <1>0, <1>6, <2>1, AxisOrdered
<1>7. Works(e, n, ax) /\ Overlapped(n, c.mode)
  BY <1>4, <1>5, <1>6
<1>8. CASE route /\ o \in n.phys
  <2> DEFINE m == Moved(n, ax)
  <2>1. /\ Works(n, m, ax) /\ m.phys = n.phys /\ m.socd[ax] = NoTimer
        /\ m.axisState[ax] = ax /\ m.last[ax] = k
    <3>1. IsMoved(n, m, k, o)
      BY <1>0, <1>5, MovedStep DEF Typed
    <3>2. Works(n, m, ax)
      BY <1>5, MovedWorks
    <3>3. n.phys \intersect ax = ax
      BY <1>1, <1>5, <1>8
    <3> HIDE DEF m
    <3> QED BY <1>4, <3>1, <3>2, <3>3 DEF IsMoved, Ended
  <2> DEFINE press == TRUE
  <2>2. z = ResolveConflict(m, ax, press, c)
    <3> DEFINE now == n.phys \intersect ax
               only == CHOOSE j \in now : TRUE
    <3>1. now = ax /\ ax # {}
      BY <1>1, <1>5, <1>8
    <3>2. z = CASE now = n.axisState[ax] /\ now # ax -> n
                [] ~(now = n.axisState[ax] /\ now # ax) ->
                     CASE now = ax -> ResolveConflict(m, ax, TRUE, c)
                       [] now = {} -> m
                       [] now \notin {ax, {}} /\ n.axisState[ax] = ax -> Engage(m, only, c)
                       [] now \notin {ax, {}} /\ n.axisState[ax] # ax ->
                            CancelStaleCounterStrafe(m, Opposite[only])
      <4> HIDE DEF ax, only
      <4> QED BY DEF ResolveAxis, Moved, only
    <3> HIDE DEF m, z, now, only, ax
    <3> QED BY <3>1, <3>2
  <2> HIDE DEF m, z, press
  <2>3. Typed(m) /\ m.last[AxisOf(k)] = k /\ m.socd[AxisOf(k)] = NoTimer
    BY <2>1 DEF Works
  <2>4. /\ Works(m, z, ax)
        /\ z.phys = m.phys /\ z.last = m.last /\ z.axisState = m.axisState
        /\ k \in z.logical /\ (c.mode = "FULL" => o \notin z.logical)
        /\ z.socd[ax] # NoTimer => c.mode = "HUMANIZED" /\ z.expect[k] # z.socd[ax]
    BY <1>0, <2>2, <2>3, ConflictWorks
  <2>5. r = z /\ Works(e, z, ax)
    BY <1>3, <1>4, <1>8, <2>1, <2>4, WorksTrans
  <2>6. Overlapped(r, c.mode)
    BY <1>6, <1>8, <2>1, <2>4, <2>5
  <2>7. ASSUME Ordered(e, c.mode) PROVE Ordered(r, c.mode)
    <3>1. r.phys \intersect ax = ax
      BY <1>1, <1>5, <1>8, <2>1, <2>4, <2>5
    <3>2. InOrder(r, c.mode, k) /\ InOrder(r, c.mode, o)
      BY <1>1, <2>1, <2>4, <2>5, <3>1 DEF InOrder
    <3> QED BY <1>0, <2>5, <2>7, <3>2, AxisOrdered
  <2> QED BY <2>5, <2>6, <2>7 DEF r
<1>9. CASE route /\ o \notin n.phys
  <2> DEFINE x == PressIfUp(z, k)
  <2>1. /\ z.axisState[ax] # ax
        /\ Works(n, x, ax) /\ x.phys = n.phys /\ x.socd[ax] = NoTimer
        /\ x.axisState[ax] = x.phys \intersect ax /\ k \in x.logical
    BY <1>0, <1>5, <1>9, DownAloneOrdered
  <2> HIDE DEF x
  <2>2. r = x
    BY <1>3, <1>9, <2>1 DEF x
  <2> HIDE DEF z
  <2>3. Works(e, x, ax)
    BY <1>4, <2>1, WorksTrans
  <2>4. Overlapped(r, c.mode)
    BY <1>6, <2>1, <2>2, <2>3
  <2>5. ASSUME Ordered(e, c.mode) PROVE Ordered(r, c.mode)
    <3>1. InOrder(x, c.mode, k) /\ InOrder(x, c.mode, o)
      BY <1>1, <1>9, <2>1 DEF InOrder
    <3> QED BY <1>0, <2>2, <2>3, <2>5, <3>1, AxisOrdered
  <2> QED BY <2>2, <2>3, <2>4, <2>5 DEF r
<1>10. CASE ~route
  <2>1. r = n
    BY <1>3, <1>10
  <2> QED BY <1>7, <1>10, <2>1 DEF r
<1> QED BY <1>8, <1>9, <1>10

-----------------------------------------------------------------------------
(* A timer outside OFF.                                                    *)

\* OnTimerExpired keeps every axis in order.
LEMMA TimerOrdered ==
  ASSUME NEW e, Typed(e), NEW k, NEW o, Step(k, o), NEW id, id # NoTimer, e.expect[k] = id,
         NEW c, c.mode # "OFF", Overlapped(e, c.mode)
  PROVE  LET r == OnTimerExpired(e, k, id, c)
         IN  /\ Works(e, r, AxisOf(k)) /\ Overlapped(r, c.mode)
             /\ ~e.suspended /\ Ordered(e, c.mode) => Ordered(r, c.mode)
<1> DEFINE ax == AxisOf(k)
           now == e.phys \intersect ax
           socd == e.socd[ax] = id
           yields == /\ c.mode = "HUMANIZED" /\ ~e.suspended /\ ax \subseteq e.phys
                     /\ e.last[ax] = o
           a == [e EXCEPT !.expect[k] = NoTimer, !.expectTarget[k] = NoTarget]
           g == [a EXCEPT !.socd[ax] = NoTimer]
           lost == ReleaseIfDown(a, k)
           x == IF socd THEN IF yields THEN ReleaseIfDown(g, k) ELSE g
                ELSE IF k \in e.phys THEN a ELSE IF o \in e.phys THEN PressIfUp(lost, o) ELSE lost
           r == OnTimerExpired(e, k, id, c)
<1>1. /\ k \in Keys /\ o \in Keys /\ ax = {k, o} /\ AxisOf(o) = ax /\ ax \in Axes /\ k # o
      /\ k = Opposite[o] /\ o = Opposite[k] /\ e \in EngineState
  BY DEF Step, Typed
<1>2. r = [x EXCEPT !.axisState[ax] = now]
  <2>1. IsExpected(e, k, id)
    BY DEF IsExpected
  <2> DEFINE y == /\ c.mode = "HUMANIZED" /\ ~e.suspended /\ ax \subseteq e.phys
                  /\ e.last[ax] = Opposite[k]
             free == IF k \in e.phys THEN a ELSE lost
  <2>2. r = [(CASE socd -> IF y THEN ReleaseIfDown(g, k) ELSE g
                [] ~socd -> IF k \notin e.phys /\ Opposite[k] \in e.phys
                            THEN PressIfUp(free, Opposite[k]) ELSE free)
               EXCEPT !.axisState[ax] = now]
    BY <2>1 DEF OnTimerExpired
  <2>3. y <=> yields
    BY <1>1
  <2> HIDE DEF a, g, lost, r, y, yields, socd
  <2>4. (CASE socd -> IF y THEN ReleaseIfDown(g, k) ELSE g
           [] ~socd -> IF k \notin e.phys /\ Opposite[k] \in e.phys
                       THEN PressIfUp(free, Opposite[k]) ELSE free) = x
    BY <1>1, <2>3
  <2> HIDE DEF x, free
  <2> QED BY <2>2, <2>4
<1> HIDE DEF r
\* An overlap is the loser's.
<1>3. e.socd[ax] # NoTimer =>
        /\ k \in e.phys /\ o \in e.phys /\ c.mode = "HUMANIZED"
        /\ socd => e.last[ax] = o
        /\ e.expect[o] = e.socd[ax] => e.last[ax] = k
  BY <1>1 DEF Overlapped, OverlapIsOfLoser
\* The steps before the axis is recorded.
<1>4. /\ Works(e, a, ax) /\ Typed(a) /\ a.phys = e.phys /\ a.last = e.last
      /\ a.logical = e.logical /\ a.socd = e.socd /\ a.expect[k] = NoTimer
      /\ a.expect[o] = e.expect[o]
  <2>1. /\ a \in EngineState
        /\ a.phys = e.phys /\ a.last = e.last /\ a.axisState = e.axisState /\ a.socd = e.socd
        /\ a.logical = e.logical /\ a.out = e.out /\ a.suspended = e.suspended
        /\ a.expired = e.expired
        /\ \A j \in Keys : a.expect[j] = IF j = k THEN NoTimer ELSE e.expect[j]
    BY <1>1 DEF EngineState, TimerRef, Identity
  <2> HIDE DEF a
  <2>2. Typed(a)
    BY <2>1 DEF Typed, LastIsOfAxis
  <2>3. \A j \in Keys \ ax : j # k
    BY <1>1
  <2>4. Works(e, a, ax)
    BY <2>1, <2>2, <2>3 DEF Works, Follows, Carried
  <2> QED BY <1>1, <2>1, <2>2, <2>4
<1> HIDE DEF a
<1>5. /\ Works(e, g, ax) /\ Typed(g) /\ g.phys = e.phys /\ g.last = e.last
      /\ g.logical = e.logical /\ g.socd[ax] = NoTimer /\ g.expect = a.expect
  <2>1. /\ g \in EngineState
        /\ g.phys = a.phys /\ g.last = a.last /\ g.axisState = a.axisState
        /\ g.expect = a.expect /\ g.logical = a.logical /\ g.out = a.out
        /\ g.suspended = a.suspended /\ g.expired = a.expired
        /\ \A b \in Axes : g.socd[b] = IF b = ax THEN NoTimer ELSE a.socd[b]
    <3>1. a \in EngineState
      BY <1>4 DEF Typed
    <3> QED BY <1>1, <3>1 DEF EngineState, TimerRef
  <2> HIDE DEF g
  <2>2. Typed(g)
    BY <1>4, <2>1 DEF Typed, LastIsOfAxis
  <2>3. \A j \in Keys \ ax : AxisOf(j) \in Axes /\ AxisOf(j) # ax
    BY Apart
  <2>4. Works(a, g, ax)
    BY <2>1, <2>2, <2>3 DEF Works, Follows, Carried
  <2> QED BY <1>1, <1>4, <2>1, <2>2, <2>4, WorksTrans
<1> HIDE DEF g
<1>6. ASSUME NEW n, Typed(n), Works(e, n, ax), NEW j \in {k, o}
      PROVE  /\ Works(e, ReleaseIfDown(n, j), ax) /\ Typed(ReleaseIfDown(n, j))
             /\ Works(e, PressIfUp(n, j), ax)
             /\ \A y \in {ReleaseIfDown(n, j), PressIfUp(n, j)} :
                  y.phys = n.phys /\ y.last = n.last /\ y.socd = n.socd /\ y.expect = n.expect
             /\ ReleaseIfDown(n, j).logical = n.logical \ {j}
             /\ PressIfUp(n, j).logical = n.logical \union {j}
  <2>1. n \in EngineState /\ j \in Keys /\ AxisOf(j) = ax
    BY <1>1, <1>6 DEF Typed
  <2>2. Works(n, ReleaseIfDown(n, j), ax) /\ Works(n, PressIfUp(n, j), ax)
    BY <1>6, <2>1, EventsWork
  <2>3. Works(e, ReleaseIfDown(n, j), ax) /\ Works(e, PressIfUp(n, j), ax)
    BY <1>6, <2>2, WorksTrans
  <2> DEFINE f == ReleaseIfDown(n, j)
             p == PressIfUp(n, j)
  <2>4. Typed(f)
    BY <2>2 DEF Works
  <2>8. n \in EngineState /\ j \in Keys
    BY <2>1
  <2>5. /\ f.phys = n.phys /\ f.last = n.last /\ f.socd = n.socd /\ f.expect = n.expect
        /\ f.logical = n.logical \ {j}
    BY ONLY <2>8, ReleaseFields
  <2>6. /\ p.phys = n.phys /\ p.last = n.last /\ p.socd = n.socd /\ p.expect = n.expect
        /\ p.logical = n.logical \union {j}
    BY ONLY <2>8, PressFields
  <2> HIDE DEF f, p
  <2>7. \A y \in {f, p} :
          y.phys = n.phys /\ y.last = n.last /\ y.socd = n.socd /\ y.expect = n.expect
    BY <2>5, <2>6
  <2> QED BY <2>3, <2>4, <2>5, <2>6, <2>7 DEF f, p
<1>7. Works(e, lost, ax) /\ Typed(lost) /\ lost.phys = e.phys /\ lost.last = e.last
      /\ lost.socd = e.socd /\ lost.expect = a.expect /\ lost.logical = e.logical \ {k}
  BY <1>4, <1>6
<1> HIDE DEF lost
<1>8. /\ Works(e, x, ax) /\ x.phys = e.phys /\ x.last = e.last
      /\ x.socd[ax] = IF socd THEN NoTimer ELSE e.socd[ax]
      /\ x.expect[k] = NoTimer /\ x.expect[o] = e.expect[o]
      /\ x.logical = IF socd THEN IF yields THEN e.logical \ {k} ELSE e.logical
                     ELSE IF k \in e.phys THEN e.logical
                     ELSE IF o \in e.phys THEN (e.logical \ {k}) \union {o} ELSE e.logical \ {k}
  <2> HIDE DEF socd, yields
  <2>1. CASE socd
    <3> DEFINE f == ReleaseIfDown(g, k)
    <3>1. /\ Works(e, f, ax) /\ f.phys = g.phys /\ f.last = g.last /\ f.socd = g.socd
          /\ f.expect = g.expect /\ f.logical = g.logical \ {k}
      BY <1>5, <1>6
    <3> HIDE DEF f
    <3>2. x = IF yields THEN f ELSE g
      BY <2>1 DEF f
    <3> HIDE DEF x
    <3> QED BY <1>4, <1>5, <2>1, <3>1, <3>2
  <2>2. CASE ~socd
    BY <1>4, <1>6, <1>7, <2>2
  <2> QED BY <2>1, <2>2
<1> HIDE DEF x
<1>9. /\ Works(e, r, ax) /\ r.phys = x.phys /\ r.last = x.last /\ r.socd = x.socd
      /\ r.expect = x.expect /\ r.logical = x.logical /\ r.axisState[ax] = now
  <2>1. Typed(x) /\ x \in EngineState /\ now \in SUBSET Keys
    BY <1>1, <1>8 DEF Works, Typed
  <2> HIDE DEF now
  <2>2. /\ r \in EngineState
        /\ r.phys = x.phys /\ r.last = x.last /\ r.socd = x.socd /\ r.expect = x.expect
        /\ r.logical = x.logical /\ r.out = x.out /\ r.suspended = x.suspended
        /\ r.expired = x.expired
        /\ \A b \in Axes : r.axisState[b] = IF b = ax THEN now ELSE x.axisState[b]
    BY <1>1, <1>2, <2>1 DEF EngineState
  <2>3. Typed(r)
    BY <2>1, <2>2 DEF Typed, LastIsOfAxis
  <2>4. \A j \in Keys \ ax : AxisOf(j) \in Axes /\ AxisOf(j) # ax
    BY Apart
  <2>5. Works(x, r, ax)
    BY <2>2, <2>3, <2>4 DEF Works, Follows, Carried
  <2> QED BY <1>1, <1>8, <2>2, <2>5, WorksTrans
<1>10. Overlapped(r, c.mode)
  <2>1. OverlapIsOfLoser(r, c.mode, k) /\ OverlapIsOfLoser(r, c.mode, o)
    BY <1>1, <1>3, <1>8, <1>9, Zenon DEF OverlapIsOfLoser
  <2> QED BY <1>9, <2>1, AxisOrdered, Zenon
<1>11. ASSUME ~e.suspended, Ordered(e, c.mode) PROVE Ordered(r, c.mode)
  <2>1. InOrder(e, c.mode, k) /\ InOrder(e, c.mode, o)
    BY <1>1, <1>11, Zenon DEF Ordered
  <2>2. e.logical \subseteq Keys /\ r.axisState[ax] = r.phys \intersect ax
    BY <1>1, <1>8, <1>9, Zenon DEF EngineState
  <2>3. CASE socd
    <3>1. yields
      BY <1>1, <1>3, <1>11, <2>3
    <3>2. r.logical = e.logical \ {k} /\ r.phys = e.phys /\ r.last = e.last
      BY <1>8, <1>9, <2>3, <3>1
    <3>3. o \in e.logical /\ c.mode = "HUMANIZED"
      BY <1>1, <2>1, <3>1 DEF InOrder
    <3>4. o \in r.logical
      BY <1>1, <3>2, <3>3
    <3>5. InOrder(r, c.mode, k) /\ InOrder(r, c.mode, o)
      BY <1>1, <2>2, <3>1, <3>2, <3>3, <3>4 DEF InOrder
    <3> QED BY <1>9, <1>11, <3>5, AxisOrdered
  <2>4. CASE ~socd
    <3>1. r.phys = e.phys /\ r.last = e.last
      BY <1>8, <1>9
    <3>2. CASE k \in e.phys
      <4>1. r.logical = e.logical
        BY <1>8, <1>9, <2>4, <3>2
      <4>2. InOrder(r, c.mode, k) /\ InOrder(r, c.mode, o)
        BY <1>1, <2>1, <2>2, <3>1, <4>1 DEF InOrder
      <4> QED BY <1>9, <1>11, <4>2, AxisOrdered
    <3>3. CASE k \notin e.phys
      <4>1. o \in e.phys => o \in r.logical
        BY <1>8, <1>9, <2>4, <3>3
      <4>2. InOrder(r, c.mode, k) /\ InOrder(r, c.mode, o)
        BY <1>1, <2>2, <3>1, <3>3, <4>1 DEF InOrder
      <4> QED BY <1>9, <1>11, <4>2, AxisOrdered
    <3> QED BY <3>2, <3>3
  <2> QED BY <2>3, <2>4
<1> QED BY <1>9, <1>10, <1>11 DEF r

-----------------------------------------------------------------------------
(* The handlers that work on every axis, outside OFF.                      *)

\* A batch that is not there yet.
LEMMA CarriedIdle ==
  ASSUME NEW e, e.out = <<>>, NEW held \in SUBSET Keys
  PROVE  Carried(e, held) <=> e.logical = held
BY AppliedEmpty DEF Carried

\* ReconcileInternal(true) releases what is held.
LEMMA LetGoCarries ==
  ASSUME NEW e, Typed(e), e.out = <<>>, NEW held \in SUBSET Keys, Carried(e, held)
  PROVE  Carried(LetGoOfAll(e), held)
<1> DEFINE r == LetGoOfAll(e)
           L == e.logical
           off == FALSE
           q == Events(L, off)
<1>1. e \in EngineState /\ L \in SUBSET Keys /\ L = held /\ off \in BOOLEAN
  BY CarriedIdle DEF Typed, EngineState
<1>2. r.logical = {} /\ r.out = q
  BY <1>1, LetGoFields
<1> HIDE DEF r, off, L
<1>3. q \in Seq(EventSet) /\ \A x \in Keys : /\ Falls(q, x) <=> x \in L /\ ~off
                                             /\ Presses(q, x) <=> x \in L /\ off
  BY <1>1, EventsBatch
<1>4. \A i, j \in DOMAIN q : q[i].key = q[j].key => i = j
  BY <1>1, EventsOnce
<1> HIDE DEF q
<1>5. Applied(held, q) = {k \in Keys : Presses(q, k) \/ (k \in held /\ ~Falls(q, k))}
  BY <1>3, <1>4, AppliedOnce
<1>6. Applied(held, q) = {}
  BY <1>1, <1>3, <1>5 DEF off
<1> QED BY <1>2, <1>6 DEF Carried, r

\* Without a physical key there is nothing to order.
LEMMA NothingOrdered ==
  ASSUME NEW e, NEW mode, \A ax \in Axes : e.socd[ax] = NoTimer /\ e.axisState[ax] = {}
  PROVE  Overlapped(e, mode) /\ (e.phys = {} => Ordered(e, mode))
<1>1. \A k \in Keys : AxisOf(k) \in Axes
  BY AxisFacts
<1> QED BY <1>1 DEF Overlapped, OverlapIsOfLoser, Ordered, InOrder

\* The timers of transitions cancelled on several axes at once.
LEMMA CancelAllTimers ==
  ASSUME NEW e \in EngineState, NEW A
  PROVE  LET r == CancelTransitions(e, A)
         IN  /\ \A ax \in Axes : r.socd[ax] = IF ax \in A THEN NoTimer ELSE e.socd[ax]
             /\ \A k \in Keys : r.expect[k] \in {e.expect[k], NoTimer}
<1> DEFINE T == UNION {InTransition(e, ax) : ax \in A}
           S == T \intersect Keys
           d == DisarmAll(e, T)
           r == [d EXCEPT !.socd = [ax \in Axes |-> IF ax \in A THEN NoTimer ELSE @[ax]]]
<1>1. CancelTransitions(e, A) = r
  BY DEF CancelTransitions
<1>2. DisarmAll(e, T) = DisarmAll(e, S)
  BY DEF DisarmAll
<1> HIDE DEF T
<1>3. S \in SUBSET Keys
  OBVIOUS
<1> HIDE DEF S
<1>4. /\ d \in EngineState /\ d.socd = e.socd
      /\ \A j \in Keys : d.expect[j] = IF j \in S THEN NoTimer ELSE e.expect[j]
  BY <1>2, <1>3, DisarmFields
<1> HIDE DEF d
<1>5. /\ r.expect = d.expect
      /\ \A ax \in Axes : r.socd[ax] = IF ax \in A THEN NoTimer ELSE d.socd[ax]
  BY <1>4 DEF EngineState
<1> HIDE DEF r
<1> QED BY <1>1, <1>4, <1>5

\* What RebuildState wants down: of each axis, the newest of the physical keys.
LEMMA DesiredInOrder ==
  ASSUME NEW s, Typed(s), \A ax \in Axes : s.axisState[ax] = s.phys \intersect ax,
         NEW mode, mode = "FULL" => \A ax \in Axes : s.socd[ax] = NoTimer,
         NEW r, r.phys = s.phys, r.last = s.last, r.axisState = s.axisState,
         r.logical = (s.phys \ Suppressed(s)) \union ArmedBrakes(s)
  PROVE  Ordered(r, mode)
<1> SUFFICES ASSUME NEW k \in Keys PROVE InOrder(r, mode, k)
  BY DEF Ordered
<1> DEFINE o == Opposite[k]
           ax == AxisOf(k)
<1>1. /\ o \in Keys /\ k # o /\ ax = {k, o} /\ ax \in Axes /\ AxisOf(o) = ax
      /\ k = Opposite[o] /\ o = Opposite[k] /\ s.last[ax] \in {k, o}
  <2>1. Step(k, o) /\ LastIsOfAxis(s, k)
    BY Axis DEF Typed
  <2> QED BY <2>1 DEF Step, LastIsOfAxis
<1> HIDE DEF o
\* The suppressed key of an axis is the other one, of two.
<1>2. \A j \in ax : j \in Suppressed(s) => ax \subseteq s.phys /\ j = Opposite[s.last[ax]]
  <2> SUFFICES ASSUME NEW j \in ax, j \in Suppressed(s)
               PROVE  ax \subseteq s.phys /\ j = Opposite[s.last[ax]]
    OBVIOUS
  <2>1. PICK b \in Axes : b \subseteq s.phys /\ j = Opposite[s.last[b]]
    BY DEF Suppressed
  <2>2. PICK i \in Keys : b = AxisOf(i)
    BY DEF Axes
  <2>3. s.last[b] \in b
    BY <2>2 DEF Typed, LastIsOfAxis
  <2>4. j \in b
    BY <2>1, <2>2, <2>3, AxisFacts
  <2>5. b = ax
    <3>1. AxisOf(j) = b /\ AxisOf(j) = ax
      BY <1>1, <2>1, <2>4, AxisFacts
    <3> QED BY <3>1
  <2> QED BY <2>1, <2>5
<1>3. k \in s.phys /\ (o \notin s.phys \/ s.last[ax] = k) => k \in r.logical
  BY <1>1, <1>2
<1>4. o \in s.phys /\ s.last[ax] = o => o \in r.logical
  BY <1>1, <1>2
<1>5. k \in s.phys /\ o \in s.phys /\ s.last[ax] = k /\ mode = "FULL" => o \notin r.logical
  <2> SUFFICES ASSUME k \in s.phys, o \in s.phys, s.last[ax] = k, mode = "FULL"
               PROVE  o \notin r.logical
    OBVIOUS
  <2>1. ax \subseteq s.phys /\ s.socd[ax] = NoTimer
    BY <1>1
  <2>2. o \in Suppressed(s)
    BY <1>1, <2>1 DEF Suppressed
  <2>3. o \notin ArmedBrakes(s)
    BY <1>1 DEF ArmedBrakes
  <2> QED BY <2>2, <2>3
<1> QED BY <1>1, <1>3, <1>4, <1>5 DEF InOrder

\* RebuildState orders every axis anew.
LEMMA RebuildOrdered ==
  ASSUME NEW e, Typed(e), e.out = <<>>, e.native = {}, NEW physical \in SUBSET Keys,
         NEW c, c.mode # "OFF", Overlapped(e, c.mode), NEW held \in SUBSET Keys, Carried(e, held)
  PROVE  LET r == RebuildState(e, physical, c)
         IN  r.native = {} /\ Carried(r, held) /\ Overlapped(r, c.mode) /\ Ordered(r, c.mode)
<1> DEFINE p == [e EXCEPT !.phys = physical]
           A == {ax \in Axes : ~(ax \subseteq p.phys)}
           calm == CancelTransitions(p, A)
           known == [ax \in Axes |-> p.phys \intersect ax]
           s == [calm EXCEPT !.axisState = known]
           D == (s.phys \ Suppressed(s)) \union ArmedBrakes(s)
           gone == s.logical \ D
           come == D \ s.logical
           u == Events(gone, FALSE)
           v == Events(come, TRUE)
           d == DisarmAll(s, gone)
           out == (d.out \o u) \o v
           r == [d EXCEPT !.logical = D, !.out = out]
<1>1. /\ p \in EngineState /\ p.phys = physical /\ p.last = e.last /\ p.native = {}
      /\ p.logical = e.logical /\ p.out = <<>> /\ p.expect = e.expect /\ p.socd = e.socd
      /\ p.expired = e.expired /\ e \in EngineState
  BY DEF Typed, EngineState
<1>2. RebuildState(e, physical, c) = Restore(s, (p.phys \ Suppressed(s)) \union ArmedBrakes(s))
  BY DEF RebuildState, ReconcileLogicalStateFromPhysical
<1> HIDE DEF p
<1>3. /\ calm \in EngineState /\ calm.phys = p.phys /\ calm.native = p.native
      /\ calm.last = p.last /\ calm.logical = p.logical /\ calm.out = p.out
      /\ calm.expired = p.expired
      /\ \A ax \in Axes : calm.socd[ax] = IF ax \in A THEN NoTimer ELSE p.socd[ax]
      /\ \A k \in Keys : calm.expect[k] \in {p.expect[k], NoTimer}
  <2> HIDE DEF A
  <2> QED BY <1>1, CancelAllFields, CancelAllTimers
<1> HIDE DEF calm
<1>4. known \in [Axes -> SUBSET Keys] /\ \A ax \in Axes : known[ax] = p.phys \intersect ax
  BY <1>1
<1> HIDE DEF known
<1>5. /\ s \in EngineState /\ s.phys = physical /\ s.native = {} /\ s.last = e.last
      /\ s.logical = e.logical /\ s.out = <<>> /\ s.expired = e.expired
      /\ s.socd = calm.socd /\ s.expect = calm.expect /\ s.axisState = known
  BY <1>1, <1>3, <1>4 DEF EngineState
<1> HIDE DEF s
<1>6. Typed(s)
  BY <1>1, <1>5 DEF Typed, LastIsOfAxis
<1>7. D \in SUBSET Keys /\ gone \in SUBSET Keys /\ come \in SUBSET Keys
  BY <1>5 DEF ArmedBrakes, EngineState
<1>8. Restore(s, D) = r
  BY DEF Restore
<1>9. D = (p.phys \ Suppressed(s)) \union ArmedBrakes(s)
  BY <1>1, <1>5
<1> HIDE DEF D
<1>10. Applied(held, u \o v) = D
  <2>1. gone \intersect come = {}
    OBVIOUS
  <2>2. e.logical = held
    BY CarriedIdle
  <2>3. Applied(held, u \o v) = (held \ gone) \union come
    <3> HIDE DEF gone, come
    <3> QED BY <1>7, <2>1, EventsApplied, Zenon
  <2> QED BY <1>5, <1>7, <2>2, <2>3
<1>11. u \in Seq(EventSet) /\ v \in Seq(EventSet)
  <2> HIDE DEF gone, come
  <2> QED BY <1>7, EventsBatch
<1> HIDE DEF u, v
<1>12. /\ d \in EngineState
       /\ d.phys = s.phys /\ d.native = s.native /\ d.axisState = s.axisState
       /\ d.last = s.last /\ d.socd = s.socd /\ d.out = s.out
       /\ \A j \in Keys : d.expect[j] \in {s.expect[j], NoTimer}
  <2> HIDE DEF gone
  <2> QED BY <1>5, <1>7, DisarmFields
<1> HIDE DEF d, gone, come
<1>13. out = u \o v /\ out \in Seq(EventSet)
  <2>1. d.out = <<>>
    BY <1>5, <1>12
  <2>2. <<>> \o u = u /\ u \o v \in Seq(EventSet)
    BY <1>11
  <2> QED BY <2>1, <2>2
<1> HIDE DEF out
<1>14. /\ r.phys = physical /\ r.native = {} /\ r.axisState = known /\ r.last = e.last
       /\ r.socd = calm.socd /\ r.expect = d.expect /\ r.logical = D /\ r.out = out
  BY <1>5, <1>7, <1>12, <1>13 DEF EngineState, EventSet
<1> HIDE DEF r
<1>15. Carried(r, held)
  BY <1>10, <1>13, <1>14 DEF Carried
\* An overlap goes on only where both keys are down still.
<1>16. \A ax \in Axes : calm.socd[ax] # NoTimer => ax \subseteq physical /\ calm.socd[ax] = e.socd[ax]
  BY <1>1, <1>3
<1>17. Overlapped(r, c.mode)
  <2> SUFFICES ASSUME NEW k \in Keys, r.socd[AxisOf(k)] # NoTimer
               PROVE  /\ k \in r.phys /\ c.mode = "HUMANIZED"
                      /\ r.expect[k] = r.socd[AxisOf(k)] => r.last[AxisOf(k)] = Opposite[k]
    BY DEF Overlapped, OverlapIsOfLoser
  <2>1. AxisOf(k) \in Axes /\ k \in AxisOf(k)
    BY AxisFacts DEF AxisOf
  <2>2. AxisOf(k) \subseteq physical /\ r.socd[AxisOf(k)] = e.socd[AxisOf(k)]
    BY <1>14, <1>16, <2>1
  <2>3. c.mode = "HUMANIZED"
          /\ (e.expect[k] = e.socd[AxisOf(k)] => e.last[AxisOf(k)] = Opposite[k])
    BY <2>2 DEF Overlapped, OverlapIsOfLoser
  <2>4. r.expect[k] \in {e.expect[k], NoTimer}
    BY <1>1, <1>3, <1>5, <1>12, <1>14
  <2> QED BY <1>14, <2>1, <2>2, <2>3, <2>4
<1>18. Ordered(r, c.mode)
  <2>1. \A ax \in Axes : s.axisState[ax] = s.phys \intersect ax
    BY <1>1, <1>4, <1>5
  <2>2. c.mode = "FULL" => \A ax \in Axes : s.socd[ax] = NoTimer
    <3> SUFFICES ASSUME c.mode = "FULL", NEW ax \in Axes PROVE calm.socd[ax] = NoTimer
      BY <1>5
    <3>1. PICK k \in Keys : ax = AxisOf(k)
      BY DEF Axes
    <3>2. e.socd[ax] = NoTimer
      BY <3>1 DEF Overlapped, OverlapIsOfLoser
    <3> QED BY <1>16, <3>2
  <2>3. /\ r.phys = s.phys /\ r.last = s.last /\ r.axisState = s.axisState
        /\ r.logical = (s.phys \ Suppressed(s)) \union ArmedBrakes(s)
    BY <1>5, <1>14 DEF D
  <2> QED BY <1>6, <2>1, <2>2, <2>3, DesiredInOrder
<1>19. RebuildState(e, physical, c) = r
  BY <1>2, <1>8, <1>9
<1> QED BY <1>14, <1>15, <1>17, <1>18, <1>19

-----------------------------------------------------------------------------
(* The steps, outside OFF.                                                 *)

\* The engine has made up its mind and the batch says so.
Served(e, held, mode) == e.native = {} /\ Carried(e, held) /\ Overlapped(e, mode)

\* Every physical edge is acted upon, not only recorded.
Running == ~eng.suspended /\ todo # "rebuild"
AllRouted == \A i \in DOMAIN routed : routed[i].route

\* Everything is let go of and no timer of a conflict runs.
Cleared(e) ==
  /\ e.phys = {} /\ e.native = {}
  /\ \A ax \in Axes : e.socd[ax] = NoTimer /\ e.axisState[ax] = {}

NewestInv ==
  /\ config.mode # "OFF" => Served(eng, table.held, config.mode)
  /\ config.mode # "OFF" /\ Running => Ordered(eng, config.mode)
  /\ Running => AllRouted
  /\ todo = "switch" => Cleared(eng)

\* Only these fields matter.
LEMMA SameOrder ==
  ASSUME NEW e, NEW r, r.phys = e.phys, r.last = e.last, r.socd = e.socd, r.expect = e.expect,
         r.axisState = e.axisState, r.logical = e.logical, NEW mode
  PROVE  (Overlapped(e, mode) => Overlapped(r, mode)) /\ (Ordered(e, mode) => Ordered(r, mode))
BY DEF Overlapped, OverlapIsOfLoser, Ordered, InOrder

\* The commit after a batch finds what the engine thinks.
LEMMA CommitServed ==
  ASSUME NEW e \in EngineState, NEW held \in SUBSET Keys, NEW mode, Served(e, held, mode),
         e.out = <<>>
  PROVE  Commit(e, held) = e
<1>1. e.logical = held /\ e.native \union (held \intersect Keys) = e.logical
  BY CarriedIdle DEF Served
<1>2. [e EXCEPT !.logical = e.logical] = e
  BY DEF EngineState
<1> QED BY <1>1, <1>2 DEF Commit

LEMMA SubmitServed ==
  ASSUME EngineTyped, NEW e, Typed(e), Served(e, table.held, config.mode), NEW t, Submit(e, t)
  PROVE  eng' = e /\ UNCHANGED <<table, config>>
<1>1. e \in EngineState /\ table.held \in SUBSET Keys
  BY DEF EngineTyped, Typed
<1>2. e.out = <<>> => Commit(e, table.held) = e
  BY <1>1, CommitServed
<1> QED BY <1>2 DEF Submit

\* Steps that leave the engine alone.
LEMMA NewestAlone ==
  ASSUME NewestInv, UNCHANGED vars, todo' = "switch" => todo = "switch", Running' => Running,
         Running => AllRouted'
  PROVE  NewestInv'
<1>1. UNCHANGED <<eng, table, config>>
  BY DEF vars
<1>2. /\ config'.mode # "OFF" => Served(eng', table'.held, config'.mode)
      /\ config'.mode # "OFF" /\ Running' => Ordered(eng', config'.mode)
      /\ todo' = "switch" => Cleared(eng')
  BY <1>1 DEF NewestInv
<1>3. Running' => AllRouted'
  OBVIOUS
<1> QED BY <1>2, <1>3 DEF NewestInv

\* The hook routes what it queues.
LEMMA HookKeyNewest ==
  ASSUME SteadyAssumption, RInv, SteadyInv, NewestInv, NEW k \in PlayerKeys, HookKey(k)
  PROVE  NewestInv'
<1> DEFINE event == [key |-> k, down |-> k \notin down, route |-> HookRoutes, target |-> seen]
<1>1. routed \in Seq(RoutedEvent) /\ published \in Targets /\ seen = published
  BY DEF RInv, RoutingTypes, RoutingTypeOK, SteadyInv, Undisturbed
<1>2. routed' = Append(routed, event) /\ UNCHANGED <<vars, todo>>
  BY DEF HookKey, Push, SteadyAssumption
<1>3. Running => event.route
  BY <1>1 DEF Running, HookRoutes, SeenActive
<1> HIDE DEF event
<1>4. \A i \in DOMAIN Append(routed, event) :
        \/ i \in DOMAIN routed /\ Append(routed, event)[i] = routed[i]
        \/ Append(routed, event)[i] = event
  BY <1>1
<1>5. Running' => Running
  BY <1>2 DEF Running, vars
<1>6. Running => AllRouted'
  BY <1>2, <1>3, <1>4 DEF NewestInv, AllRouted
<1> QED BY <1>2, <1>5, <1>6, NewestAlone

\* An edge taken from the queue.
LEMMA RouteNewest ==
  ASSUME RInv, SteadyInv, NewestInv, Route
  PROVE  NewestInv'
<1> DEFINE event == Head(routed)
           k == event.key
           route == event.route /\ Active(event.target)
           stale == event.down /\ k \in eng.phys
<1>1. /\ RoutingTypeOK /\ EngineTyped /\ Typed(eng) /\ published \in Identity
      /\ published \in Targets /\ foreground = published
      /\ \A i \in DOMAIN routed : routed[i].target = published
  BY DEF RInv, RoutingTypes, EngineTyped, SteadyInv, Undisturbed, Meant
<1>2. PICK refused \in TimerRefusals, travel \in Keys \union {NoKey} :
        /\ routed # <<>> /\ travel \in AxisOf(k) \union {NoKey}
        /\ RouteNext(refused, travel)
  BY DEF Route
<1>3. /\ routed' = Tail(routed) /\ Idle /\ todo' # "switch"
      /\ todo = "rebuild" <=> todo' = "rebuild"
      /\ IF stale THEN UNCHANGED vars
         ELSE IF event.down THEN KeyDown(k, route, event.target, refused)
              ELSE KeyUp(k, route, event.target, travel, refused)
  BY <1>2 DEF RouteNext, RInv, WokenInv
<1>4. /\ event \in RoutedEvent /\ event.target = published
      /\ \A i \in DOMAIN Tail(routed) : i + 1 \in DOMAIN routed /\ Tail(routed)[i] = routed[i + 1]
      /\ Running => event.route
  <2>1. routed \in Seq(RoutedEvent) /\ routed # <<>>
    BY <1>1, <1>2 DEF RoutingTypeOK
  <2>2. 1 \in DOMAIN routed /\ event = routed[1] /\ event \in RoutedEvent
        /\ \A i \in DOMAIN Tail(routed) : i + 1 \in DOMAIN routed /\ Tail(routed)[i] = routed[i + 1]
    BY <2>1
  <2> QED BY <1>1, <2>2 DEF NewestInv, AllRouted
<1>5. /\ k \in Keys /\ event.down \in BOOLEAN /\ route \in BOOLEAN
      /\ Running => route
  BY <1>1, <1>4 DEF RoutedEvent, Active
<1>6. Running => AllRouted'
  BY <1>3, <1>4 DEF NewestInv, AllRouted
<1> HIDE DEF event, route
<1>7. CASE stale
  <2>1. UNCHANGED vars
    BY <1>3, <1>7
  <2>2. Running' => Running
    BY <1>3, <2>1 DEF Running, vars
  <2> QED BY <1>3, <1>6, <2>1, <2>2, NewestAlone
<1>8. CASE ~stale
  <2> DEFINE c == Situation(published, IF event.down THEN NoKey ELSE travel, refused)
             d == HandleKeyDown(eng, k, route, c)
             u == HandleKeyUp(eng, k, route, c)
             e == IF event.down THEN d ELSE u
  <2>1. /\ c.target = published /\ c.held \subseteq Slots /\ c.mode = config.mode
        /\ ~event.down => c.travel = travel
    BY <1>1, EngineTypedTypes DEF Situation
  <2>2. IF event.down /\ ~route
        THEN eng' = e /\ UNCHANGED <<table, batchTarget, config, foreground, published>>
        ELSE Submit(e, published)
    BY <1>3, <1>4, <1>8 DEF KeyDown, KeyUp
  <2> HIDE DEF c, d, u
  <2>3. Typed(e) /\ e.suspended = eng.suspended
        /\ (config.mode # "OFF" /\ eng.native = {} => e.native = {})
    <3>1. CASE event.down
      <4>1. k \notin eng.phys
        BY <1>8, <3>1
      <4>2. Typed(d) /\ d.suspended = eng.suspended
            /\ (config.mode # "OFF" /\ eng.native = {} => d.native = {})
        BY <1>1, <1>5, <2>1, <4>1, HandleKeyDownTyped DEF d
      <4> QED BY <3>1, <4>2
    <3>2. CASE ~event.down
      <4>1. c.travel \in AxisOf(k) \union {NoKey}
        BY <1>2, <2>1, <3>2
      <4>2. Typed(u) /\ u.suspended = eng.suspended
            /\ (config.mode # "OFF" /\ eng.native = {} => u.native = {})
        BY <1>1, <1>5, <2>1, <4>1, HandleKeyUpTyped DEF u
      <4> QED BY <3>2, <4>2
    <3> QED BY <3>1, <3>2
  <2>4. eng'.suspended = eng.suspended /\ UNCHANGED <<table, config>>
    <3>1. e \in EngineState
      BY <2>3 DEF Typed
    <3>2. Commit(e, table.held).suspended = e.suspended
      BY <3>1 DEF Commit, EngineState
    <3> HIDE DEF e
    <3> QED BY <2>2, <2>3, <3>2 DEF Submit
  <2>5. Running' <=> Running
    BY <1>3, <2>4 DEF Running
  <2>6. ASSUME config.mode # "OFF"
        PROVE  eng' = e /\ Served(e, table.held, config.mode)
                 /\ (Running => Ordered(e, config.mode))
    <3>1. /\ eng.native = {} /\ Carried(eng, table.held) /\ Overlapped(eng, config.mode)
          /\ Running => Ordered(eng, config.mode)
          /\ table.held \in SUBSET Keys
      BY <1>1, <2>6 DEF NewestInv, Served, EngineTyped
    <3>2. /\ Works(eng, e, AxisOf(k)) /\ Overlapped(e, config.mode)
          /\ route /\ Ordered(eng, config.mode) => Ordered(e, config.mode)
      <4>1. CASE event.down
        <5>1. k \notin eng.phys
          BY <1>8, <4>1
        <5>2. c.mode # "OFF" /\ c.target \in Identity /\ Overlapped(eng, c.mode)
          BY <1>1, <2>1, <2>6, <3>1
        <5>3. /\ Works(eng, d, AxisOf(k)) /\ Overlapped(d, c.mode)
              /\ route /\ Ordered(eng, c.mode) => Ordered(d, c.mode)
          BY <1>1, <1>5, <5>1, <5>2, KeyDownOrdered DEF d
        <5> QED BY <2>1, <4>1, <5>3
      <4>2. CASE ~event.down
        <5>1. c.travel \in AxisOf(k) \union {NoKey}
          BY <1>2, <2>1, <4>2
        <5>2. c.mode # "OFF" /\ c.target \in Identity /\ Overlapped(eng, c.mode)
          BY <1>1, <2>1, <2>6, <3>1
        <5>3. /\ Works(eng, u, AxisOf(k)) /\ Overlapped(u, c.mode)
              /\ route /\ Ordered(eng, c.mode) => Ordered(u, c.mode)
          BY <1>1, <1>5, <5>1, <5>2, KeyUpOrdered DEF u
        <5> QED BY <2>1, <4>2, <5>3
      <4> QED BY <4>1, <4>2
    <3> HIDE DEF e
    <3>3. Served(e, table.held, config.mode)
      BY <2>3, <2>6, <3>1, <3>2 DEF Served, Works, Follows
    <3>4. eng' = e
      BY <1>1, <2>2, <2>3, <3>3, SubmitServed
    <3> QED BY <1>5, <3>1, <3>2, <3>3, <3>4
  <2> HIDE DEF e
  <2>7. AllRouted' \/ ~Running'
    BY <1>6, <2>5
  <2> QED BY <1>3, <2>4, <2>5, <2>6, <2>7 DEF NewestInv
<1> QED BY <1>7, <1>8

\* A pause lets go of everything; a resume leaves the order to the rebuild.
LEMMA ToggleNewest ==
  ASSUME RInv, SteadyInv, NewestInv, OwnerFree, NEW posted, ToggleEngine(posted)
  PROVE  NewestInv'
<1>1. /\ EngineTyped /\ Typed(eng) /\ hooked /\ eng.out = <<>> /\ todo = "none"
      /\ eng \in EngineState /\ table.held \in SUBSET Keys
      /\ config.mode # "OFF" => Served(eng, table.held, config.mode)
  BY DEF RInv, RoutingTypes, EngineTyped, Typed, SteadyInv, Undisturbed, OwnerFree, Idle, NewestInv
<1>2. CASE ~eng.suspended
  <2> DEFINE p == [eng EXCEPT !.suspended = TRUE]
             e == Suspend(eng)
  <2>1. Submit(e, published) /\ UNCHANGED <<hookVars, focusVars, todo>>
    BY <1>2 DEF ToggleEngine
  <2>2. Typed(p) /\ p.out = <<>> /\ p.logical = eng.logical /\ p \in EngineState /\ p.suspended
        /\ e = LetGoOfAll(p)
    BY <1>1 DEF Typed, EngineState, LastIsOfAxis, Suspend
  <2> HIDE DEF p, e
  <2>3. /\ Typed(e) /\ e.suspended /\ e.native = {}
        /\ \A ax \in Axes : e.socd[ax] = NoTimer /\ e.axisState[ax] = {}
    <3>1. Typed(LetGoOfAll(p))
      BY <2>2, LetGoOfAllAlike, AlikeTyped DEF Identity
    <3> QED BY <2>2, <3>1, LetGoFields
  <2>4. ASSUME config.mode # "OFF" PROVE Served(e, table.held, config.mode)
    <3>1. Carried(p, table.held)
      BY <1>1, <2>2, <2>4 DEF Served, Carried
    <3>2. Carried(e, table.held)
      BY <1>1, <2>2, <3>1, LetGoCarries
    <3> QED BY <2>3, <3>2, NothingOrdered DEF Served
  <2>5. /\ config.mode # "OFF" => eng' = e
        /\ eng'.suspended /\ UNCHANGED <<table, config>>
    <3>1. Commit(e, table.held).suspended
      BY <2>3 DEF Commit, Typed, EngineState
    <3> QED BY <1>1, <2>1, <2>3, <2>4, <3>1, SubmitServed DEF Submit
  <2>6. ~Running' /\ todo' # "switch"
    BY <1>1, <2>1, <2>5 DEF Running
  <2> QED BY <2>4, <2>5, <2>6 DEF NewestInv
<1>3. CASE eng.suspended
  <2> DEFINE e == Resume(eng)
  <2>1. eng' = Commit(e, table.held) /\ todo' = "rebuild" /\ UNCHANGED <<table, config>>
    BY <1>3 DEF ToggleEngine, Reinstall, SteadyInv, Undisturbed
  <2>2. ASSUME config.mode # "OFF" PROVE eng' = e /\ Served(e, table.held, config.mode)
    <3>1. /\ e \in EngineState /\ e.out = <<>>
          /\ e.phys = eng.phys /\ e.last = eng.last /\ e.socd = eng.socd /\ e.expect = eng.expect
          /\ e.axisState = eng.axisState /\ e.logical = eng.logical /\ e.native = eng.native
      BY <1>1 DEF Resume, EngineState
    <3> HIDE DEF e
    <3>2. Served(e, table.held, config.mode)
      BY <1>1, <2>2, <3>1, SameOrder DEF Served, Carried
    <3> QED BY <1>1, <2>1, <3>1, <3>2, CommitServed
  <2>3. ~Running' /\ todo' # "switch"
    BY <2>1 DEF Running
  <2> HIDE DEF e
  <2> QED BY <2>1, <2>2, <2>3 DEF NewestInv
<1> QED BY <1>2, <1>3

\* The rebuild after a resume.
LEMMA RebuildNewest ==
  ASSUME RInv, NewestInv, Rebuild
  PROVE  NewestInv'
<1> DEFINE c == Situation(published, NoKey, {})
           e == RebuildState(eng, ledger, c)
<1>1. /\ EngineTyped /\ Typed(eng) /\ published \in Identity /\ eng.out = <<>>
      /\ ledger \in SUBSET Keys /\ table.held \in SUBSET Keys /\ c.mode = config.mode
      /\ config.mode # "OFF" => Served(eng, table.held, config.mode)
  BY DEF RInv, RoutingTypes, RoutingTypeOK, EngineTyped, Rebuild, Idle, NewestInv, Situation
<1>2. /\ routed = <<>> /\ Submit(e, published) /\ todo' = "none" /\ routed' = routed
  BY DEF Rebuild
<1> HIDE DEF c
<1>3. Typed(e)
  BY <1>1, RebuildTyped
<1>4. ASSUME config.mode # "OFF"
      PROVE  Served(e, table.held, config.mode) /\ Ordered(e, config.mode)
  <2>1. /\ eng.native = {} /\ Carried(eng, table.held) /\ Overlapped(eng, c.mode)
        /\ c.mode # "OFF"
    BY <1>1, <1>4 DEF Served
  <2>2. e.native = {} /\ Carried(e, table.held) /\ Overlapped(e, c.mode) /\ Ordered(e, c.mode)
    BY <1>1, <2>1, RebuildOrdered
  <2> QED BY <1>1, <2>2 DEF Served
<1> HIDE DEF e
<1>5. /\ config.mode # "OFF" => eng' = e
      /\ UNCHANGED <<table, config>>
  BY <1>1, <1>2, <1>3, <1>4, SubmitServed DEF Submit
<1>6. AllRouted' /\ todo' # "switch"
  BY <1>2 DEF AllRouted
<1> QED BY <1>4, <1>5, <1>6 DEF NewestInv

\* The mode changes while nothing is held and no timer of a conflict runs.
LEMMA ModeNewest ==
  ASSUME RInv, SteadyInv, NewestInv,
         PrepareModeChange \/ \E mode \in ModesAllowed : SwitchMode(mode)
  PROVE  NewestInv'
<1>1. /\ EngineTyped /\ Typed(eng) /\ eng \in EngineState /\ table.held \in SUBSET Keys
      /\ config \in Configs
      /\ config.mode # "OFF" => Served(eng, table.held, config.mode)
  BY DEF RInv, RoutingTypes, EngineTyped, Typed, NewestInv
<1>2. CASE PrepareModeChange /\ UNCHANGED vars /\ todo' = "none"
  <2>1. routed' = routed /\ routed = <<>> /\ todo = "mode"
    BY <1>2 DEF PrepareModeChange
  <2>2. AllRouted' /\ (Running' => Running)
    BY <1>2, <2>1 DEF AllRouted, Running, vars
  <2> QED BY <1>2, <2>2, NewestAlone
<1>3. CASE PrepareModeChange /\ eng.phys = {} /\ ClearHeldKeys(published) /\ todo' = "switch"
  <2> DEFINE e == LetGoOfAll(eng)
  <2>1. Submit(e, published) /\ eng.out = <<>> /\ routed' = routed /\ routed = <<>>
    BY <1>3 DEF PrepareModeChange, ClearHeldKeys, Idle
  <2>2. /\ Typed(e) /\ e.native = {} /\ e.phys = {}
        /\ \A ax \in Axes : e.socd[ax] = NoTimer /\ e.axisState[ax] = {}
    <3>1. Typed(e)
      BY <1>1, <2>1, LetGoOfAllAlike, AlikeTyped DEF Identity
    <3> QED BY <1>1, <1>3, <2>1, <3>1, LetGoFields
  <2>3. ASSUME config.mode # "OFF"
        PROVE  Served(e, table.held, config.mode) /\ Ordered(e, config.mode)
    <3>1. Carried(e, table.held)
      BY <1>1, <2>1, <2>3, LetGoCarries DEF Served
    <3> HIDE DEF e
    <3> QED BY <2>2, <3>1, NothingOrdered DEF Served
  <2> HIDE DEF e
  <2>4. /\ config.mode # "OFF" => eng' = e
        /\ UNCHANGED <<table, config>>
    BY <1>1, <2>1, <2>2, <2>3, SubmitServed DEF Submit
  <2>5. Cleared(eng')
    <3>1. Cleared(e) /\ e \in EngineState
      BY <2>2 DEF Cleared, Typed
    <3>2. Cleared(Commit(e, table.held))
      BY <3>1 DEF Cleared, Commit, EngineState
    <3> QED BY <2>1, <3>1, <3>2 DEF Submit
  <2>6. AllRouted'
    BY <2>1 DEF AllRouted
  <2> QED BY <2>3, <2>4, <2>5, <2>6 DEF NewestInv
<1>4. ASSUME NEW mode \in ModesAllowed, SwitchMode(mode)
      PROVE  NewestInv'
  <2>1. /\ todo = "switch" /\ todo' = "none" /\ Idle
        /\ UNCHANGED <<eng, table, routed>>
    BY <1>4 DEF SwitchMode
  <2>2. Cleared(eng) /\ eng.out = <<>> /\ (Running' => AllRouted')
    BY <2>1 DEF NewestInv, Idle, Running, AllRouted
  <2>3. eng.logical = table.held
    BY <1>1, <2>1, <2>2 DEF EngineTyped, Cleared
  <2>4. Carried(eng, table.held)
    BY <1>1, <2>2, <2>3, CarriedIdle
  <2>5. \A m : Served(eng, table.held, m) /\ Ordered(eng, m)
    BY <2>2, <2>4, NothingOrdered DEF Served, Cleared
  <2> QED BY <2>1, <2>2, <2>5 DEF NewestInv
<1> QED BY <1>2, <1>3, <1>4 DEF PrepareModeChange

\* An event of the batch is sent: what will be held stays the same.
LEMMA SendNewest ==
  ASSUME SteadyAssumption, RInv, SteadyInv, NewestInv, NEW ok \in Outcomes, SendOne(ok)
  PROVE  NewestInv'
<1> DEFINE after == SlotsAfter(TRUE)
           q == Tail(eng.out)
           rest == [eng EXCEPT !.out = q]
           h == Head(eng.out)
<1>1. /\ EngineTyped /\ ok = TRUE /\ ~Idle /\ eng \in EngineState /\ Undisturbed /\ Meant
      /\ table.held \in SUBSET Keys
  BY DEF RInv, RoutingTypes, EngineTyped, Typed, SteadyInv, SteadyAssumption, Outcomes,
         SendOne, FlushOne
<1>2. /\ table' = after /\ config' = config /\ Elsewhere
      /\ eng' = IF rest.out = <<>> THEN Commit(rest, after.held) ELSE rest
  BY <1>1 DEF SendOne, FlushOne, SlotsAfter
<1>3. /\ h.key \in Keys
      /\ after.held = IF h.down THEN table.held \union {h.key} ELSE table.held \ {h.key}
  BY <1>1, SentMine
<1> HIDE DEF after
<1>4. after.held \in SUBSET Keys
  BY <1>1, <1>3
<1>5. q \in Seq(EventSet) /\ eng.out \in Seq(EventSet) /\ eng.out # <<>>
  BY <1>1 DEF EngineState, EventSet, Idle
<1>6. Applied(table.held, eng.out) = Applied(after.held, q)
  <2>1. \A x \in EventSet : x.key \in Keys /\ x.down \in BOOLEAN
    BY DEF EventSet
  <2>2. Applied(table.held, eng.out) =
          Applied(IF h.down THEN table.held \union {h.key} ELSE table.held \ {h.key}, q)
    BY <1>1, <1>5, <2>1, TailApplied
  <2> QED BY <1>3, <2>2
<1> HIDE DEF q, h
<1>7. /\ rest \in EngineState /\ rest.out = q
      /\ rest.phys = eng.phys /\ rest.last = eng.last /\ rest.socd = eng.socd
      /\ rest.expect = eng.expect /\ rest.axisState = eng.axisState
      /\ rest.logical = eng.logical /\ rest.native = eng.native
      /\ rest.suspended = eng.suspended
  BY <1>1, <1>5 DEF EngineState, EventSet
<1> HIDE DEF rest
<1>8. /\ eng'.phys = eng.phys /\ eng'.native = eng.native /\ eng'.socd = eng.socd
      /\ eng'.axisState = eng.axisState /\ eng'.suspended = eng.suspended
  BY <1>2, <1>7 DEF Commit, EngineState
<1>9. ASSUME config.mode # "OFF"
      PROVE  /\ eng' = rest /\ Served(rest, after.held, config.mode)
             /\ Ordered(eng, config.mode) => Ordered(rest, config.mode)
  <2>1. Served(eng, table.held, config.mode)
    BY <1>9 DEF NewestInv
  <2>2. Carried(rest, after.held)
    BY <1>6, <1>7, <2>1 DEF Served, Carried
  <2>3. /\ Overlapped(rest, config.mode)
        /\ Ordered(eng, config.mode) => Ordered(rest, config.mode)
    BY <1>7, <2>1, SameOrder DEF Served
  <2>4. Served(rest, after.held, config.mode)
    BY <1>7, <2>1, <2>2, <2>3 DEF Served
  <2>5. rest.out = <<>> => Commit(rest, after.held) = rest
    BY <1>4, <1>7, <2>4, CommitServed
  <2> QED BY <1>2, <2>3, <2>4, <2>5
<1>10. Running' = Running /\ AllRouted' = AllRouted /\ todo' = todo
  BY <1>2, <1>8 DEF Elsewhere, Running, AllRouted
<1>11. todo' = "switch" => Cleared(eng')
  BY <1>8, <1>10 DEF NewestInv, Cleared
<1>12. /\ config'.mode # "OFF" => Served(eng', table'.held, config'.mode)
       /\ config'.mode # "OFF" /\ Running' => Ordered(eng', config'.mode)
  BY <1>2, <1>9, <1>10 DEF NewestInv
<1> QED BY <1>10, <1>11, <1>12 DEF NewestInv

\* Timers expire.
LEMMA TimerNewest ==
  ASSUME RInv, SteadyInv, NewestInv,
         (\E k \in Keys : FireTimer(k)) \/ DrainExpired \/ PumpReleases
  PROVE  NewestInv'
<1>1. /\ EngineTyped /\ Typed(eng) /\ eng \in EngineState /\ published \in Identity
      /\ table.held \in SUBSET Keys /\ table.pending = {}
      /\ config.mode # "OFF" => Served(eng, table.held, config.mode)
  BY DEF RInv, RoutingTypes, EngineTyped, Typed, SteadyInv, Meant, Mine, NewestInv
\* Only the timer service's own state changes.
<1>2. ASSUME NEW e, e.phys = eng.phys, e.last = eng.last, e.socd = eng.socd,
             e.expect = eng.expect, e.axisState = eng.axisState, e.logical = eng.logical,
             e.native = eng.native, e.out = eng.out, config.mode # "OFF"
      PROVE  /\ Served(e, table.held, config.mode)
             /\ Ordered(eng, config.mode) => Ordered(e, config.mode)
  BY <1>1, <1>2, SameOrder DEF Served, Carried
<1>3. ASSUME NEW e, e.phys = eng.phys, e.last = eng.last, e.socd = eng.socd,
             e.expect = eng.expect, e.axisState = eng.axisState, e.logical = eng.logical,
             e.native = eng.native, e.out = eng.out, e.suspended = eng.suspended, eng' = e,
             UNCHANGED <<table, config>>, Elsewhere
      PROVE  NewestInv'
  <2>1. Running' = Running /\ AllRouted' = AllRouted /\ todo' = todo
    BY <1>3 DEF Elsewhere, Running, AllRouted
  <2>2. todo = "switch" => Cleared(e)
    BY <1>3 DEF NewestInv, Cleared
  <2>3. config.mode # "OFF" =>
          /\ Served(e, table.held, config.mode)
          /\ Ordered(eng, config.mode) => Ordered(e, config.mode)
    BY <1>2, <1>3
  <2> QED BY <1>3, <2>1, <2>2, <2>3 DEF NewestInv
<1>4. ASSUME NEW k \in Keys, FireTimer(k)
      PROVE  NewestInv'
  <2> DEFINE e == [eng EXCEPT !.armed[k] = NoTimer, !.expired = Append(@, <<k, eng.armed[k]>>)]
  <2>1. eng' = e /\ UNCHANGED <<table, config>> /\ Elsewhere
    BY <1>4 DEF FireTimer, TimerFire
  <2>2. /\ e.phys = eng.phys /\ e.last = eng.last /\ e.socd = eng.socd
        /\ e.expect = eng.expect /\ e.axisState = eng.axisState /\ e.logical = eng.logical
        /\ e.native = eng.native /\ e.out = eng.out /\ e.suspended = eng.suspended
    BY <1>1 DEF EngineState
  <2> HIDE DEF e
  <2> QED BY <1>3, <2>1, <2>2
<1>5. CASE DrainExpired
  <2> DEFINE k  == Head(eng.expired)[1]
             id == Head(eng.expired)[2]
             t  == eng.expectTarget[k]
             c  == Situation(t, NoKey, {})
             e  == Rest(eng)
             r  == OnTimerExpired(e, k, id, c)
  <2>1. /\ Idle /\ eng.expired # <<>> /\ todo = "none" /\ Elsewhere
        /\ IF IsExpected(eng, k, id) THEN Submit(r, t)
           ELSE eng' = e /\ UNCHANGED <<table, batchTarget, config, foreground, published>>
        /\ c.mode = config.mode
    BY <1>5 DEF DrainExpired, DrainTimer, Rest, Situation
  <2>2. Head(eng.expired) \in Keys \X TimerIds
    BY <1>1, <2>1, HeadTailProperties DEF EngineState
  <2>3. k \in Keys /\ id \in TimerIds /\ id # NoTimer
    BY <2>2, TimerAssumption
  <2> HIDE DEF k, id, c
  <2>4. /\ Typed(e) /\ e.phys = eng.phys /\ e.last = eng.last /\ e.socd = eng.socd
        /\ e.expect = eng.expect /\ e.axisState = eng.axisState /\ e.logical = eng.logical
        /\ e.native = eng.native /\ e.out = eng.out /\ e.suspended = eng.suspended
    <3> DEFINE q == Tail(eng.expired)
    <3>1. q \in Seq(Keys \X TimerIds) /\ Len(q) <= MaxExpired
      <4>1. eng.expired \in Seq(Keys \X TimerIds) /\ Len(eng.expired) <= MaxExpired
        BY <1>1 DEF Typed, EngineState
      <4> QED BY <2>1, <4>1, EngineAssumption
    <3>2. e = [eng EXCEPT !.expired = q]
      BY DEF Rest
    <3> HIDE DEF q, e
    <3> QED BY <1>1, <3>1, <3>2 DEF Typed, EngineState, LastIsOfAxis
  <2> HIDE DEF e
  <2>5. CASE IsExpected(eng, k, id)
    <3>1. Alike(e, r, published) /\ Typed(r)
      BY <1>1, <2>3, <2>4, OnTimerExpiredAlike, AlikeTyped
    <3>2. ASSUME config.mode # "OFF"
          PROVE  /\ Served(r, table.held, config.mode)
                 /\ ~eng.suspended /\ Ordered(eng, config.mode) => Ordered(r, config.mode)
      <4>1. /\ Served(e, table.held, config.mode)
            /\ Ordered(eng, config.mode) => Ordered(e, config.mode)
        BY <1>2, <2>4, <3>2
      <4>2. Step(k, Opposite[k])
        BY <2>3, Axis
      <4>3. e.expect[k] = id /\ c.mode # "OFF" /\ Overlapped(e, c.mode)
        BY <2>1, <2>4, <2>5, <3>2, <4>1 DEF IsExpected, Served
      <4>4. /\ Works(e, r, AxisOf(k)) /\ Overlapped(r, c.mode)
            /\ ~e.suspended /\ Ordered(e, c.mode) => Ordered(r, c.mode)
        BY <2>3, <2>4, <4>2, <4>3, TimerOrdered
      <4> HIDE DEF r
      <4>5. Served(r, table.held, config.mode)
        BY <1>1, <2>1, <3>1, <4>1, <4>4 DEF Served, Works, Follows, Alike
      <4> QED BY <2>1, <2>4, <4>1, <4>4, <4>5
    <3> HIDE DEF r
    <3>3. /\ config.mode # "OFF" => eng' = r
          /\ eng'.suspended = eng.suspended /\ UNCHANGED <<table, config>>
      <4>1. Commit(r, table.held).suspended = r.suspended /\ r.suspended = eng.suspended
        BY <2>4, <3>1 DEF Commit, Alike, EngineState
      <4> QED BY <1>1, <2>1, <2>5, <3>1, <3>2, <4>1, SubmitServed DEF Submit
    <3>4. Running' = Running /\ AllRouted' = AllRouted /\ todo' = "none"
      BY <2>1, <3>3 DEF Elsewhere, Running, AllRouted
    <3>5. Running => ~eng.suspended
      BY DEF Running
    <3> QED BY <3>2, <3>3, <3>4, <3>5 DEF NewestInv
  <2>6. CASE ~IsExpected(eng, k, id)
    BY <1>3, <2>1, <2>4, <2>6
  <2> QED BY <2>5, <2>6
<1>6. ~PumpReleases
  BY <1>1 DEF PumpReleases, PumpSomething, Pump
<1> QED BY <1>4, <1>5, <1>6

\* The invariant holds of the start.
LEMMA NewestInit ==
  RoutingInit => NewestInv
<1> SUFFICES ASSUME RoutingInit PROVE NewestInv
  OBVIOUS
<1>1. /\ eng = InitialEngine(Favourite) /\ table = EmptyTable /\ routed = <<>> /\ todo = "none"
  BY DEF RoutingInit, Init
<1>2. table.held = {}
  BY <1>1 DEF EmptyTable
<1>3. /\ eng.out = <<>> /\ eng.logical = {} /\ eng.native = {} /\ eng.phys = {}
      /\ \A ax \in Axes : eng.socd[ax] = NoTimer /\ eng.axisState[ax] = {}
  BY <1>1 DEF InitialEngine
<1>4. Carried(eng, table.held)
  BY <1>2, <1>3, CarriedIdle
<1>5. AllRouted
  BY <1>1 DEF AllRouted
<1> QED BY <1>1, <1>3, <1>4, <1>5, NothingOrdered DEF NewestInv, Served

\* Every step of the specification keeps it.
LEMMA NewestStep ==
  ASSUME SteadyAssumption
  PROVE  RInv /\ SteadyInv /\ NewestInv /\ [RoutingNext]_allVars => NewestInv'
<1> SUFFICES ASSUME RInv, SteadyInv, NewestInv, [RoutingNext]_allVars PROVE NewestInv'
  OBVIOUS
<1>1. ASSUME NEW k \in PlayerKeys, HookKey(k) PROVE NewestInv'
  BY <1>1, HookKeyNewest
<1>2. CASE \/ \E k \in PlayerKeys : RepeatKey(k) \/ StaleEdge(k) \/ NativeKey(k)
           \/ \E t \in Identity : Focus(t)
           \/ WinEvent \/ Resolve \/ PressF6 \/ ModeRequest \/ InstallHook \/ InstallPoll
           \/ RoutedInputReady \/ RouteMore \/ EndDrain
           \/ LoseFocus \/ RegainFocus \/ KeepFocus \/ EmergencyUnhook
           \/ UNCHANGED allVars
  <2>1. /\ UNCHANGED <<vars, routed>>
        /\ todo' \in {"switch", "rebuild"} => todo' = todo
        /\ todo = "rebuild" => todo' = todo
    BY <1>2, AloneLeaves
  <2>2. Running' => Running
    BY <2>1 DEF Running, vars
  <2>3. Running => AllRouted'
    BY <2>1 DEF NewestInv, AllRouted
  <2> QED BY <2>1, <2>2, <2>3, NewestAlone
<1>3. CASE ToggleSuspendSent \/ ToggleSuspendPosted
  BY <1>3, ToggleNewest DEF ToggleSuspendSent, ToggleSuspendPosted
<1>4. CASE Route
  BY <1>4, RouteNewest
<1>5. CASE Rebuild
  BY <1>5, RebuildNewest
<1>6. CASE PrepareModeChange \/ \E mode \in ModesAllowed : SwitchMode(mode)
  BY <1>6, ModeNewest
<1>7. ASSUME NEW ok \in Outcomes, SendOne(ok) PROVE NewestInv'
  BY <1>7, SendNewest
<1>8. CASE (\E k \in Keys : FireTimer(k)) \/ DrainExpired \/ PumpReleases
  BY <1>8, TimerNewest
<1> QED BY <1>1, <1>2, <1>3, <1>4, <1>5, <1>6, <1>7, <1>8 DEF RoutingNext, OwnerStep

(* Outside OFF, between two messages and with no batch under way, the      *)
(* boundary holds the newest of the physical keys of each axis, and in     *)
(* FULL that one only, as long as the target stays in front and no event   *)
(* is refused or lost (input_router.cpp, state_reconciliation.cpp).        *)
THEOREM RoutingNewestKeyWinsRouted ==
  ASSUME SteadyAssumption
  PROVE  RoutingSpec => []NewestKeyWinsRouted
<1>1. RoutingInit => SteadyInv /\ NewestInv
  BY SteadyInit, NewestInit
<1>2. RInv /\ SteadyInv /\ NewestInv /\ [RoutingNext]_allVars => (SteadyInv /\ NewestInv)'
  BY SteadyStep, NewestStep
<1>3. RInv /\ NewestInv => NewestKeyWinsRouted
  <2> SUFFICES ASSUME RInv, NewestInv, OwnerFree, ~eng.suspended, config.mode # "OFF", NEW ax \in Axes
               PROVE  LET pressed == ax \intersect eng.phys
                          down_   == ax \intersect table.held
                      IN  /\ pressed # {} => pressed \intersect down_ # {}
                          /\ pressed = ax => eng.last[ax] \in down_
                          /\ pressed = ax /\ config.mode = "FULL" => down_ = {eng.last[ax]}
    BY DEF NewestKeyWinsRouted, NewestKeyWins
  <2>1. /\ Ordered(eng, config.mode) /\ Typed(eng) /\ eng.out = <<>> /\ table.held \in SUBSET Keys
        /\ Carried(eng, table.held)
    BY DEF NewestInv, Served, Running, OwnerFree, Idle, RInv, RoutingTypes, EngineTyped
  <2>2. eng.logical = table.held
    BY <2>1, CarriedIdle
  <2>3. PICK k \in Keys : ax = AxisOf(k)
    BY DEF Axes
  <2> DEFINE o == Opposite[k]
  <2>4. Step(k, o)
    BY Axis
  <2>5. /\ o \in Keys /\ ax = {k, o} /\ AxisOf(o) = ax /\ k # o /\ k = Opposite[o] /\ o = Opposite[k]
    BY <2>3, <2>4 DEF Step
  <2> HIDE DEF o
  <2>6. InOrder(eng, config.mode, k) /\ InOrder(eng, config.mode, o) /\ eng.last[ax] \in {k, o}
    BY <2>1, <2>3, <2>5 DEF Ordered, Typed, LastIsOfAxis
  <2>7. /\ k \in eng.phys => k \in table.held \/ (o \in eng.phys /\ o \in table.held)
        /\ o \in eng.phys => o \in table.held \/ (k \in eng.phys /\ k \in table.held)
        /\ k \in eng.phys /\ o \in eng.phys =>
             /\ eng.last[ax] \in table.held
             /\ config.mode = "FULL" => ax \intersect table.held = {eng.last[ax]}
    BY <2>2, <2>3, <2>5, <2>6 DEF InOrder
  <2>8. ax \intersect eng.phys = ax <=> k \in eng.phys /\ o \in eng.phys
    BY <2>5
  <2>9. ax \intersect eng.phys # {} <=> k \in eng.phys \/ o \in eng.phys
    BY <2>5
  <2>10. (\E j \in {k, o} : j \in table.held /\ j \in eng.phys) =>
           (ax \intersect eng.phys) \intersect (ax \intersect table.held) # {}
    BY <2>5
  <2>11. k \in eng.phys /\ o \in eng.phys => eng.last[ax] \in ax \intersect table.held
    BY <2>5, <2>6, <2>7
  <2> QED BY <2>7, <2>8, <2>9, <2>10, <2>11
<1> QED BY <1>1, <1>2, <1>3, RoutingInvariant, PTL DEF RoutingSpec

-----------------------------------------------------------------------------
(* Outside OFF: behind every logical key there is a held key or a timer.   *)

\* Every timer waited for comes, but for Y; every key down is held or waits for
\* its timer, but for X.
Reasons(e, X, Y) ==
  \A j \in Keys :
    /\ j \notin Y => ExpectedComes(e, j)
    /\ j \in e.logical /\ j \notin X => j \in e.phys \/ e.expect[j] # NoTimer

\* A key that is held, or waits for its timer, is no exception.
LEMMA ReasonFound ==
  ASSUME NEW e, NEW X, NEW Y, Reasons(e, X, Y), NEW Z,
         \A j \in Keys : j \in X /\ j \notin Z => j \in e.phys \/ e.expect[j] # NoTimer
  PROVE  Reasons(e, Z, Y)
BY DEF Reasons

\* Steps on one key that leave the timers of the others and the held keys alone.
LEMMA ReasonsOnKey ==
  ASSUME NEW e, NEW X, NEW Y, Reasons(e, X, Y), NEW r, NEW k \in Keys, NEW W, NEW Z,
         r.phys = e.phys, r.expired = e.expired,
         \A j \in Keys : j # k => /\ r.expect[j] = e.expect[j] /\ r.armed[j] = e.armed[j]
                                  /\ j \in r.logical => j \in e.logical
                                  /\ j \in X => j \in W
                                  /\ j \in Y => j \in Z,
         k \notin Z => ExpectedComes(r, k),
         k \in r.logical /\ k \notin W => k \in r.phys \/ r.expect[k] # NoTimer
  PROVE  Reasons(r, W, Z)
<1> SUFFICES ASSUME NEW j \in Keys
             PROVE  /\ j \notin Z => ExpectedComes(r, j)
                    /\ j \in r.logical /\ j \notin W => j \in r.phys \/ r.expect[j] # NoTimer
  BY DEF Reasons
<1>1. CASE j = k
  BY <1>1
<1>2. CASE j # k
  <2>1. j \notin Z => ExpectedComes(r, j)
    <3> SUFFICES ASSUME j \notin Z PROVE ExpectedComes(r, j)
      OBVIOUS
    <3>1. ExpectedComes(e, j)
      BY <1>2 DEF Reasons
    <3> QED BY <1>2, <3>1, StillComes
  <2> QED BY <1>2, <2>1 DEF Reasons
<1> QED BY <1>1, <1>2

\* A press, a release.
LEMMA EventsReason ==
  ASSUME NEW e, Typed(e), NEW k \in Keys, NEW X, NEW Y, Reasons(e, X, Y)
  PROVE  /\ Reasons(PressIfUp(e, k), X \union {k}, Y)
         /\ k \in e.phys => Reasons(PressIfUp(e, k), X, Y)
         /\ Reasons(ReleaseIfDown(e, k), X \ {k}, Y)
<1>1. e \in EngineState
  BY DEF Typed
<1>2. /\ Reasons(PressIfUp(e, k), X \union {k}, Y)
      /\ k \in e.phys => Reasons(PressIfUp(e, k), X, Y)
  <2> DEFINE r == PressIfUp(e, k)
  <2>1. /\ r.phys = e.phys /\ r.expired = e.expired /\ r.expect = e.expect /\ r.armed = e.armed
        /\ r.logical = e.logical \union {k}
    BY <1>1, PressFields
  <2> HIDE DEF r
  <2>2. k \notin Y => ExpectedComes(r, k)
    BY <2>1, StillComes DEF Reasons
  <2>3. Reasons(r, X \union {k}, Y)
    BY <2>1, <2>2, ReasonsOnKey
  <2>4. k \in e.phys => Reasons(r, X, Y)
    BY <2>1, <2>3, ReasonFound
  <2> QED BY <2>3, <2>4 DEF r
<1>3. Reasons(ReleaseIfDown(e, k), X \ {k}, Y)
  <2> DEFINE r == ReleaseIfDown(e, k)
  <2>1. /\ r.phys = e.phys /\ r.expired = e.expired /\ r.expect = e.expect /\ r.armed = e.armed
        /\ r.logical = e.logical \ {k}
    BY <1>1, ReleaseFields
  <2> HIDE DEF r
  <2>2. k \notin Y => ExpectedComes(r, k)
    BY <2>1, StillComes DEF Reasons
  <2>3. Reasons(r, X \ {k}, Y)
    BY <2>1, <2>2, ReasonsOnKey
  <2> QED BY <2>3 DEF r
<1> QED BY <1>2, <1>3

\* A timer is dropped, armed, or waited for.
LEMMA TimersReason ==
  ASSUME NEW e, Typed(e), NEW k \in Keys, NEW t \in Identity, NEW X, NEW Y, Reasons(e, X, Y)
  PROVE  /\ Reasons(StopExpecting(e, k), X \union {k}, Y)
         /\ Reasons([e EXCEPT !.expect[k] = NoTimer], X \union {k}, Y)
         /\ Reasons(ScheduleTimer(e, k), X, Y \union {k})
         /\ e.armed[k] # NoTimer => Reasons(Expect(e, k, t), X \ {k}, Y \ {k})
<1>1. e \in EngineState /\ Len(e.expired) <= MaxExpired
  BY DEF Typed
<1>2. Reasons(StopExpecting(e, k), X \union {k}, Y)
  <2> DEFINE r == StopExpecting(e, k)
  <2>1. /\ r.phys = e.phys /\ r.expired = e.expired /\ r.logical = e.logical
        /\ \A j \in Keys : /\ r.expect[j] = IF j = k THEN NoTimer ELSE e.expect[j]
                           /\ r.armed[j] = IF j = k THEN NoTimer ELSE e.armed[j]
    BY <1>1, StopFields
  <2> HIDE DEF r
  <2>2. ExpectedComes(r, k)
    BY <2>1 DEF ExpectedComes
  <2>3. Reasons(r, X \union {k}, Y)
    BY <2>1, <2>2, ReasonsOnKey
  <2> QED BY <2>3 DEF r
<1>3. Reasons([e EXCEPT !.expect[k] = NoTimer], X \union {k}, Y)
  <2> DEFINE r == [e EXCEPT !.expect[k] = NoTimer]
  <2>1. /\ r.phys = e.phys /\ r.expired = e.expired /\ r.logical = e.logical /\ r.armed = e.armed
        /\ \A j \in Keys : r.expect[j] = IF j = k THEN NoTimer ELSE e.expect[j]
    BY <1>1 DEF EngineState
  <2> HIDE DEF r
  <2>2. ExpectedComes(r, k)
    BY <2>1 DEF ExpectedComes
  <2>3. Reasons(r, X \union {k}, Y)
    BY <2>1, <2>2, ReasonsOnKey
  <2> QED BY <2>3 DEF r
<1>4. Reasons(ScheduleTimer(e, k), X, Y \union {k})
  <2> DEFINE r == ScheduleTimer(e, k)
  <2>1. /\ r.phys = e.phys /\ r.expired = e.expired /\ r.logical = e.logical
        /\ r.expect = e.expect /\ \A j \in Keys : j # k => r.armed[j] = e.armed[j]
    BY <1>1, ScheduleFields
  <2> HIDE DEF r
  <2>2. k \in r.logical /\ k \notin X => k \in r.phys \/ r.expect[k] # NoTimer
    BY <2>1 DEF Reasons
  <2>3. Reasons(r, X, Y \union {k})
    BY <2>1, <2>2, ReasonsOnKey
  <2> QED BY <2>3 DEF r
<1>5. ASSUME e.armed[k] # NoTimer PROVE Reasons(Expect(e, k, t), X \ {k}, Y \ {k})
  <2> DEFINE r == Expect(e, k, t)
  <2>1. /\ r.phys = e.phys /\ r.expired = e.expired /\ r.logical = e.logical /\ r.armed = e.armed
        /\ \A j \in Keys : r.expect[j] = IF j = k THEN e.armed[k] ELSE e.expect[j]
    BY <1>1, ExpectFields
  <2> HIDE DEF r
  <2>2. ExpectedComes(r, k)
    BY <2>1 DEF ExpectedComes
  <2>3. r.expect[k] # NoTimer
    BY <1>5, <2>1
  <2>4. Reasons(r, X \ {k}, Y \ {k})
    BY <2>1, <2>2, <2>3, ReasonsOnKey
  <2> QED BY <2>4 DEF r
<1> QED BY <1>2, <1>3, <1>4, <1>5

\* The timers of an axis go: that of an overlap, of which both keys are held, or
\* all of two held keys.
LEMMA AxisReasons ==
  ASSUME NEW e, Typed(e), NEW k \in Keys, NEW X, NEW Y, Reasons(e, X, Y)
  PROVE  LET ax == AxisOf(k)
         IN  /\ (e.socd[ax] # NoTimer => ax \subseteq e.phys) =>
                  Reasons(CancelSocdTransition(e, ax), X, Y)
             /\ ax \subseteq e.phys => Reasons(DisarmAll(e, ax), X, Y)
<1> DEFINE ax == AxisOf(k)
<1>1. e \in EngineState /\ ax \in SUBSET Keys
  BY AxisFacts DEF Typed
<1>2. ASSUME e.socd[ax] # NoTimer => ax \subseteq e.phys
      PROVE  Reasons(CancelSocdTransition(e, ax), X, Y)
  <2> DEFINE r == CancelSocdTransition(e, ax)
  <2>1. /\ r.phys = e.phys /\ r.expired = e.expired /\ r.logical = e.logical
        /\ \A j \in Keys :
             LET hit == j \in ax /\ e.socd[ax] # NoTimer /\ e.expect[j] = e.socd[ax]
             IN  /\ r.expect[j] = IF hit THEN NoTimer ELSE e.expect[j]
                 /\ r.armed[j] = IF hit THEN NoTimer ELSE e.armed[j]
    BY <1>1, CancelFields
  <2> HIDE DEF r, ax
  <2>2. ASSUME NEW j \in Keys
        PROVE  /\ j \notin Y => ExpectedComes(r, j)
               /\ j \in r.logical /\ j \notin X => j \in r.phys \/ r.expect[j] # NoTimer
    <3>1. CASE j \in ax /\ e.socd[ax] # NoTimer /\ e.expect[j] = e.socd[ax]
      BY <1>2, <2>1, <3>1 DEF ExpectedComes
    <3>2. CASE ~(j \in ax /\ e.socd[ax] # NoTimer /\ e.expect[j] = e.socd[ax])
      <4>1. r.expect[j] = e.expect[j] /\ r.armed[j] = e.armed[j]
        BY <2>1, <3>2
      <4> QED BY <2>1, <4>1, StillComes DEF Reasons
    <3> QED BY <3>1, <3>2
  <2>3. Reasons(r, X, Y)
    BY <2>2 DEF Reasons
  <2> QED BY <2>3 DEF r
<1>3. ASSUME ax \subseteq e.phys PROVE Reasons(DisarmAll(e, ax), X, Y)
  <2> DEFINE r == DisarmAll(e, ax)
  <2>1. /\ r.phys = e.phys /\ r.expired = e.expired /\ r.logical = e.logical
        /\ \A j \in Keys : /\ r.expect[j] = IF j \in ax THEN NoTimer ELSE e.expect[j]
                           /\ r.armed[j] = IF j \in ax THEN NoTimer ELSE e.armed[j]
    BY <1>1, DisarmFields
  <2> HIDE DEF r, ax
  <2>2. ASSUME NEW j \in Keys
        PROVE  /\ j \notin Y => ExpectedComes(r, j)
               /\ j \in r.logical /\ j \notin X => j \in r.phys \/ r.expect[j] # NoTimer
    <3>1. CASE j \in ax
      BY <1>3, <2>1, <3>1 DEF ExpectedComes
    <3>2. CASE j \notin ax
      <4>1. r.expect[j] = e.expect[j] /\ r.armed[j] = e.armed[j]
        BY <2>1, <3>2
      <4> QED BY <2>1, <4>1, StillComes DEF Reasons
    <3> QED BY <3>1, <3>2
  <2>3. Reasons(r, X, Y)
    BY <2>2 DEF Reasons
  <2> QED BY <2>3 DEF r
<1> QED BY <1>2, <1>3

\* Only these fields matter.
LEMMA SameReasons ==
  ASSUME NEW e, NEW X, NEW Y, Reasons(e, X, Y), NEW r, r.phys = e.phys,
         r.logical = e.logical, r.expect = e.expect, r.armed = e.armed, r.expired = e.expired
  PROVE  Reasons(r, X, Y)
BY DEF Reasons, ExpectedComes

\* ResolveConflict: both keys are held.
LEMMA ConflictReasons ==
  ASSUME NEW e, Typed(e), NEW k \in Keys, AxisOf(k) \subseteq e.phys, NEW press,
         NEW c, c.target \in Identity, c.mode # "OFF", NEW X, Reasons(e, X, {})
  PROVE  Reasons(ResolveConflict(e, AxisOf(k), press, c), X, {})
<1> DEFINE ax == AxisOf(k)
           t == c.target
           winner == e.last[ax]
           loser == Opposite[winner]
           idle == DisarmAll(e, ax)
           timed == ScheduleTimer(idle, loser)
           x == Expect(timed, loser, t)
           kept == [x EXCEPT !.socd[ax] = timed.armed[loser]]
           freed == ReleaseIfDown(idle, loser)
<1>1. winner \in Keys /\ loser \in Keys /\ winner \in e.phys /\ ax \in Axes
  BY AxisFacts DEF Typed, LastIsOfAxis
<1>2. Alike(e, idle, t) /\ Typed(idle) /\ Reasons(idle, X, {})
  <2>1. Alike(e, idle, t)
    BY StepsAlike
  <2>2. Reasons(idle, X, {})
    BY AxisReasons
  <2> QED BY <2>1, <2>2, AlikeTyped
<1>3. idle.phys = e.phys
  BY <1>2 DEF Alike
<1> HIDE DEF idle, winner, loser
<1>4. Typed(freed) /\ freed.phys = e.phys /\ Reasons(freed, X, {})
  <2>1. Alike(idle, freed, t)
    BY <1>1, <1>2, StepsAlike
  <2>2. Reasons(freed, X \ {loser}, {})
    BY <1>1, <1>2, EventsReason
  <2>3. Reasons(freed, X, {})
    BY <2>2, ReasonFound
  <2> HIDE DEF freed
  <2> QED BY <1>2, <1>3, <2>1, <2>3, AlikeTyped DEF Alike
<1> HIDE DEF freed
<1>5. /\ Alike(idle, timed, t) /\ Typed(timed) /\ timed.armed[loser] # NoTimer
      /\ timed.armed[loser] \in TimerRef
      /\ Reasons(timed, X, {loser})
  <2>1. Alike(idle, timed, t)
    BY <1>1, <1>2, StepsAlike
  <2>2. Reasons(timed, X, {} \union {loser})
    BY <1>1, <1>2, TimersReason
  <2>3. timed.armed[loser] # NoTimer /\ timed.armed[loser] \in TimerRef
    BY <1>1, <1>2, ScheduleFields DEF Typed, TimerRef
  <2>4. {} \union {loser} = {loser}
    OBVIOUS
  <2> HIDE DEF timed
  <2> QED BY <1>2, <2>1, <2>2, <2>3, <2>4, AlikeTyped
<1> HIDE DEF timed
<1>6. Alike(timed, x, t) /\ Typed(x) /\ Reasons(x, X, {})
  <2>1. Alike(timed, x, t)
    BY <1>1, <1>5, StepsAlike
  <2>2. Reasons(x, X \ {loser}, {loser} \ {loser})
    BY <1>1, <1>5, TimersReason
  <2>3. {loser} \ {loser} = {}
    OBVIOUS
  <2>4. Reasons(x, X \ {loser}, {})
    BY <2>2, <2>3
  <2>5. Reasons(x, X, {})
    BY <2>4, ReasonFound
  <2> HIDE DEF x
  <2> QED BY <1>5, <2>1, <2>5, AlikeTyped
<1>7. x.phys = e.phys
  BY <1>3, <1>5, <1>6 DEF Alike
<1> HIDE DEF x
<1>8. /\ Typed(kept) /\ kept.phys = e.phys /\ kept.logical = x.logical /\ kept.expect = x.expect
      /\ kept.armed = x.armed /\ kept.expired = x.expired
  BY <1>1, <1>5, <1>6, <1>7 DEF Typed, EngineState, LastIsOfAxis
<1> HIDE DEF kept
<1>9. Reasons(kept, X, {})
  BY <1>6, <1>7, <1>8, SameReasons
<1>10. Reasons(PressIfUp(kept, winner), X, {})
  BY <1>1, <1>8, <1>9, EventsReason
<1>11. Reasons(PressIfUp(freed, winner), X, {})
  BY <1>1, <1>4, EventsReason
<1> QED BY <1>10, <1>11 DEF ResolveConflict, idle, winner, loser, timed, x, kept, freed

\* ResolveAxis, when an overlap runs only while both keys are held.
LEMMA ResolveAxisReasons ==
  ASSUME NEW e, Typed(e), NEW k \in Keys, e.socd[AxisOf(k)] # NoTimer => AxisOf(k) \subseteq e.phys,
         NEW press \in BOOLEAN, NEW c, c.target \in Identity, c.mode # "OFF",
         NEW X, Reasons(e, X, {})
  PROVE  Reasons(ResolveAxis(e, AxisOf(k), press, c), X, {})
<1> DEFINE ax == AxisOf(k)
           t == c.target
           d == CancelSocdTransition(e, ax)
           now == e.phys \intersect ax
           moved == [d EXCEPT !.axisState[ax] = now]
           only == CHOOSE j \in now : TRUE
           opp == Opposite[only]
           stopped == StopExpecting(moved, opp)
           r == ResolveAxis(e, ax, press, c)
<1>1. ax \in Axes /\ ax \subseteq Keys /\ e \in EngineState
  BY AxisFacts DEF Typed
<1>2. Alike(e, d, t) /\ Typed(d) /\ Reasons(d, X, {})
  <2>1. Alike(e, d, t)
    BY StepsAlike
  <2>2. Reasons(d, X, {})
    BY AxisReasons
  <2> QED BY <2>1, <2>2, AlikeTyped
<1>3. d.phys = e.phys
  BY <1>2 DEF Alike
<1> HIDE DEF d
<1>4. now \in SUBSET Keys /\ now \subseteq e.phys
  BY <1>1
<1>5. now = ax => ax \subseteq e.phys
  OBVIOUS
<1> HIDE DEF now
<1>6. /\ Typed(moved) /\ moved.phys = e.phys /\ moved.logical = d.logical
      /\ moved.expect = d.expect /\ moved.armed = d.armed /\ moved.expired = d.expired
  BY <1>1, <1>2, <1>3, <1>4 DEF Typed, EngineState, LastIsOfAxis
<1>7. r = CASE now = e.axisState[ax] /\ ~(press /\ now = ax) -> e
            [] ~(now = e.axisState[ax] /\ ~(press /\ now = ax)) ->
                 CASE now = ax -> ResolveConflict(moved, ax, press, c)
                   [] now = {} -> moved
                   [] now \notin {ax, {}} /\ e.axisState[ax] = ax -> Engage(moved, only, c)
                   [] now \notin {ax, {}} /\ e.axisState[ax] # ax ->
                        CancelStaleCounterStrafe(moved, opp)
  BY DEF ResolveAxis, moved, now, d
<1> HIDE DEF moved
<1>8. Reasons(moved, X, {})
  BY <1>2, <1>3, <1>6, SameReasons
<1>9. now = ax => Reasons(ResolveConflict(moved, ax, press, c), X, {})
  BY <1>5, <1>6, <1>8, ConflictReasons
<1>10. ASSUME now # {}
       PROVE  /\ Reasons(Engage(moved, only, c), X, {})
              /\ Reasons(CancelStaleCounterStrafe(moved, opp), X, {})
  <2>1. only \in Keys /\ opp \in Keys /\ only \in moved.phys
    BY <1>4, <1>6, <1>10, AxisFacts
  <2> HIDE DEF only, opp
  <2>2. Reasons(PressIfUp(moved, only), X, {})
    BY <1>6, <1>8, <2>1, EventsReason
  <2>3. Reasons(stopped, X \union {opp}, {})
    BY <1>6, <1>8, <2>1, TimersReason DEF Identity
  <2>4. Typed(stopped) /\ stopped.phys = moved.phys
    <3>1. Alike(moved, stopped, t)
      BY <1>6, <2>1, StepsAlike
    <3> HIDE DEF stopped
    <3> QED BY <1>6, <3>1, AlikeTyped DEF Alike
  <2> HIDE DEF stopped
  <2>5. opp \in moved.phys => Reasons(stopped, X, {})
    BY <2>3, <2>4, ReasonFound
  <2>6. Reasons(ReleaseIfDown(stopped, opp), (X \union {opp}) \ {opp}, {})
    BY <2>1, <2>3, <2>4, EventsReason
  <2>7. Reasons(ReleaseIfDown(stopped, opp), X, {})
    BY <2>6, ReasonFound
  <2> QED BY <2>2, <2>5, <2>7 DEF Engage, CancelStaleCounterStrafe, stopped
<1> HIDE DEF only, opp, r
<1>11. \/ r = e \/ (now = ax /\ r = ResolveConflict(moved, ax, press, c)) \/ r = moved
       \/ now # {} /\ r = Engage(moved, only, c)
       \/ now # {} /\ r = CancelStaleCounterStrafe(moved, opp)
  BY <1>7
<1>12. Reasons(r, X, {})
  BY <1>8, <1>9, <1>10, <1>11
<1> QED BY <1>12 DEF r

\* A brake: both keys of the axis are released or wait for their timers.
LEMMA BrakeReasons ==
  ASSUME NEW e, Typed(e), NEW k \in Keys, NEW c, c.target \in Identity, c.travel \in AxisOf(k),
         NEW X, Reasons(e, X, {})
  PROVE  Reasons(BrakeOf(e, c.travel, c), X \ AxisOf(k), {})
<1> DEFINE rel == c.travel
           counter == Opposite[rel]
           t == c.target
           overlap == c.overlap /\ rel \in e.logical
           i == IF overlap THEN ScheduleTimer(e, rel) ELSE e
           a == ScheduleTimer(i, counter)
           x == Expect(a, rel, t)
           n == [a EXCEPT !.expect[rel] = NoTimer]
           f == ReleaseIfDown(n, rel)
           z == IF overlap THEN x ELSE f
           p == PressIfUp(z, counter)
           r == Expect(p, counter, t)
<1>1. rel \in Keys /\ counter \in Keys /\ rel # counter /\ AxisOf(k) = {rel, counter}
  BY Axis, AxisFacts DEF Step
<1>2. BrakeOf(e, rel, c) = r
  BY DEF BrakeOf
<1>3. Typed(z) /\ z.armed[counter] # NoTimer /\ Reasons(z, X \ {rel}, {counter})
  <2>1. CASE overlap
    <3> DEFINE s == ScheduleTimer(e, rel)
               b == ScheduleTimer(s, counter)
               y == Expect(b, rel, t)
    <3>1. Typed(s) /\ s.armed[rel] # NoTimer /\ Reasons(s, X, {rel})
      <4>1. Alike(e, s, t)
        BY <1>1, StepsAlike
      <4>2. Reasons(s, X, {} \union {rel})
        BY <1>1, TimersReason
      <4>3. s.armed[rel] # NoTimer
        BY <1>1, ScheduleFields DEF Typed
      <4>4. {} \union {rel} = {rel}
        OBVIOUS
      <4> HIDE DEF s
      <4> QED BY <4>1, <4>2, <4>3, <4>4, AlikeTyped
    <3> HIDE DEF s
    <3>2. /\ Typed(b) /\ b.armed[rel] # NoTimer /\ b.armed[counter] # NoTimer
          /\ Reasons(b, X, {rel} \union {counter})
      <4>1. Alike(s, b, t)
        BY <1>1, <3>1, StepsAlike
      <4>2. Reasons(b, X, {rel} \union {counter})
        BY <1>1, <3>1, TimersReason
      <4>3. b.armed[counter] # NoTimer /\ b.armed[rel] = s.armed[rel]
        BY <1>1, <3>1, ScheduleFields DEF Typed
      <4> HIDE DEF b
      <4> QED BY <3>1, <4>1, <4>2, <4>3, AlikeTyped
    <3> HIDE DEF b
    <3>3. Typed(y) /\ y.armed[counter] # NoTimer /\ Reasons(y, X \ {rel}, {counter})
      <4>1. Alike(b, y, t)
        BY <1>1, <3>2, StepsAlike
      <4>2. Reasons(y, X \ {rel}, ({rel} \union {counter}) \ {rel})
        BY <1>1, <3>2, TimersReason
      <4>3. y.armed = b.armed
        BY <1>1, <3>2, ExpectFields DEF Typed
      <4>4. ({rel} \union {counter}) \ {rel} = {counter}
        BY <1>1
      <4> HIDE DEF y
      <4> QED BY <3>2, <4>1, <4>2, <4>3, <4>4, AlikeTyped
    <3>4. z = y
      BY <2>1 DEF s, b
    <3> QED BY <3>3, <3>4
  <2>2. CASE ~overlap
    <3> DEFINE b == ScheduleTimer(e, counter)
               m == [b EXCEPT !.expect[rel] = NoTimer]
               y == ReleaseIfDown(m, rel)
    <3>1. Typed(b) /\ b.armed[counter] # NoTimer /\ Reasons(b, X, {counter})
      <4>1. Alike(e, b, t)
        BY <1>1, StepsAlike
      <4>2. Reasons(b, X, {} \union {counter})
        BY <1>1, TimersReason
      <4>3. b.armed[counter] # NoTimer
        BY <1>1, ScheduleFields DEF Typed
      <4>4. {} \union {counter} = {counter}
        OBVIOUS
      <4> HIDE DEF b
      <4> QED BY <4>1, <4>2, <4>3, <4>4, AlikeTyped
    <3> HIDE DEF b
    <3>2. Typed(m) /\ m.armed = b.armed /\ Reasons(m, X \union {rel}, {counter})
      <4>1. Keeps(b, m, AxisOf(rel))
        BY <1>1, <3>1, StepsKeep DEF Identity
      <4>2. Reasons(m, X \union {rel}, {counter})
        BY <1>1, <3>1, TimersReason DEF Identity
      <4>3. m.armed = b.armed
        BY <3>1 DEF Typed, EngineState
      <4> HIDE DEF m
      <4> QED BY <4>1, <4>2, <4>3, KeepsTyped
    <3> HIDE DEF m
    <3>3. Typed(y) /\ y.armed = m.armed /\ Reasons(y, X \ {rel}, {counter})
      <4>1. Alike(m, y, t)
        BY <1>1, <3>2, StepsAlike
      <4>2. Reasons(y, (X \union {rel}) \ {rel}, {counter})
        BY <1>1, <3>2, EventsReason
      <4>3. y.armed = m.armed
        BY <1>1, <3>2, ReleaseFields DEF Typed
      <4>4. Reasons(y, X \ {rel}, {counter})
        BY <4>2, ReasonFound
      <4> HIDE DEF y
      <4> QED BY <3>2, <4>1, <4>3, <4>4, AlikeTyped
    <3>4. z = y
      BY <2>2 DEF b, m
    <3> QED BY <3>1, <3>2, <3>3, <3>4
  <2> QED BY <2>1, <2>2
<1> HIDE DEF z
<1>4. /\ Typed(p) /\ p.armed[counter] # NoTimer
      /\ Reasons(p, (X \ {rel}) \union {counter}, {counter})
  <2>1. Alike(z, p, t)
    BY <1>1, <1>3, StepsAlike
  <2>2. Reasons(p, (X \ {rel}) \union {counter}, {counter})
    BY <1>1, <1>3, EventsReason
  <2>3. p.armed = z.armed
    BY <1>1, <1>3, PressFields DEF Typed
  <2> HIDE DEF p
  <2> QED BY <1>3, <2>1, <2>2, <2>3, AlikeTyped
<1> HIDE DEF p
<1>5. Reasons(r, ((X \ {rel}) \union {counter}) \ {counter}, {counter} \ {counter})
  BY <1>1, <1>4, TimersReason
<1>6. /\ ((X \ {rel}) \union {counter}) \ {counter} = X \ AxisOf(k)
      /\ {counter} \ {counter} = {}
  BY <1>1
<1> HIDE DEF r
<1> QED BY <1>2, <1>5, <1>6

\* A routed key up, while the timer service runs.
LEMMA RoutedKeyUpReasons ==
  ASSUME NEW e, Typed(e), NEW k \in Keys, e.socd[AxisOf(k)] = NoTimer,
         NEW c, c.target \in Identity, c.mode # "OFF", c.refused = {},
         c.travel \in AxisOf(k) \union {NoKey}, NEW X, Reasons(e, X \union {k}, {})
  PROVE  Reasons(RoutedKeyUp(e, k, c), X, {})
<1> DEFINE ax == AxisOf(k)
           b == BrakeOf(e, c.travel, c)
           brake == AutoCounterStrafe(e, k, c)
           f == ReleaseIfDown(e, k)
           after == CASE MacroBrakePending(e, k) -> <<TRUE, e>>
                      [] ~MacroBrakePending(e, k) /\ Opposite[k] \notin e.phys -> brake
                      [] ~MacroBrakePending(e, k) /\ Opposite[k] \in e.phys -> <<FALSE, e>>
           z == IF after[1] THEN after[2] ELSE ReleaseIfDown(after[2], k)
           off == FALSE
<1>1. RoutedKeyUp(e, k, c) = ResolveAxis(z, ax, FALSE, c)
  BY DEF RoutedKeyUp
<1>2. brake = <<FALSE, e>> \/ (c.travel \in ax /\ brake = <<TRUE, b>>)
  BY DEF AutoCounterStrafe, BrakeOf, NoBrake
<1>3. Keeps(e, brake[2], ax)
  BY BrakeKeeps
<1> HIDE DEF brake, b
<1>4. \/ MacroBrakePending(e, k) /\ z = e
      \/ z = f
      \/ c.travel \in ax /\ z = b /\ brake = <<TRUE, b>>
  <2>1. CASE MacroBrakePending(e, k)
    BY <2>1
  <2>2. CASE ~MacroBrakePending(e, k) /\ Opposite[k] \in e.phys
    BY <2>2
  <2>3. CASE ~MacroBrakePending(e, k) /\ Opposite[k] \notin e.phys
    <3>1. after = brake
      BY <2>3
    <3>2. CASE brake = <<FALSE, e>>
      BY <3>1, <3>2
    <3>3. CASE c.travel \in ax /\ brake = <<TRUE, b>>
      BY <3>1, <3>3
    <3> QED BY <1>2, <3>2, <3>3
  <2> QED BY <2>1, <2>2, <2>3
<1>5. MacroBrakePending(e, k) => Reasons(e, X, {})
  BY ReasonFound DEF MacroBrakePending
<1>6. Reasons(f, X, {})
  <2>1. Reasons(f, (X \union {k}) \ {k}, {})
    BY EventsReason
  <2> QED BY <2>1, ReasonFound
<1>7. c.travel \in ax => Reasons(b, X, {})
  <2> SUFFICES ASSUME c.travel \in ax PROVE Reasons(b, X, {})
    OBVIOUS
  <2>1. Reasons(b, (X \union {k}) \ ax, {})
    BY BrakeReasons DEF b
  <2>2. k \in ax
    BY DEF AxisOf
  <2> QED BY <2>1, <2>2, ReasonFound
<1>8. Keeps(e, e, ax) /\ Keeps(e, f, ax)
  BY StepsKeep DEF Identity
<1> HIDE DEF f
<1>9. Reasons(z, X, {}) /\ Keeps(e, z, ax)
  <2>1. CASE MacroBrakePending(e, k) /\ z = e
    BY <1>5, <1>8, <2>1
  <2>2. CASE z = f
    BY <1>6, <1>8, <2>2
  <2>3. CASE c.travel \in ax /\ z = b /\ brake = <<TRUE, b>>
    <3>1. brake[2] = b
      BY <2>3
    <3>2. Keeps(e, z, ax)
      BY <1>3, <2>3, <3>1
    <3> QED BY <1>7, <2>3, <3>2
  <2> HIDE DEF z
  <2> QED BY <1>4, <2>1, <2>2, <2>3
<1> HIDE DEF z
<1>10. Typed(z) /\ z.socd[ax] = NoTimer
  BY <1>9, KeepsTyped DEF Keeps, SameKeys
<1>11. off \in BOOLEAN /\ (z.socd[ax] # NoTimer => ax \subseteq z.phys)
  BY <1>10
<1> HIDE DEF off
<1>12. Reasons(ResolveAxis(z, ax, off, c), X, {})
  BY <1>9, <1>10, <1>11, ResolveAxisReasons
<1> QED BY <1>1, <1>12 DEF off

\* HandleKeyUp, outside OFF and while the timer service runs.
LEMMA KeyUpReasons ==
  ASSUME NEW e, Typed(e), NEW k \in Keys, NEW route \in BOOLEAN,
         NEW c, c.target \in Identity, c.mode # "OFF", c.refused = {},
         c.travel \in AxisOf(k) \union {NoKey},
         Overlapped(e, c.mode), NEW X, Reasons(e, X, {}), route \/ X = Keys
  PROVE  Reasons(HandleKeyUp(e, k, route, c), X, {})
<1> DEFINE ax == AxisOf(k)
           o == Opposite[k]
           u == Lifted(e, k, c)
           off == FALSE
           z == ResolveAxis(e, ax, FALSE, c)
           y == RoutedKeyUp(u, k, c)
           r == HandleKeyUp(e, k, route, c)
<1>1. Step(k, o) /\ e \in EngineState /\ \A j \in Keys : AxisOf(j) = ax <=> j \in ax
  BY Axis, AxisFacts DEF Typed
<1>2. r = IF k \notin e.phys THEN IF route THEN z ELSE e ELSE IF route THEN y ELSE u
  BY DEF HandleKeyUp, Lifted
<1>3. e.socd[ax] # NoTimer => ax \subseteq e.phys
  BY <1>1 DEF Step, Overlapped, OverlapIsOfLoser
<1>4. Reasons(z, X, {})
  <2>1. off \in BOOLEAN
    OBVIOUS
  <2> HIDE DEF off
  <2>2. Reasons(ResolveAxis(e, ax, off, c), X, {})
    BY <1>3, <2>1, ResolveAxisReasons
  <2> QED BY <2>2 DEF off
<1>5. Reasons(u, X \union {k}, {}) /\ Typed(u) /\ u.socd[ax] = NoTimer
  <2> DEFINE d == CancelSocdTransition(e, ax)
             s == [d EXCEPT !.phys = @ \ {k}]
  <2>1. u = s
    BY DEF Lifted, TrackIfOff
  <2>2. Reasons(d, X, {})
    BY <1>3, AxisReasons
  <2>3. d \in EngineState
    BY <1>1, CancelFields
  <2> HIDE DEF d
  <2>4. /\ s.phys = d.phys \ {k} /\ s.logical = d.logical /\ s.expect = d.expect
        /\ s.armed = d.armed /\ s.expired = d.expired
    BY <2>3 DEF EngineState
  <2> HIDE DEF s
  <2>5. Reasons(s, X \union {k}, {})
    BY <2>2, <2>4 DEF Reasons, ExpectedComes
  <2>6. Typed(u) /\ u.socd[ax] = NoTimer
    BY <1>1, LiftedWorks DEF Works
  <2> QED BY <2>1, <2>5, <2>6
<1> HIDE DEF u
<1>6. Reasons(y, X, {})
  BY <1>5, RoutedKeyUpReasons
<1>7. ~route => Reasons(u, X, {})
  BY <1>5 DEF Reasons
<1> HIDE DEF y, z, r
<1>8. Reasons(r, X, {})
  BY <1>2, <1>4, <1>6, <1>7
<1> QED BY <1>8 DEF r

\* HandleKeyDown, outside OFF.
LEMMA KeyDownReasons ==
  ASSUME NEW e, Typed(e), NEW k \in Keys, k \notin e.phys, NEW route \in BOOLEAN,
         NEW c, c.target \in Identity, c.mode # "OFF", c.held \subseteq Slots,
         Overlapped(e, c.mode), NEW X, Reasons(e, X, {})
  PROVE  Reasons(HandleKeyDown(e, k, route, c), X, {})
<1> DEFINE ax == AxisOf(k)
           t == c.target
           p == [e EXCEPT !.phys = @ \union {k}, !.last[ax] = k]
           s == StopExpecting(p, k)
           o == IF MacroBrakePending(p, k) THEN p ELSE s
           on == TRUE
           z == ResolveAxis(o, ax, TRUE, c)
           r == HandleKeyDown(e, k, route, c)
<1>1. /\ e \in EngineState /\ k \in ax /\ ax \in Axes
      /\ \A j \in Keys : LastIsOfAxis(e, j) /\ AxisOf(j) \in Axes /\ (AxisOf(j) = ax <=> j \in ax)
  BY AxisFacts DEF Typed, AxisOf
<1>2. r = IF ~route THEN o ELSE IF z.axisState[ax] = ax THEN z ELSE PressIfUp(z, k)
  <2> DEFINE n == Recorded(e, k, c)
             y == ResolveAxis(n, ax, TRUE, c)
  <2>1. n = o
    BY DEF Recorded, TrackIfOff
  <2>2. r = IF ~route THEN n ELSE IF y.axisState[ax] = ax THEN y ELSE Engage(y, k, c)
    <3>1. CASE ~route
      BY <3>1 DEF HandleKeyDown, Recorded
    <3>2. CASE route
      BY <3>2 DEF HandleKeyDown, Recorded
    <3> QED BY <3>1, <3>2
  <2> HIDE DEF n, r, o
  <2>3. y = z
    BY <2>1
  <2>4. Engage(y, k, c) = PressIfUp(y, k)
    BY DEF Engage
  <2> HIDE DEF y, z
  <2> QED BY <2>1, <2>2, <2>3, <2>4
<1>3. /\ p \in EngineState /\ p.phys = e.phys \union {k} /\ p.socd = e.socd
      /\ p.logical = e.logical /\ p.expired = e.expired /\ p.expect = e.expect
      /\ p.armed = e.armed
      /\ \A a \in Axes : p.last[a] = IF a = ax THEN k ELSE e.last[a]
  BY <1>1 DEF EngineState
<1> HIDE DEF p
<1>4. Typed(p) /\ Reasons(p, X, {})
  <2>1. \A j \in Keys : LastIsOfAxis(p, j)
    BY <1>1, <1>3 DEF LastIsOfAxis
  <2>2. Reasons(p, X, {})
    BY <1>3 DEF Reasons, ExpectedComes
  <2> QED BY <1>3, <2>1, <2>2 DEF Typed
<1>5. Typed(s) /\ Reasons(s, X, {}) /\ s.phys = p.phys /\ s.socd = p.socd
  <2>1. Alike(p, s, t)
    BY <1>4, StepsAlike
  <2>2. Reasons(s, X \union {k}, {})
    BY <1>4, TimersReason DEF Identity
  <2>3. s.phys = p.phys /\ s.socd = p.socd
    BY <1>3, StopFields
  <2> HIDE DEF s
  <2>4. Reasons(s, X, {})
    BY <1>3, <2>2, <2>3, ReasonFound
  <2> QED BY <1>4, <2>1, <2>3, <2>4, AlikeTyped
<1> HIDE DEF s
<1>6. Typed(o) /\ Reasons(o, X, {}) /\ o.phys = e.phys \union {k} /\ o.socd = e.socd
  BY <1>3, <1>4, <1>5
<1> HIDE DEF o
<1>7. o.socd[ax] # NoTimer => ax \subseteq o.phys
  BY <1>1, <1>6, Axis DEF Step, Overlapped, OverlapIsOfLoser
<1>8. Reasons(z, X, {}) /\ Typed(z) /\ z.phys = o.phys
  <2>1. on \in BOOLEAN
    OBVIOUS
  <2> HIDE DEF on
  <2>2. Reasons(ResolveAxis(o, ax, on, c), X, {}) /\ Alike(o, ResolveAxis(o, ax, on, c), t)
    BY <1>6, <1>7, <2>1, ResolveAxisReasons, ResolveAxisAlike
  <2>3. Reasons(z, X, {}) /\ Alike(o, z, t)
    BY <2>2 DEF on
  <2> HIDE DEF z
  <2> QED BY <1>6, <2>3, AlikeTyped DEF Alike
<1> HIDE DEF z
<1>9. Reasons(PressIfUp(z, k), X, {})
  BY <1>6, <1>8, EventsReason
<1> HIDE DEF r
<1>10. Reasons(r, X, {})
  BY <1>2, <1>6, <1>8, <1>9
<1> QED BY <1>10 DEF r

\* OnTimerExpired: the key whose timer it was is held, or released.
LEMMA TimerReasons ==
  ASSUME NEW e, Typed(e), NEW k \in Keys, NEW id, id # NoTimer, e.expect[k] = id,
         NEW c, c.mode # "OFF", Overlapped(e, c.mode), NEW X, Reasons(e, X, {k})
  PROVE  Reasons(OnTimerExpired(e, k, id, c), X, {})
<1> DEFINE ax == AxisOf(k)
           opp == Opposite[k]
           socd == e.socd[ax] = id
           a == [e EXCEPT !.expect[k] = NoTimer, !.expectTarget[k] = NoTarget]
           g == [a EXCEPT !.socd[ax] = NoTimer]
           ra == ReleaseIfDown(a, k)
           rg == ReleaseIfDown(g, k)
           pr == PressIfUp(ra, opp)
           Landed(x) == [x EXCEPT !.axisState[ax] = e.phys \intersect ax]
           r == OnTimerExpired(e, k, id, c)
<1>1. opp \in Keys /\ ax \in Axes /\ ax \subseteq Keys /\ e \in EngineState
  BY AxisFacts, Zenon DEF Typed
<1>2. \/ socd /\ (r = Landed(g) \/ r = Landed(rg))
      \/ k \in e.phys /\ r = Landed(a)
      \/ r = Landed(ra)
      \/ opp \in e.phys /\ r = Landed(pr)
  BY Zenon DEF OnTimerExpired, IsExpected
<1>3. socd => k \in e.phys
  BY DEF Overlapped, OverlapIsOfLoser
<1>4. /\ a \in EngineState /\ a.phys = e.phys /\ a.logical = e.logical /\ a.last = e.last
      /\ a.expired = e.expired /\ a.armed = e.armed
      /\ \A j \in Keys : a.expect[j] = IF j = k THEN NoTimer ELSE e.expect[j]
  BY <1>1 DEF EngineState, TimerRef, Identity
<1> HIDE DEF a
<1>5. Typed(a) /\ Reasons(a, X \union {k}, {})
  <2>1. ExpectedComes(a, k)
    BY <1>4 DEF ExpectedComes
  <2>2. Reasons(a, X \union {k}, {})
    BY <1>4, <2>1, ReasonsOnKey
  <2> QED BY <1>4, <2>2 DEF Typed, LastIsOfAxis
<1>6. k \in e.phys => Reasons(a, X, {})
  BY <1>4, <1>5, ReasonFound
<1>7. /\ Typed(g) /\ g.phys = a.phys /\ g.logical = a.logical /\ g.expect = a.expect
      /\ g.armed = a.armed /\ g.expired = a.expired
  BY <1>1, <1>4, <1>5 DEF Typed, EngineState, TimerRef, LastIsOfAxis
<1> HIDE DEF g
<1>8. socd => Reasons(g, X, {}) /\ Reasons(rg, X, {})
  <2> SUFFICES ASSUME socd PROVE Reasons(g, X, {}) /\ Reasons(rg, X, {})
    OBVIOUS
  <2>1. Reasons(g, X, {})
    BY <1>3, <1>6, <1>7, SameReasons
  <2>2. Reasons(rg, X \ {k}, {})
    BY <1>7, <2>1, EventsReason
  <2> HIDE DEF rg
  <2> QED BY <2>1, <2>2 DEF Reasons
<1>9. Reasons(ra, X, {}) /\ Typed(ra) /\ ra.phys = e.phys
  <2>1. Reasons(ra, (X \union {k}) \ {k}, {})
    BY <1>5, EventsReason
  <2>2. Alike(a, ra, NoTarget)
    BY <1>5, StepsAlike DEF Identity
  <2> HIDE DEF ra
  <2> QED BY <1>4, <1>5, <2>1, <2>2, AlikeTyped DEF Reasons, Alike
<1> HIDE DEF ra
<1>10. opp \in e.phys => Reasons(pr, X, {})
  BY <1>1, <1>9, EventsReason
<1> HIDE DEF rg
<1>11. /\ socd => rg \in EngineState
       /\ opp \in e.phys => pr \in EngineState
       /\ g \in EngineState /\ ra \in EngineState
  BY <1>1, <1>7, <1>9, ReleaseFields, PressFields DEF rg, Typed
<1> HIDE DEF pr
<1>12. ASSUME NEW x \in EngineState, Reasons(x, X, {}) PROVE Reasons(Landed(x), X, {})
  <2> DEFINE y == Landed(x)
  <2>1. /\ y.phys = x.phys /\ y.logical = x.logical /\ y.expect = x.expect
        /\ y.armed = x.armed /\ y.expired = x.expired
    BY <1>12 DEF EngineState
  <2> HIDE DEF y
  <2>2. Reasons(y, X, {})
    BY <1>12, <2>1, SameReasons
  <2> QED BY <2>2 DEF y
<1> HIDE DEF Landed, r, socd
<1>13. Reasons(r, X, {})
  BY <1>2, <1>4, <1>6, <1>8, <1>9, <1>10, <1>11, <1>12
<1> QED BY <1>13 DEF r

\* ReconcileInternal(true) leaves nothing to explain.
LEMMA LetGoReasons ==
  ASSUME NEW e \in EngineState, e.out = <<>>
  PROVE  Reasons(LetGoOfAll(e), {}, {})
<1> DEFINE r == LetGoOfAll(e)
<1>1. r.logical = {} /\ \A k \in Keys : r.expect[k] = NoTimer
  BY LetGoFields
<1> HIDE DEF r
<1>2. Reasons(r, {}, {})
  BY <1>1 DEF Reasons, ExpectedComes
<1> QED BY <1>2 DEF r

\* The timers of the engine come, whatever is down.
LEMMA CancelAllReasons ==
  ASSUME NEW e \in EngineState, NEW A, Reasons(e, Keys, {})
  PROVE  Reasons(CancelTransitions(e, A), Keys, {})
<1> DEFINE T == UNION {InTransition(e, ax) : ax \in A}
           S == T \intersect Keys
           d == DisarmAll(e, T)
           r == [d EXCEPT !.socd = [ax \in Axes |-> IF ax \in A THEN NoTimer ELSE @[ax]]]
<1>1. CancelTransitions(e, A) = r
  BY DEF CancelTransitions
<1>2. DisarmAll(e, T) = DisarmAll(e, S)
  BY DEF DisarmAll
<1> HIDE DEF T
<1>3. S \in SUBSET Keys
  OBVIOUS
<1> HIDE DEF S
<1>4. /\ d \in EngineState /\ d.expired = e.expired
      /\ \A j \in Keys : /\ d.expect[j] = IF j \in S THEN NoTimer ELSE e.expect[j]
                         /\ d.armed[j] = IF j \in S THEN NoTimer ELSE e.armed[j]
  BY <1>2, <1>3, DisarmFields
<1> HIDE DEF d
<1>5. r.expect = d.expect /\ r.armed = d.armed /\ r.expired = d.expired
  BY <1>4 DEF EngineState
<1> HIDE DEF r
<1>6. ASSUME NEW j \in Keys PROVE ExpectedComes(r, j)
  <2>1. CASE j \in S
    BY <1>4, <1>5, <2>1 DEF ExpectedComes
  <2>2. CASE j \notin S
    BY <1>4, <1>5, <2>2, StillComes DEF Reasons
  <2> QED BY <2>1, <2>2
<1> QED BY <1>1, <1>6 DEF Reasons

\* RebuildState, outside OFF: what it wants down is held, or a brake with its timer.
LEMMA RebuildReasons ==
  ASSUME NEW e, Typed(e), NEW physical \in SUBSET Keys, NEW c, c.mode # "OFF",
         Reasons(e, Keys, {})
  PROVE  Reasons(RebuildState(e, physical, c), {}, {})
<1> DEFINE p == [e EXCEPT !.phys = physical]
           A == {ax \in Axes : ~(ax \subseteq p.phys)}
           calm == CancelTransitions(p, A)
           known == [ax \in Axes |-> p.phys \intersect ax]
           s == [calm EXCEPT !.axisState = known]
           D == (s.phys \ Suppressed(s)) \union ArmedBrakes(s)
           gone == s.logical \ D
           come == D \ s.logical
           u == Events(gone, FALSE)
           v == Events(come, TRUE)
           d == DisarmAll(s, gone)
           out == (d.out \o u) \o v
           r == [d EXCEPT !.logical = D, !.out = out]
<1>1. /\ p \in EngineState /\ p.phys = physical /\ p.logical = e.logical /\ p.expect = e.expect
      /\ p.armed = e.armed /\ p.expired = e.expired
  BY DEF Typed, EngineState
<1>2. RebuildState(e, physical, c) = Restore(s, (p.phys \ Suppressed(s)) \union ArmedBrakes(s))
  BY DEF RebuildState, ReconcileLogicalStateFromPhysical
<1> HIDE DEF p
<1>3. Reasons(p, Keys, {})
  BY <1>1 DEF Reasons, ExpectedComes
<1>4. /\ calm \in EngineState /\ calm.phys = p.phys /\ Reasons(calm, Keys, {})
  <2> HIDE DEF A
  <2> QED BY <1>1, <1>3, CancelAllFields, CancelAllReasons
<1> HIDE DEF calm
<1>5. known \in [Axes -> SUBSET Keys]
  BY <1>1
<1> HIDE DEF known
<1>6. /\ s \in EngineState /\ s.phys = p.phys /\ s.logical = calm.logical
      /\ s.expect = calm.expect /\ s.armed = calm.armed /\ s.expired = calm.expired
  BY <1>4, <1>5 DEF EngineState
<1> HIDE DEF s
<1>7. Reasons(s, Keys, {})
  BY <1>4, <1>6 DEF Reasons, ExpectedComes
<1>8. D \in SUBSET Keys /\ gone \in SUBSET Keys
  BY <1>6 DEF ArmedBrakes, EngineState
<1>9. Restore(s, D) = r
  BY DEF Restore
<1>10. RebuildState(e, physical, c) = r
  BY <1>2, <1>6, <1>9
<1>11. \A j \in D : j \in s.phys \/ (s.expect[j] # NoTimer /\ j \in s.logical)
  BY DEF ArmedBrakes
<1> HIDE DEF D, u, v
<1>12. /\ d \in EngineState /\ d.phys = s.phys /\ d.expired = s.expired
       /\ \A j \in Keys : /\ d.expect[j] = IF j \in gone THEN NoTimer ELSE s.expect[j]
                          /\ d.armed[j] = IF j \in gone THEN NoTimer ELSE s.armed[j]
  BY <1>6, <1>8, DisarmFields
<1> HIDE DEF d, out
<1>13. /\ r.phys = s.phys /\ r.logical = D /\ r.expect = d.expect /\ r.armed = d.armed
       /\ r.expired = s.expired
  BY <1>12 DEF EngineState
<1> HIDE DEF r
<1>14. ASSUME NEW j \in Keys
       PROVE  /\ ExpectedComes(r, j)
              /\ j \in r.logical => j \in r.phys \/ r.expect[j] # NoTimer
  <2>1. CASE j \in gone
    BY <1>12, <1>13, <2>1 DEF ExpectedComes
  <2>2. CASE j \notin gone
    <3>1. r.expect[j] = s.expect[j] /\ r.armed[j] = s.armed[j]
      BY <1>12, <1>13, <2>2
    <3>2. ExpectedComes(r, j)
      BY <1>7, <1>13, <3>1, StillComes DEF Reasons
    <3> QED BY <1>11, <1>13, <3>1, <3>2
  <2> QED BY <2>1, <2>2
<1> QED BY <1>10, <1>14 DEF Reasons

\* A timer expires and goes to the queue.
LEMMA FireReasons ==
  ASSUME NEW e, Typed(e), NEW k \in Keys, NEW X, Reasons(e, X, {})
  PROVE  Reasons([e EXCEPT !.armed[k] = NoTimer, !.expired = Append(@, <<k, e.armed[k]>>)], X, {})
<1> DEFINE q == Append(e.expired, <<k, e.armed[k]>>)
           r == [e EXCEPT !.armed[k] = NoTimer, !.expired = Append(@, <<k, e.armed[k]>>)]
<1>1. /\ \A i \in DOMAIN e.expired : i \in DOMAIN q /\ q[i] = e.expired[i]
      /\ Len(q) \in DOMAIN q /\ q[Len(q)] = <<k, e.armed[k]>>
  <2>1. e.expired \in Seq(Keys \X TimerIds)
    BY DEF Typed, EngineState
  <2> QED BY <2>1
<1> HIDE DEF q
<1>2. /\ r.phys = e.phys /\ r.logical = e.logical /\ r.expect = e.expect /\ r.expired = q
      /\ \A j \in Keys : r.armed[j] = IF j = k THEN NoTimer ELSE e.armed[j]
  BY DEF Typed, EngineState, q
<1> HIDE DEF r
<1>3. ASSUME NEW j \in Keys PROVE ExpectedComes(r, j)
  <2> SUFFICES ASSUME e.expect[j] # NoTimer
               PROVE  r.armed[j] = e.expect[j] \/ \E i \in DOMAIN q : q[i] = <<j, e.expect[j]>>
    BY <1>2 DEF ExpectedComes
  <2>1. CASE e.armed[j] = e.expect[j]
    BY <1>1, <1>2, <2>1
  <2>2. CASE \E i \in DOMAIN e.expired : e.expired[i] = <<j, e.expect[j]>>
    BY <1>1, <2>2
  <2> QED BY <2>1, <2>2 DEF Reasons, ExpectedComes
<1>4. Reasons(r, X, {})
  BY <1>2, <1>3 DEF Reasons
<1> QED BY <1>4 DEF r

\* The head of the queue is taken.
LEMMA RestReasons ==
  ASSUME NEW e, Typed(e), e.expired # <<>>, NEW X, Reasons(e, X, {})
  PROVE  /\ Reasons(Rest(e), X, {Head(e.expired)[1]})
         /\ e.expect[Head(e.expired)[1]] # Head(e.expired)[2] => Reasons(Rest(e), X, {})
<1> DEFINE q == Tail(e.expired)
           r == Rest(e)
           h == Head(e.expired)
<1>1. /\ h \in Keys \X TimerIds
      /\ \A i \in DOMAIN e.expired : \/ i = 1 /\ e.expired[i] = h
                                     \/ i - 1 \in DOMAIN q /\ q[i - 1] = e.expired[i]
  <2>1. e.expired \in Seq(Keys \X TimerIds)
    BY DEF Typed, EngineState
  <2> QED BY <2>1, SMTT(60)
<1>2. h = <<h[1], h[2]>> /\ h[1] \in Keys
  BY <1>1
<1> HIDE DEF q, h
<1>3. /\ r.phys = e.phys /\ r.logical = e.logical /\ r.expect = e.expect /\ r.armed = e.armed
      /\ r.expired = q
  BY DEF Typed, EngineState, Rest, q
<1> HIDE DEF r
<1>4. ASSUME NEW j \in Keys, j # h[1] \/ e.expect[j] # h[2] PROVE ExpectedComes(r, j)
  <2>1. h # <<j, e.expect[j]>>
    BY <1>2, <1>4
  <2> QED BY <1>1, <1>3, <2>1 DEF Reasons, ExpectedComes
<1>5. Reasons(r, X, {h[1]}) /\ (e.expect[h[1]] # h[2] => Reasons(r, X, {}))
  BY <1>3, <1>4 DEF Reasons
<1> QED BY <1>5 DEF r, h

-----------------------------------------------------------------------------
(* The steps: who holds what is down for the system, and why.              *)

\* What is down was sent by the boundary, or is a native key the player holds.
OwnDown == systemDown \intersect Keys \subseteq table.held \union (down \ swallowed)

\* While edges are acted upon, a logical key is held or waits for its timer.
Explained == config.mode # "OFF" => Reasons(eng, IF Running THEN {} ELSE Keys, {})

StuckInv == timers /\ OwnDown /\ Explained

\* What cannot happen while the target stays in front.
LEMMA SteadyExcludes ==
  ASSUME SteadyAssumption, RInv, SteadyInv
  PROVE  /\ \A k \in PlayerKeys : ~StaleEdge(k) /\ ~NativeKey(k)
         /\ \A t \in Identity : ~Focus(t)
         /\ ~WinEvent /\ ~Resolve /\ ~LoseFocus /\ ~RegainFocus /\ ~EmergencyUnhook
         /\ ~PumpReleases /\ ~InstallHook /\ ~InstallPoll
<1>1. /\ hooked /\ ledger = down /\ events = <<>> /\ requests = <<>> /\ foreground = published
      /\ todo \notin Installing
      /\ wasActive /\ SeenActive /\ ~Contains(messages, "unhook") /\ messages \in Seq(Messages)
      /\ table.pending = {}
  BY DEF RInv, RoutingTypes, RoutingTypeOK, UnhookInv, SteadyInv, Undisturbed, Posts, SeenActive,
         Meant, Mine
<1>2. ASSUME NEW k \in PlayerKeys PROVE ~StaleEdge(k) /\ ~NativeKey(k)
  BY <1>1 DEF StaleEdge, NativeKey
<1>3. ASSUME NEW t \in Identity PROVE ~Focus(t)
  BY <1>1 DEF Focus, SteadyAssumption
<1>4. ~EmergencyUnhook
  <2> SUFFICES ASSUME EmergencyUnhook PROVE FALSE
    OBVIOUS
  <2>1. messages # <<>> /\ Head(messages) = "unhook"
    BY DEF EmergencyUnhook, NextMessage
  <2> QED BY <1>1, <2>1, ContainsTail
<1>5. ~PumpReleases
  BY <1>1 DEF PumpReleases, PumpSomething, Pump
<1>6. ~InstallHook /\ ~InstallPoll
  BY <1>1 DEF InstallHook, InstallPoll, Installing
<1> QED BY <1>1, <1>2, <1>3, <1>4, <1>5, <1>6 DEF WinEvent, Resolve, LoseFocus, RegainFocus

\* An edge the hook lets through is the player's; the up of a key that the
\* boundary does not hold goes through.
LEMMA HookKeyOwns ==
  ASSUME SteadyAssumption, RInv, SteadyInv, OwnDown, NEW k \in PlayerKeys, HookKey(k)
  PROVE  OwnDown'
<1> DEFINE isDown == k \notin down
           taken  == IF isDown THEN HookRoutes /\ HasRoom /\ config.mode # "OFF"
                     ELSE k \in swallowed \/ (config.mode = "OFF" /\ HookRoutes /\ HoldsBrake(k))
<1>1. /\ table' = table
      /\ down' = IF isDown THEN down \union {k} ELSE down \ {k}
      /\ swallowed' = IF isDown /\ taken THEN swallowed \union {k} ELSE swallowed \ {k}
      /\ systemDown' = IF taken THEN systemDown
                       ELSE IF isDown THEN systemDown \union {k} ELSE systemDown \ {k}
  BY DEF HookKey, vars, SteadyAssumption
<1>2. ~isDown /\ taken => k \in swallowed \/ k \in table.held
  BY DEF HoldsBrake
<1> HIDE DEF taken
<1>3. CASE isDown
  BY <1>1, <1>3 DEF OwnDown
<1>4. CASE ~isDown
  BY <1>1, <1>2, <1>4 DEF OwnDown
<1> QED BY <1>3, <1>4

\* The timer service runs on, and nobody else presses a key.
LEMMA OwnDownStep ==
  ASSUME SteadyAssumption, RInv, SteadyInv, StuckInv, [RoutingNext]_allVars
  PROVE  timers' /\ OwnDown'
<1>1. timers /\ OwnDown
  BY DEF StuckInv
<1>2. ASSUME NEW k \in PlayerKeys, HookKey(k) PROVE timers' /\ OwnDown'
  <2>1. timers' = timers
    BY <1>2 DEF HookKey, focusVars
  <2> QED BY <1>1, <1>2, <2>1, HookKeyOwns
<1>3. ASSUME NEW k \in PlayerKeys, RepeatKey(k) PROVE timers' /\ OwnDown'
  BY <1>1, <1>3 DEF RepeatKey, OwnDown, vars, focusVars
<1>4. ASSUME NEW ok \in Outcomes, SendOne(ok) PROVE timers' /\ OwnDown'
  BY <1>1, <1>4 DEF SendOne, Injected, Elsewhere, OwnDown, focusVars
<1>5. ASSUME NEW mode \in ModesAllowed, SwitchMode(mode) PROVE timers' /\ OwnDown'
  BY <1>1, <1>5 DEF SwitchMode, OwnDown, focusVars
<1>6. ASSUME UNCHANGED <<table, systemDown, down, swallowed, timers>> PROVE timers' /\ OwnDown'
  BY <1>1, <1>6 DEF OwnDown
<1>7. CASE PressF6 \/ ModeRequest \/ RoutedInputReady \/ RouteMore \/ EndDrain \/ KeepFocus
           \/ UNCHANGED allVars
  <2>1. UNCHANGED <<table, systemDown, down, swallowed, timers>>
    BY <1>7 DEF PressF6, ModeRequest, RoutedInputReady, RouteMore, EndDrain, KeepFocus,
                allVars, vars, hookVars, focusVars
  <2> QED BY <1>6, <2>1
<1>8. CASE Route \/ Rebuild \/ PrepareModeChange
  <2>1. ASSUME NEW e, NEW t, Submit(e, t) PROVE table' = table
    BY <2>1 DEF Submit
  <2>2. UNCHANGED <<systemDown, down, swallowed, timers>>
    BY <1>8 DEF Route, RouteNext, Rebuild, PrepareModeChange, focusVars
  <2>3. ASSUME NEW refused, NEW travel, RouteNext(refused, travel) PROVE table' = table
    BY <2>1, <2>3 DEF RouteNext, KeyDown, KeyUp, vars
  <2>4. table' = table
    BY <1>8, <2>1, <2>3 DEF Route, Rebuild, PrepareModeChange, ClearHeldKeys, vars
  <2> QED BY <1>6, <2>2, <2>4
<1>9. CASE ToggleSuspendSent \/ ToggleSuspendPosted
  <2>1. ASSUME NEW posted, ToggleEngine(posted)
        PROVE  UNCHANGED <<table, systemDown, down, swallowed, timers>>
    <3>1. ASSUME NEW e, NEW t, Submit(e, t) PROVE table' = table
      BY <3>1 DEF Submit
    <3>2. table' = table
      BY <2>1, <3>1 DEF ToggleEngine
    <3>3. UNCHANGED <<systemDown, down, swallowed, timers>>
      BY <2>1, Zenon DEF ToggleEngine, hookVars, focusVars
    <3> QED BY <3>2, <3>3
  <2> QED BY <1>6, <1>9, <2>1 DEF ToggleSuspendSent, ToggleSuspendPosted
<1>10. CASE (\E k \in Keys : FireTimer(k)) \/ DrainExpired
  <2>1. UNCHANGED <<table, systemDown, down, swallowed, timers>>
    BY <1>10, Zenon DEF FireTimer, TimerFire, DrainExpired, DrainTimer, Submit, Elsewhere, focusVars
  <2> QED BY <1>6, <2>1
<1> QED BY <1>2, <1>3, <1>4, <1>5, <1>7, <1>8, <1>9, <1>10, SteadyExcludes DEF RoutingNext, OwnerStep

\* A step that leaves the engine alone and does not set it going.
LEMMA ExplainedAlone ==
  ASSUME Explained, UNCHANGED <<eng, config>>, Running' => Running
  PROVE  Explained'
BY DEF Explained, Reasons

\* A key that is only recorded needs no reason.
LEMMA LessReason ==
  ASSUME NEW e, NEW X, Reasons(e, X, {}), NEW Z, X \subseteq Z
  PROVE  Reasons(e, Z, {})
BY DEF Reasons

\* An edge taken from the queue.
LEMMA RouteExplained ==
  ASSUME RInv, SteadyInv, NewestInv, StuckInv, ~RefusalAllowed, Route
  PROVE  Explained'
<1> DEFINE event == Head(routed)
           k == event.key
           route == event.route /\ Active(event.target)
           stale == event.down /\ k \in eng.phys
           X == IF Running THEN {} ELSE Keys
<1>1. /\ RoutingTypeOK /\ EngineTyped /\ Typed(eng) /\ published \in Identity
      /\ published \in Targets /\ foreground = published /\ timers /\ Explained
      /\ \A i \in DOMAIN routed : routed[i].target = published
  BY DEF RInv, RoutingTypes, EngineTyped, SteadyInv, Undisturbed, Meant, StuckInv
<1>2. PICK refused \in TimerRefusals, travel \in Keys \union {NoKey} :
        /\ routed # <<>> /\ travel \in AxisOf(k) \union {NoKey}
        /\ RouteNext(refused, travel)
  BY DEF Route
<1>3. /\ Idle /\ refused = {} /\ (todo = "rebuild" <=> todo' = "rebuild")
      /\ IF stale THEN UNCHANGED vars
         ELSE IF event.down THEN KeyDown(k, route, event.target, refused)
              ELSE KeyUp(k, route, event.target, travel, refused)
  BY <1>1, <1>2 DEF RouteNext, TimerRefusals, Refusals
<1>4. /\ event \in RoutedEvent /\ event.target = published
      /\ Running => event.route
  <2>1. routed \in Seq(RoutedEvent) /\ routed # <<>>
    BY <1>1, <1>2 DEF RoutingTypeOK
  <2>2. 1 \in DOMAIN routed /\ event = routed[1] /\ event \in RoutedEvent
    BY <2>1
  <2> QED BY <1>1, <2>2 DEF NewestInv, AllRouted
<1>5. /\ k \in Keys /\ event.down \in BOOLEAN /\ route \in BOOLEAN
      /\ Running => route
  BY <1>1, <1>4 DEF RoutedEvent, Active
<1> HIDE DEF event, route
<1>6. CASE stale
  <2>1. UNCHANGED <<eng, config>>
    BY <1>3, <1>6 DEF vars
  <2>2. Running' => Running
    BY <1>3, <2>1 DEF Running
  <2> QED BY <1>1, <2>1, <2>2, ExplainedAlone
<1>7. CASE ~stale
  <2> DEFINE c == Situation(published, IF event.down THEN NoKey ELSE travel, refused)
             d == HandleKeyDown(eng, k, route, c)
             u == HandleKeyUp(eng, k, route, c)
             e == IF event.down THEN d ELSE u
  <2>1. /\ c.target = published /\ c.held \subseteq Slots /\ c.mode = config.mode
        /\ c.refused = {} /\ (~event.down => c.travel = travel)
    BY <1>1, <1>3, EngineTypedTypes DEF Situation
  <2>2. IF event.down /\ ~route
        THEN eng' = e /\ UNCHANGED <<table, batchTarget, config, foreground, published>>
        ELSE Submit(e, published)
    BY <1>3, <1>4, <1>7 DEF KeyDown, KeyUp
  <2>3. config' = config
    BY <2>2 DEF Submit
  <2> SUFFICES ASSUME config.mode # "OFF"
               PROVE  Reasons(eng', IF Running' THEN {} ELSE Keys, {})
    BY <2>3 DEF Explained
  <2> HIDE DEF c, d, u
  <2>4. /\ eng.native = {} /\ Carried(eng, table.held) /\ Overlapped(eng, config.mode)
        /\ table.held \in SUBSET Keys /\ Reasons(eng, X, {})
    BY <1>1 DEF NewestInv, Served, EngineTyped, Explained
  <2>5. route \/ X = Keys
    BY <1>5
  <2> HIDE DEF X
  <2>6. c.mode # "OFF" /\ c.target \in Identity /\ Overlapped(eng, c.mode)
    BY <1>1, <2>1, <2>4
  <2>7. /\ Typed(e) /\ e.suspended = eng.suspended /\ e.native = {}
        /\ Works(eng, e, AxisOf(k)) /\ Overlapped(e, config.mode) /\ Reasons(e, X, {})
    <3>1. CASE event.down
      <4>1. k \notin eng.phys
        BY <1>7, <3>1
      <4>2. Typed(d) /\ d.suspended = eng.suspended /\ d.native = {}
        BY <1>1, <1>5, <2>1, <2>4, <2>6, <4>1, HandleKeyDownTyped DEF d
      <4>3. Works(eng, d, AxisOf(k)) /\ Overlapped(d, c.mode)
        BY <1>1, <1>5, <2>6, <4>1, KeyDownOrdered DEF d
      <4>4. Reasons(d, X, {})
        BY <1>1, <1>5, <2>1, <2>4, <2>6, <4>1, KeyDownReasons DEF d
      <4> QED BY <2>1, <3>1, <4>2, <4>3, <4>4
    <3>2. CASE ~event.down
      <4>1. c.travel \in AxisOf(k) \union {NoKey}
        BY <1>2, <2>1, <3>2
      <4>2. Typed(u) /\ u.suspended = eng.suspended /\ u.native = {}
        BY <1>1, <1>5, <2>1, <2>4, <2>6, <4>1, HandleKeyUpTyped DEF u
      <4>3. Works(eng, u, AxisOf(k)) /\ Overlapped(u, c.mode)
        BY <1>1, <1>5, <2>6, <4>1, KeyUpOrdered DEF u
      <4>4. Reasons(u, X, {})
        BY <1>1, <1>5, <2>1, <2>4, <2>5, <2>6, <4>1, KeyUpReasons DEF u
      <4> QED BY <2>1, <3>2, <4>2, <4>3, <4>4
    <3> QED BY <3>1, <3>2
  <2> HIDE DEF e
  <2>8. Served(e, table.held, config.mode)
    BY <2>4, <2>7 DEF Served, Works, Follows
  <2>9. eng' = e
    BY <1>1, <2>2, <2>7, <2>8, SubmitServed
  <2>10. Running' <=> Running
    BY <1>3, <2>7, <2>9 DEF Running
  <2> QED BY <2>7, <2>9, <2>10 DEF X
<1> QED BY <1>6, <1>7

\* A pause lets go of everything; a resume leaves the reasons to the rebuild.
LEMMA ToggleExplained ==
  ASSUME RInv, SteadyInv, NewestInv, StuckInv, OwnerFree, NEW posted, ToggleEngine(posted)
  PROVE  Explained'
<1>1. /\ EngineTyped /\ Typed(eng) /\ eng.out = <<>> /\ todo = "none" /\ Explained
      /\ eng \in EngineState /\ table.held \in SUBSET Keys
      /\ config.mode # "OFF" => Served(eng, table.held, config.mode)
  BY DEF RInv, RoutingTypes, EngineTyped, Typed, OwnerFree, Idle, NewestInv, StuckInv
<1>2. config' = config
  BY DEF ToggleEngine, Submit
<1> SUFFICES ASSUME config.mode # "OFF" PROVE Reasons(eng', Keys, {}) /\ ~Running'
  BY <1>2 DEF Explained
<1>3. CASE ~eng.suspended
  <2> DEFINE p == [eng EXCEPT !.suspended = TRUE]
             e == Suspend(eng)
  <2>1. Submit(e, published)
    BY <1>3 DEF ToggleEngine
  <2>2. Typed(p) /\ p.out = <<>> /\ p.logical = eng.logical /\ p \in EngineState /\ p.suspended
        /\ e = LetGoOfAll(p)
    BY <1>1 DEF Typed, EngineState, LastIsOfAxis, Suspend
  <2> HIDE DEF p, e
  <2>3. /\ Typed(e) /\ e.suspended /\ e.native = {} /\ Reasons(e, {}, {})
        /\ \A ax \in Axes : e.socd[ax] = NoTimer /\ e.axisState[ax] = {}
    <3>1. Typed(LetGoOfAll(p))
      BY <2>2, LetGoOfAllAlike, AlikeTyped DEF Identity
    <3> QED BY <2>2, <3>1, LetGoFields, LetGoReasons
  <2>4. Served(e, table.held, config.mode)
    <3>1. Carried(p, table.held)
      BY <1>1, <2>2 DEF Served, Carried
    <3>2. Carried(e, table.held)
      BY <1>1, <2>2, <3>1, LetGoCarries
    <3> QED BY <2>3, <3>2, NothingOrdered DEF Served
  <2>5. eng' = e
    BY <1>1, <2>1, <2>3, <2>4, SubmitServed
  <2> QED BY <2>3, <2>5, LessReason DEF Running
<1>4. CASE eng.suspended
  <2> DEFINE e == Resume(eng)
  <2>1. eng' = Commit(e, table.held) /\ todo' = "rebuild"
    BY <1>4 DEF ToggleEngine, Reinstall, SteadyInv, Undisturbed
  <2>2. /\ e \in EngineState /\ e.out = <<>>
        /\ e.phys = eng.phys /\ e.last = eng.last /\ e.socd = eng.socd /\ e.expect = eng.expect
        /\ e.axisState = eng.axisState /\ e.logical = eng.logical /\ e.native = eng.native
        /\ e.armed = eng.armed /\ e.expired = eng.expired
    BY <1>1 DEF Resume, EngineState
  <2> HIDE DEF e
  <2>3. Served(e, table.held, config.mode)
    BY <1>1, <2>2, SameOrder DEF Served, Carried
  <2>4. eng' = e
    BY <1>1, <2>1, <2>2, <2>3, CommitServed
  <2>5. Reasons(eng, Keys, {})
    BY <1>1, LessReason DEF Explained, Reasons
  <2>6. Reasons(e, Keys, {})
    BY <2>2, <2>5, SameReasons
  <2> QED BY <2>1, <2>4, <2>6 DEF Running
<1> QED BY <1>3, <1>4

\* The rebuild after a resume.
LEMMA RebuildExplained ==
  ASSUME RInv, NewestInv, StuckInv, Rebuild
  PROVE  Explained'
<1> DEFINE c == Situation(published, NoKey, {})
           e == RebuildState(eng, ledger, c)
<1>1. /\ EngineTyped /\ Typed(eng) /\ published \in Identity /\ eng.out = <<>>
      /\ ledger \in SUBSET Keys /\ table.held \in SUBSET Keys /\ c.mode = config.mode
      /\ config.mode # "OFF" => Served(eng, table.held, config.mode)
      /\ todo = "rebuild" /\ Submit(e, published) /\ Explained
  BY DEF RInv, RoutingTypes, RoutingTypeOK, EngineTyped, Rebuild, Idle, NewestInv, Situation,
         StuckInv
<1>2. config' = config
  BY <1>1 DEF Submit
<1> HIDE DEF c
<1> SUFFICES ASSUME config.mode # "OFF" PROVE Reasons(eng', {}, {})
  BY <1>2, LessReason DEF Explained
<1>3. /\ eng.native = {} /\ Carried(eng, table.held) /\ Overlapped(eng, c.mode)
      /\ c.mode # "OFF" /\ Reasons(eng, Keys, {})
  BY <1>1 DEF Served, Explained, Running
<1>4. Typed(e)
  BY <1>1, RebuildTyped
<1>5. e.native = {} /\ Carried(e, table.held) /\ Overlapped(e, c.mode)
  BY <1>1, <1>3, RebuildOrdered
<1>6. Reasons(e, {}, {})
  BY <1>1, <1>3, RebuildReasons
<1> HIDE DEF e
<1>7. eng' = e
  BY <1>1, <1>4, <1>5, SubmitServed DEF Served
<1> QED BY <1>6, <1>7

\* A mode change begins with nothing down and nothing waited for.
LEMMA ModeExplained ==
  ASSUME RInv, SteadyInv, NewestInv, StuckInv,
         PrepareModeChange \/ \E mode \in ModesAllowed : SwitchMode(mode)
  PROVE  Explained'
<1>1. /\ EngineTyped /\ Typed(eng) /\ eng \in EngineState /\ table.held \in SUBSET Keys
      /\ config.mode # "OFF" => Served(eng, table.held, config.mode)
      /\ Explained
  BY DEF RInv, RoutingTypes, EngineTyped, Typed, NewestInv, StuckInv
<1>2. CASE PrepareModeChange /\ UNCHANGED vars /\ todo' = "none"
  <2>1. UNCHANGED <<eng, config>> /\ (Running' => Running)
    BY <1>2 DEF PrepareModeChange, Running, vars
  <2> QED BY <1>1, <2>1, ExplainedAlone
<1>3. CASE PrepareModeChange /\ eng.phys = {} /\ ClearHeldKeys(published)
  <2> DEFINE e == LetGoOfAll(eng)
  <2>1. Submit(e, published) /\ eng.out = <<>> /\ config' = config
    BY <1>3 DEF ClearHeldKeys, Idle, Submit
  <2> SUFFICES ASSUME config.mode # "OFF" PROVE Reasons(eng', {}, {})
    BY <2>1, LessReason DEF Explained
  <2>2. /\ Typed(e) /\ e.native = {} /\ Reasons(e, {}, {})
        /\ \A ax \in Axes : e.socd[ax] = NoTimer /\ e.axisState[ax] = {}
    <3>1. Typed(e)
      BY <1>1, <2>1, LetGoOfAllAlike, AlikeTyped DEF Identity
    <3> QED BY <1>1, <2>1, <3>1, LetGoFields, LetGoReasons
  <2>3. Served(e, table.held, config.mode)
    <3>1. Carried(e, table.held)
      BY <1>1, <2>1, LetGoCarries DEF Served
    <3> HIDE DEF e
    <3> QED BY <2>2, <3>1, NothingOrdered DEF Served
  <2> HIDE DEF e
  <2>4. eng' = e
    BY <1>1, <2>1, <2>2, <2>3, SubmitServed
  <2> QED BY <2>2, <2>4
<1>4. ASSUME NEW mode \in ModesAllowed, SwitchMode(mode) PROVE Explained'
  <2>1. todo = "switch" /\ todo' = "none" /\ Idle /\ eng' = eng
    BY <1>4 DEF SwitchMode
  <2>2. CASE config' = config
    <3>1. Running' => Running
      BY <2>1 DEF Running
    <3> QED BY <1>1, <2>1, <2>2, <3>1, ExplainedAlone
  <2>3. CASE table.held \intersect Keys = {}
    <3>1. eng.logical = {} /\ NoWait(eng)
      BY <1>1, <2>1, <2>3 DEF EngineTyped, NewestInv, Cleared, SteadyInv, QuietInv, Quiet
    <3>2. Reasons(eng, {}, {})
      BY <3>1 DEF Reasons, ExpectedComes, NoWait
    <3> QED BY <2>1, <3>2, LessReason DEF Explained
  <2> QED BY <1>4, <2>2, <2>3 DEF SwitchMode
<1> QED BY <1>2, <1>3, <1>4 DEF PrepareModeChange

\* An event of the batch is sent: what the engine wants down stays the same.
LEMMA SendExplained ==
  ASSUME SteadyAssumption, RInv, SteadyInv, NewestInv, StuckInv, NEW ok \in Outcomes, SendOne(ok)
  PROVE  Explained'
<1> DEFINE after == SlotsAfter(TRUE)
           q == Tail(eng.out)
           rest == [eng EXCEPT !.out = q]
           h == Head(eng.out)
<1>1. /\ EngineTyped /\ ok = TRUE /\ ~Idle /\ eng \in EngineState /\ Undisturbed /\ Meant
      /\ table.held \in SUBSET Keys /\ Explained
  BY DEF RInv, RoutingTypes, EngineTyped, Typed, SteadyInv, SteadyAssumption, Outcomes,
         SendOne, FlushOne, StuckInv
<1>2. /\ table' = after /\ config' = config /\ Elsewhere
      /\ eng' = IF rest.out = <<>> THEN Commit(rest, after.held) ELSE rest
  BY <1>1 DEF SendOne, FlushOne, SlotsAfter
<1> SUFFICES ASSUME config.mode # "OFF"
             PROVE  Reasons(eng', IF Running' THEN {} ELSE Keys, {})
  BY <1>2 DEF Explained
<1>3. /\ h.key \in Keys
      /\ after.held = IF h.down THEN table.held \union {h.key} ELSE table.held \ {h.key}
  BY <1>1, SentMine
<1> HIDE DEF after
<1>4. after.held \in SUBSET Keys
  BY <1>1, <1>3
<1>5. q \in Seq(EventSet) /\ eng.out \in Seq(EventSet) /\ eng.out # <<>>
  BY <1>1 DEF EngineState, EventSet, Idle
<1>6. Applied(table.held, eng.out) = Applied(after.held, q)
  <2>1. \A x \in EventSet : x.key \in Keys /\ x.down \in BOOLEAN
    BY DEF EventSet
  <2>2. Applied(table.held, eng.out) =
          Applied(IF h.down THEN table.held \union {h.key} ELSE table.held \ {h.key}, q)
    BY <1>1, <1>5, <2>1, TailApplied
  <2> QED BY <1>3, <2>2
<1> HIDE DEF q, h
<1>7. /\ rest \in EngineState /\ rest.out = q
      /\ rest.phys = eng.phys /\ rest.last = eng.last /\ rest.socd = eng.socd
      /\ rest.expect = eng.expect /\ rest.axisState = eng.axisState
      /\ rest.logical = eng.logical /\ rest.native = eng.native
      /\ rest.suspended = eng.suspended /\ rest.armed = eng.armed /\ rest.expired = eng.expired
  BY <1>1, <1>5 DEF EngineState, EventSet
<1> HIDE DEF rest
<1>8. Served(rest, after.held, config.mode)
  <2>1. Served(eng, table.held, config.mode)
    BY DEF NewestInv
  <2>2. Carried(rest, after.held)
    BY <1>6, <1>7, <2>1 DEF Served, Carried
  <2>3. Overlapped(rest, config.mode)
    BY <1>7, <2>1, SameOrder DEF Served
  <2> QED BY <1>7, <2>1, <2>2, <2>3 DEF Served
<1>9. eng' = rest
  <2>1. rest.out = <<>> => Commit(rest, after.held) = rest
    BY <1>4, <1>7, <1>8, CommitServed
  <2> QED BY <1>2, <2>1
<1>10. Running' <=> Running
  BY <1>2, <1>7, <1>9 DEF Elsewhere, Running
<1> DEFINE X == IF Running THEN {} ELSE Keys
<1>11. Reasons(eng, X, {})
  BY <1>1 DEF Explained
<1> HIDE DEF X
<1>12. Reasons(rest, X, {})
  BY <1>7, <1>11, SameReasons
<1> QED BY <1>9, <1>10, <1>12 DEF X

\* Timers expire.
LEMMA TimerExplained ==
  ASSUME RInv, SteadyInv, NewestInv, StuckInv, (\E k \in Keys : FireTimer(k)) \/ DrainExpired
  PROVE  Explained'
<1> DEFINE X == IF Running THEN {} ELSE Keys
<1>1. /\ EngineTyped /\ Typed(eng) /\ eng \in EngineState /\ published \in Identity
      /\ table.held \in SUBSET Keys
      /\ config.mode # "OFF" => Served(eng, table.held, config.mode) /\ Reasons(eng, X, {})
  <2>1. EngineTyped /\ NewestInv /\ Explained
    BY DEF RInv, RoutingTypes, StuckInv
  <2>2. config.mode # "OFF" => Served(eng, table.held, config.mode) /\ Reasons(eng, X, {})
    BY <2>1 DEF NewestInv, Explained
  <2> HIDE DEF X
  <2> QED BY <2>1, <2>2 DEF EngineTyped, Typed
<1>2. config' = config /\ todo' = todo
  BY Zenon DEF FireTimer, TimerFire, DrainExpired, DrainTimer, Submit, Elsewhere
<1>3. ASSUME eng'.suspended = eng.suspended, Reasons(eng', X, {})
      PROVE  Explained'
  <2>1. Running' <=> Running
    BY <1>2, <1>3 DEF Running
  <2> QED BY <1>3, <2>1 DEF Explained
<1> SUFFICES ASSUME config.mode # "OFF" PROVE Explained'
  BY <1>2 DEF Explained
<1> HIDE DEF X
<1>4. ASSUME NEW k \in Keys, FireTimer(k) PROVE Explained'
  <2> DEFINE e == [eng EXCEPT !.armed[k] = NoTimer, !.expired = Append(@, <<k, eng.armed[k]>>)]
  <2>1. eng' = e
    BY <1>4 DEF FireTimer, TimerFire
  <2>2. e.suspended = eng.suspended
    BY <1>1 DEF EngineState
  <2>3. Reasons(e, X, {})
    BY <1>1, FireReasons
  <2> HIDE DEF e
  <2> QED BY <1>3, <2>1, <2>2, <2>3
<1>5. CASE DrainExpired
  <2> DEFINE k  == Head(eng.expired)[1]
             id == Head(eng.expired)[2]
             t  == eng.expectTarget[k]
             c  == Situation(t, NoKey, {})
             e  == Rest(eng)
             r  == OnTimerExpired(e, k, id, c)
  <2>1. /\ Idle /\ eng.expired # <<>>
        /\ IF IsExpected(eng, k, id) THEN Submit(r, t) ELSE eng' = e
        /\ c.mode = config.mode
    BY <1>5 DEF DrainExpired, DrainTimer, Rest, Situation
  <2>2. Reasons(e, X, {k}) /\ (eng.expect[k] # id => Reasons(e, X, {}))
    BY <1>1, <2>1, RestReasons
  <2>3. Head(eng.expired) \in Keys \X TimerIds
    BY <1>1, <2>1, HeadTailProperties DEF EngineState
  <2>4. k \in Keys /\ id \in TimerIds /\ id # NoTimer
    BY <2>3, TimerAssumption
  <2> HIDE DEF k, id, c
  <2>5. /\ Typed(e) /\ e.phys = eng.phys /\ e.last = eng.last /\ e.socd = eng.socd
        /\ e.expect = eng.expect /\ e.axisState = eng.axisState /\ e.logical = eng.logical
        /\ e.native = eng.native /\ e.out = eng.out /\ e.suspended = eng.suspended
    <3> DEFINE q == Tail(eng.expired)
    <3>1. q \in Seq(Keys \X TimerIds) /\ Len(q) <= MaxExpired
      <4>1. eng.expired \in Seq(Keys \X TimerIds) /\ Len(eng.expired) <= MaxExpired
        BY <1>1 DEF Typed, EngineState
      <4> QED BY <2>1, <4>1, EngineAssumption
    <3>2. e = [eng EXCEPT !.expired = q]
      BY DEF Rest
    <3> HIDE DEF q, e
    <3> QED BY <1>1, <3>1, <3>2 DEF Typed, EngineState, LastIsOfAxis
  <2> HIDE DEF e
  <2>6. CASE IsExpected(eng, k, id)
    <3>1. Alike(e, r, published) /\ Typed(r)
      BY <1>1, <2>4, <2>5, OnTimerExpiredAlike, AlikeTyped
    <3>2. Served(e, table.held, config.mode)
      BY <1>1, <2>5, SameOrder DEF Served, Carried
    <3>3. Step(k, Opposite[k])
      BY <2>4, Axis
    <3>4. e.expect[k] = id /\ c.mode # "OFF" /\ Overlapped(e, c.mode)
      BY <2>1, <2>5, <2>6, <3>2 DEF IsExpected, Served
    <3>5. Works(e, r, AxisOf(k)) /\ Overlapped(r, c.mode)
      BY <2>4, <2>5, <3>3, <3>4, TimerOrdered
    <3>6. Reasons(r, X, {})
      BY <2>2, <2>4, <2>5, <3>4, TimerReasons
    <3> HIDE DEF r
    <3>7. Served(r, table.held, config.mode)
      BY <1>1, <2>1, <3>1, <3>2, <3>5 DEF Served, Works, Follows, Alike
    <3>8. eng' = r
      BY <1>1, <2>1, <2>6, <3>1, <3>7, SubmitServed
    <3>9. r.suspended = eng.suspended
      BY <2>5, <3>1 DEF Alike
    <3> QED BY <1>3, <3>6, <3>8, <3>9
  <2>7. CASE ~IsExpected(eng, k, id)
    BY <1>3, <2>1, <2>2, <2>5, <2>7 DEF IsExpected
  <2> QED BY <2>6, <2>7
<1> QED BY <1>4, <1>5

\* Every step of the specification keeps it.
LEMMA StuckStep ==
  ASSUME SteadyAssumption, ~RefusalAllowed
  PROVE  RInv /\ SteadyInv /\ NewestInv /\ StuckInv /\ [RoutingNext]_allVars => StuckInv'
<1> SUFFICES ASSUME RInv, SteadyInv, NewestInv, StuckInv, [RoutingNext]_allVars PROVE Explained'
  BY OwnDownStep DEF StuckInv
<1>1. Explained
  BY DEF StuckInv
<1>2. ASSUME NEW k \in PlayerKeys, HookKey(k) PROVE Explained'
  <2>1. UNCHANGED <<eng, config, todo>>
    BY <1>2 DEF HookKey, vars
  <2> QED BY <1>1, <2>1, ExplainedAlone DEF Running
<1>3. CASE \/ \E k \in PlayerKeys : RepeatKey(k) \/ StaleEdge(k) \/ NativeKey(k)
           \/ \E t \in Identity : Focus(t)
           \/ WinEvent \/ Resolve \/ PressF6 \/ ModeRequest \/ InstallHook \/ InstallPoll
           \/ RoutedInputReady \/ RouteMore \/ EndDrain
           \/ LoseFocus \/ RegainFocus \/ KeepFocus \/ EmergencyUnhook
           \/ UNCHANGED allVars
  <2>1. UNCHANGED vars /\ (todo = "rebuild" => todo' = todo)
    BY <1>3, AloneLeaves
  <2>2. UNCHANGED <<eng, config>> /\ (Running' => Running)
    BY <2>1 DEF Running, vars
  <2> QED BY <1>1, <2>2, ExplainedAlone
<1>4. CASE ToggleSuspendSent \/ ToggleSuspendPosted
  BY <1>4, ToggleExplained DEF ToggleSuspendSent, ToggleSuspendPosted
<1>5. CASE Route
  BY <1>5, RouteExplained
<1>6. CASE Rebuild
  BY <1>6, RebuildExplained
<1>7. CASE PrepareModeChange \/ \E mode \in ModesAllowed : SwitchMode(mode)
  BY <1>7, ModeExplained
<1>8. ASSUME NEW ok \in Outcomes, SendOne(ok) PROVE Explained'
  BY <1>8, SendExplained
<1>9. CASE (\E k \in Keys : FireTimer(k)) \/ DrainExpired \/ PumpReleases
  BY <1>9, TimerExplained, SteadyExcludes
<1> QED BY <1>2, <1>3, <1>4, <1>5, <1>6, <1>7, <1>8, <1>9 DEF RoutingNext, OwnerStep

LEMMA StuckInit ==
  RoutingInit => StuckInv
<1> SUFFICES ASSUME RoutingInit PROVE StuckInv
  OBVIOUS
<1>1. eng = InitialEngine(Favourite) /\ systemDown = {} /\ timers
  BY DEF RoutingInit, Init
<1>2. eng.logical = {} /\ \A k \in Keys : eng.expect[k] = NoTimer
  BY <1>1 DEF InitialEngine
<1>3. \A X : Reasons(eng, X, {})
  BY <1>2 DEF Reasons, ExpectedComes
<1> QED BY <1>1, <1>3 DEF StuckInv, OwnDown, Explained

(* Outside OFF: once everything has settled with the game in front and the *)
(* engine running, every movement key that is down for the system is one   *)
(* the player holds or one a live timer will release, through bursts,      *)
(* overlaps, pauses with recorded edges, rebuilds and mode changes, as     *)
(* long as the target stays in front, no event is refused or lost and the  *)
(* timer service admits every timer (input_router.cpp,                     *)
(* timer_lifecycle.cpp, state_reconciliation.cpp).                         *)
THEOREM RoutingSettledNothingStuck ==
  ASSUME SteadyAssumption, ~RefusalAllowed
  PROVE  RoutingSpec => []SettledNothingStuck
<1>1. RoutingInit => SteadyInv /\ NewestInv /\ StuckInv
  BY SteadyInit, NewestInit, StuckInit
<1>2. RInv /\ SteadyInv /\ NewestInv /\ StuckInv /\ [RoutingNext]_allVars
        => (SteadyInv /\ NewestInv /\ StuckInv)'
  BY SteadyStep, NewestStep, StuckStep
<1>3. RInv /\ SteadyInv /\ NewestInv /\ StuckInv => SettledNothingStuck
  <2> SUFFICES ASSUME RInv, SteadyInv, NewestInv, StuckInv, config.mode # "OFF", Settled,
                      ~eng.suspended, NEW k \in systemDown \intersect Keys, k \notin down
               PROVE  Live(k)
    BY DEF SettledNothingStuck, NothingStuck
  <2>1. /\ todo = "none" /\ eng.out = <<>> /\ routed = <<>> /\ Running
        /\ table.held \in SUBSET Keys /\ Carried(eng, table.held) /\ eng.phys \in SUBSET Keys
        /\ hooked /\ ~Posts("unhook") /\ ledger = down
    BY DEF Settled, OwnerFree, Idle, Running, NewestInv, Served, RInv, RoutingTypes, EngineTyped,
           Typed, EngineState, SteadyInv, Undisturbed
  <2>2. k \in eng.logical
    <3>1. k \in table.held
      BY DEF StuckInv, OwnDown
    <3> QED BY <2>1, <3>1, CarriedIdle
  <2>3. k \notin eng.phys
    <3>1. Applied(eng.phys, routed) = ledger
      BY <2>1 DEF RInv, NoEdgeLost
    <3> QED BY <2>1, <3>1, AppliedEmpty
  <2>4. Reasons(eng, {}, {})
    BY <2>1 DEF StuckInv, Explained
  <2>5. eng.expect[k] # NoTimer /\ ExpectedComes(eng, k)
    BY <2>2, <2>3, <2>4 DEF Reasons
  <2> QED BY <2>5 DEF ExpectedComes, Live
<1> QED BY <1>1, <1>2, <1>3, RoutingInvariant, PTL DEF RoutingSpec

-----------------------------------------------------------------------------
(* Outside OFF, where no key release starts a brake: the engine waits for  *)
(* the ends of overlaps only.                                              *)

\* On ax the engine waits for nothing but the end of the overlap.
OverlapOnly(e, ax) == \A j \in ax : e.expect[j] # NoTimer => e.expect[j] = e.socd[ax]
OnlyOverlaps(e) == \A k \in Keys : OverlapOnly(e, AxisOf(k))

\* On ax it waits for nothing.
Timeless(e, ax) == e.socd[ax] = NoTimer /\ \A j \in ax : e.expect[j] = NoTimer

\* A handler that works on one axis has to be looked at on that axis only.
LEMMA AxisOverlaps ==
  ASSUME NEW e, OnlyOverlaps(e), NEW k, NEW o, Step(k, o), NEW r, Works(e, r, AxisOf(k)),
         OverlapOnly(r, AxisOf(k))
  PROVE  OnlyOverlaps(r)
<1> SUFFICES ASSUME NEW i \in Keys, NEW j \in AxisOf(i), r.expect[j] # NoTimer
             PROVE  r.expect[j] = r.socd[AxisOf(i)]
  BY DEF OnlyOverlaps, OverlapOnly
<1>1. CASE AxisOf(i) = AxisOf(k)
  BY <1>1 DEF OverlapOnly
<1>2. CASE AxisOf(i) # AxisOf(k)
  <2>1. j \in Keys /\ AxisOf(j) = AxisOf(i) /\ j \in AxisOf(j)
    <3>1. Step(i, Opposite[i])
      BY Axis
    <3> QED BY <3>1 DEF Step
  <2>2. j \notin AxisOf(k)
    BY <1>2, <2>1, AxisFacts DEF Step
  <2>3. r.expect[j] = e.expect[j] /\ r.socd[AxisOf(j)] = e.socd[AxisOf(j)]
    BY <2>1, <2>2 DEF Works
  <2> QED BY <2>1, <2>3 DEF OnlyOverlaps, OverlapOnly
<1> QED BY <1>1, <1>2

\* What is left on an axis where the engine waits for overlaps only, when
\* there is no overlap or it is cancelled.
LEMMA OverlapsEnd ==
  ASSUME NEW e, Typed(e), OnlyOverlaps(e), NEW k \in Keys
  PROVE  LET ax == AxisOf(k)
         IN  /\ e.socd[ax] = NoTimer => Timeless(e, ax)
             /\ Timeless(CancelSocdTransition(e, ax), ax)
             /\ Timeless(Moved(e, ax), ax)
<1> DEFINE ax == AxisOf(k)
           d == CancelSocdTransition(e, ax)
           m == Moved(e, ax)
<1>1. OverlapOnly(e, ax)
  BY DEF OnlyOverlaps
<1>2. e.socd[ax] = NoTimer => Timeless(e, ax)
  BY <1>1 DEF OverlapOnly, Timeless
<1>3. e \in EngineState /\ ax \in SUBSET Keys
  BY AxisFacts DEF Typed
<1>4. /\ d \in EngineState /\ d.socd[ax] = NoTimer
      /\ \A j \in Keys :
           LET hit == j \in ax /\ e.socd[ax] # NoTimer /\ e.expect[j] = e.socd[ax]
           IN  d.expect[j] = IF hit THEN NoTimer ELSE e.expect[j]
  BY <1>3, CancelFields
<1>5. m = [d EXCEPT !.axisState[ax] = e.phys \intersect ax]
  BY DEF Moved
<1> HIDE DEF d, m, ax
<1>6. Timeless(d, ax)
  BY <1>1, <1>3, <1>4 DEF OverlapOnly, Timeless
<1>7. m.socd = d.socd /\ m.expect = d.expect
  BY <1>4, <1>5 DEF EngineState
<1>8. Timeless(m, ax)
  BY <1>6, <1>7 DEF Timeless
<1> QED BY <1>2, <1>6, <1>8 DEF ax, d, m

\* Keys go down and up, and a key is not waited for: it stays so.
LEMMA StepsTimeless ==
  ASSUME NEW e, Typed(e), NEW ax \in Axes, Timeless(e, ax), NEW j \in Keys
  PROVE  /\ Timeless(PressIfUp(e, j), ax) /\ Timeless(ReleaseIfDown(e, j), ax)
         /\ Timeless(StopExpecting(e, j), ax)
<1>1. e \in EngineState /\ ax \in SUBSET Keys
  BY AxisFacts DEF Typed, Axes
<1>2. Timeless(PressIfUp(e, j), ax)
  BY <1>1, PressFields DEF Timeless
<1>3. Timeless(ReleaseIfDown(e, j), ax)
  BY <1>1, ReleaseFields DEF Timeless
<1>4. Timeless(StopExpecting(e, j), ax)
  BY <1>1, StopFields DEF Timeless
<1> QED BY <1>2, <1>3, <1>4

\* ResolveConflict: the timer that is armed ends the overlap.
LEMMA ConflictOverlaps ==
  ASSUME NEW e, Typed(e), NEW k, NEW o, Step(k, o), e.last[AxisOf(k)] = k,
         Timeless(e, AxisOf(k)), NEW press, NEW c, c.target \in Identity
  PROVE  OverlapOnly(ResolveConflict(e, AxisOf(k), press, c), AxisOf(k))
<1> DEFINE ax == AxisOf(k)
           idle == DisarmAll(e, ax)
           timed == ScheduleTimer(idle, o)
           x == Expect(timed, o, c.target)
           kept == [x EXCEPT !.socd[ax] = timed.armed[o]]
           freed == ReleaseIfDown(idle, o)
           r == ResolveConflict(e, ax, press, c)
<1>1. /\ k \in Keys /\ o \in Keys /\ k # o /\ ax = {k, o} /\ ax \in Axes /\ ax \in SUBSET Keys
      /\ o = Opposite[k] /\ e \in EngineState /\ Len(e.expired) <= MaxExpired
  BY DEF Step, Typed
<1>2. /\ idle \in EngineState /\ idle.socd = e.socd /\ idle.expired = e.expired
      /\ \A j \in Keys : idle.expect[j] = IF j \in ax THEN NoTimer ELSE e.expect[j]
  BY <1>1, DisarmFields
<1>3. r \in {idle, PressIfUp(kept, k), PressIfUp(freed, k)}
  BY <1>1 DEF ResolveConflict
<1> HIDE DEF idle, r
<1>4. /\ freed \in EngineState /\ freed.socd = idle.socd /\ freed.expect = idle.expect
  BY <1>1, <1>2, ReleaseFields
<1> HIDE DEF freed
<1>5. /\ timed \in EngineState /\ timed.socd = idle.socd /\ timed.expect = idle.expect
  BY <1>1, <1>2, ScheduleFields
<1> HIDE DEF timed
<1>6. /\ x \in EngineState /\ x.socd = timed.socd
      /\ \A j \in Keys : x.expect[j] = IF j = o THEN timed.armed[o] ELSE timed.expect[j]
  BY <1>1, <1>5, ExpectFields
<1> HIDE DEF x
<1>7. kept \in EngineState /\ kept.socd[ax] = timed.armed[o] /\ kept.expect = x.expect
  BY <1>1, <1>5, <1>6 DEF EngineState
<1> HIDE DEF kept
<1>8. /\ PressIfUp(kept, k).socd = kept.socd /\ PressIfUp(kept, k).expect = kept.expect
      /\ PressIfUp(freed, k).socd = freed.socd /\ PressIfUp(freed, k).expect = freed.expect
  BY <1>1, <1>4, <1>7, PressFields
<1>9. idle.expect[k] = NoTimer /\ idle.expect[o] = NoTimer
  BY <1>1, <1>2
<1>10. \A n \in {idle, PressIfUp(freed, k)} : n.expect[k] = NoTimer /\ n.expect[o] = NoTimer
  BY <1>4, <1>8, <1>9
<1>11. LET n == PressIfUp(kept, k)
       IN  n.expect[k] = NoTimer /\ n.expect[o] = n.socd[ax]
  BY <1>1, <1>5, <1>6, <1>7, <1>8, <1>9
<1>12. r.expect[k] = NoTimer /\ (r.expect[o] = NoTimer \/ r.expect[o] = r.socd[ax])
  BY <1>3, <1>10, <1>11
<1>13. OverlapOnly(r, ax)
  BY <1>1, <1>12 DEF OverlapOnly
<1> QED BY <1>13 DEF r

\* ResolveAxis, from an axis where nothing is waited for.
LEMMA ResolveOverlaps ==
  ASSUME NEW e, Typed(e), NEW k, NEW o, Step(k, o), Timeless(e, AxisOf(k)),
         NEW press \in BOOLEAN, NEW c, c.mode # "OFF", c.target \in Identity,
         AxisOf(k) \subseteq e.phys => e.last[AxisOf(k)] = k, OnlyOverlaps(e)
  PROVE  LET r == ResolveAxis(e, AxisOf(k), press, c)
         IN  /\ OverlapOnly(r, AxisOf(k))
             /\ ~(AxisOf(k) \subseteq e.phys) => Timeless(r, AxisOf(k))
<1> DEFINE ax == AxisOf(k)
           m == Moved(e, ax)
           now == e.phys \intersect ax
           only == CHOOSE j \in now : TRUE
           opp == Opposite[only]
           stopped == StopExpecting(m, opp)
           r == ResolveAxis(e, ax, press, c)
<1>1. /\ k \in Keys /\ ax \in Axes /\ ax \in SUBSET Keys /\ e \in EngineState
      /\ now \in SUBSET Keys
  BY AxisFacts DEF Step, Typed
<1>2. Timeless(m, ax)
  BY <1>1, OverlapsEnd
<1>3. Typed(m) /\ m.phys = e.phys /\ m.last[ax] = e.last[ax]
  <2>1. IsMoved(e, m, k, o)
    BY <1>1, MovedStep
  <2>2. Works(e, m, ax)
    BY <1>1, MovedWorks
  <2> HIDE DEF m, now, ax
  <2> QED BY <2>1, <2>2 DEF IsMoved, Ended, Works, ax
<1>4. r = CASE now = e.axisState[ax] /\ ~(press /\ now = ax) -> e
            [] ~(now = e.axisState[ax] /\ ~(press /\ now = ax)) ->
                 CASE now = ax -> ResolveConflict(m, ax, press, c)
                   [] now = {} -> m
                   [] now \notin {ax, {}} /\ e.axisState[ax] = ax -> Engage(m, only, c)
                   [] now \notin {ax, {}} /\ e.axisState[ax] # ax ->
                        CancelStaleCounterStrafe(m, opp)
  <2> HIDE DEF ax, only
  <2> QED BY DEF ResolveAxis, Moved, only
<1>5. ax \subseteq e.phys <=> now = ax
  OBVIOUS
<1> HIDE DEF m, now
<1>6. now = ax => OverlapOnly(ResolveConflict(m, ax, press, c), ax)
  BY <1>1, <1>2, <1>3, <1>5, ConflictOverlaps
<1>7. ASSUME now # {}
      PROVE  /\ Timeless(Engage(m, only, c), ax)
             /\ Timeless(CancelStaleCounterStrafe(m, opp), ax)
  <2>1. only \in Keys /\ opp \in Keys
    BY <1>1, <1>7, AxisFacts
  <2> HIDE DEF only, opp
  <2>2. Timeless(PressIfUp(m, only), ax)
    BY <1>1, <1>2, <1>3, <2>1, StepsTimeless
  <2>3. Timeless(stopped, ax) /\ Typed(stopped)
    <3>1. Timeless(stopped, ax)
      BY <1>1, <1>2, <1>3, <2>1, StepsTimeless
    <3>2. Typed(stopped)
      BY <1>3, <2>1, StepsKeep, KeepsTyped DEF Identity
    <3> QED BY <3>1, <3>2
  <2> HIDE DEF stopped
  <2>4. Timeless(ReleaseIfDown(stopped, opp), ax)
    BY <1>1, <2>1, <2>3, StepsTimeless
  <2> QED BY <2>2, <2>3, <2>4 DEF Engage, CancelStaleCounterStrafe, stopped
<1> HIDE DEF only, opp, r
<1>8. \/ now = ax /\ r = ResolveConflict(m, ax, press, c)
      \/ r = e \/ r = m
      \/ now # {} /\ now # ax /\ r = Engage(m, only, c)
      \/ now # {} /\ now # ax /\ r = CancelStaleCounterStrafe(m, opp)
  BY <1>4
<1>9. \A n : Timeless(n, ax) => OverlapOnly(n, ax)
  BY DEF Timeless, OverlapOnly
<1>10. OverlapOnly(r, ax) /\ (now # ax => Timeless(r, ax))
  BY <1>2, <1>6, <1>7, <1>8, <1>9
<1> QED BY <1>5, <1>10 DEF r

\* Transitions cancelled on several axes at once.
LEMMA CancelAllOverlaps ==
  ASSUME NEW e \in EngineState, NEW A, OnlyOverlaps(e)
  PROVE  OnlyOverlaps(CancelTransitions(e, A))
<1> DEFINE T == UNION {InTransition(e, ax) : ax \in A}
           S == T \intersect Keys
           d == DisarmAll(e, T)
           r == [d EXCEPT !.socd = [ax \in Axes |-> IF ax \in A THEN NoTimer ELSE @[ax]]]
<1>1. CancelTransitions(e, A) = r
  BY DEF CancelTransitions
<1>2. DisarmAll(e, T) = DisarmAll(e, S)
  BY DEF DisarmAll
<1>3. \A ax \in A : \A j \in ax \intersect Keys :
        e.socd[ax] # NoTimer /\ e.expect[j] = e.socd[ax] => j \in S
  BY DEF InTransition
<1> HIDE DEF T
<1>4. S \in SUBSET Keys
  OBVIOUS
<1> HIDE DEF S
<1>5. /\ d \in EngineState /\ d.socd = e.socd
      /\ \A j \in Keys : d.expect[j] = IF j \in S THEN NoTimer ELSE e.expect[j]
  BY <1>2, <1>4, DisarmFields
<1> HIDE DEF d
<1>6. /\ r.expect = d.expect
      /\ \A ax \in Axes : r.socd[ax] = IF ax \in A THEN NoTimer ELSE d.socd[ax]
  BY <1>5 DEF EngineState
<1> HIDE DEF r
<1>7. ASSUME NEW k \in Keys, NEW j \in AxisOf(k), r.expect[j] # NoTimer
      PROVE  r.expect[j] = r.socd[AxisOf(k)]
  <2>1. j \in Keys /\ AxisOf(k) \in Axes
    BY AxisFacts
  <2>2. j \notin S /\ r.expect[j] = e.expect[j] /\ e.expect[j] # NoTimer
    BY <1>5, <1>6, <1>7, <2>1
  <2>3. e.expect[j] = e.socd[AxisOf(k)]
    BY <1>7, <2>2 DEF OnlyOverlaps, OverlapOnly
  <2>4. AxisOf(k) \notin A
    BY <1>3, <1>7, <2>1, <2>2, <2>3
  <2> QED BY <1>5, <1>6, <2>1, <2>2, <2>3, <2>4
<1> QED BY <1>1, <1>7 DEF OnlyOverlaps, OverlapOnly

\* HandleKeyDown: the axis is free, or becomes a conflict.
LEMMA KeyDownOverlaps ==
  ASSUME NEW e, Typed(e), NEW k \in Keys, k \notin e.phys, NEW route \in BOOLEAN,
         NEW c, c.mode # "OFF", c.target \in Identity, c.held \subseteq Slots,
         Overlapped(e, c.mode), OnlyOverlaps(e)
  PROVE  OnlyOverlaps(HandleKeyDown(e, k, route, c))
<1> DEFINE ax == AxisOf(k)
           o == Opposite[k]
           n == Recorded(e, k, c)
           on == TRUE
           z == ResolveAxis(n, ax, on, c)
           r == HandleKeyDown(e, k, route, c)
<1>1. Step(k, o) /\ on \in BOOLEAN
  BY Axis
<1> HIDE DEF o
<1>2. Timeless(e, ax) /\ ax \in Axes /\ ax = {k, o}
  <2>1. e.socd[ax] = NoTimer
    BY DEF Overlapped, OverlapIsOfLoser
  <2> QED BY <1>1, <2>1, OverlapsEnd DEF Step
<1>3. r = IF ~route THEN n ELSE IF z.axisState[ax] = ax THEN z ELSE PressIfUp(z, k)
  <2>1. Engage(z, k, c) = PressIfUp(z, k)
    BY DEF Engage
  <2>2. CASE ~route
    BY <2>2 DEF HandleKeyDown, Recorded
  <2>3. CASE route
    <3>1. r = IF z.axisState[ax] = ax THEN z ELSE Engage(z, k, c)
      BY <2>3 DEF HandleKeyDown, Recorded
    <3> HIDE DEF z, r
    <3> QED BY <2>1, <2>3, <3>1
  <2> QED BY <2>2, <2>3
<1>4. Works(e, n, ax) /\ Typed(n) /\ n.last[ax] = k
  <2>1. Works(e, n, ax) /\ n.last[ax] = k
    BY <1>1, RecordedWorks
  <2> HIDE DEF n
  <2> QED BY <2>1 DEF Works
<1>5. Timeless(n, ax)
  <2>1. IsRecorded(e, n, k, o, c)
    BY <1>1, RecordedStep DEF Typed
  <2> HIDE DEF n, ax
  <2> QED BY <1>2, <2>1 DEF IsRecorded, Timeless, ax
<1> HIDE DEF n, r
<1>6. \A y : Timeless(y, ax) => OverlapOnly(y, ax)
  BY DEF Timeless, OverlapOnly
<1>7. OnlyOverlaps(n)
  BY <1>1, <1>4, <1>5, <1>6, AxisOverlaps
<1>8. /\ OverlapOnly(z, ax)
      /\ ~(ax \subseteq n.phys) => Timeless(z, ax)
  BY <1>1, <1>4, <1>5, <1>7, ResolveOverlaps
<1>9. Alike(n, z, c.target) /\ Typed(z)
  BY <1>1, <1>4, ResolveAxisAlike, AlikeTyped
<1> HIDE DEF z
<1>10. PressIfUp(z, k).socd = z.socd /\ PressIfUp(z, k).expect = z.expect
  BY <1>9, PressFields DEF Typed
<1>11. OverlapOnly(r, ax)
  BY <1>3, <1>5, <1>6, <1>8, <1>10 DEF OverlapOnly
<1>12. Works(e, r, ax)
  BY KeyDownOrdered DEF r
<1>13. OnlyOverlaps(r)
  BY <1>1, <1>11, <1>12, AxisOverlaps
<1> QED BY <1>13 DEF r

\* HandleKeyUp, when no brake starts: an axis with a key up has no overlap.
LEMMA KeyUpOverlaps ==
  ASSUME NEW e, Typed(e), NEW k \in Keys, NEW route \in BOOLEAN,
         NEW c, c.mode # "OFF", c.target \in Identity, c.held \subseteq Slots,
         c.travel = NoKey, Overlapped(e, c.mode), OnlyOverlaps(e)
  PROVE  OnlyOverlaps(HandleKeyUp(e, k, route, c))
<1> DEFINE ax == AxisOf(k)
           o == Opposite[k]
           u == Lifted(e, k, c)
           freed == ReleaseIfDown(u, k)
           off == FALSE
           end(x) == ResolveAxis(x, ax, off, c)
           r == HandleKeyUp(e, k, route, c)
<1>1. Step(k, o) /\ off \in BOOLEAN /\ o = Opposite[k] /\ k \in ax /\ ax \in Axes
      /\ ax = {k, o} /\ ax \in SUBSET Keys
  BY Axis DEF Step
<1> HIDE DEF o
<1>2. \A y : Timeless(y, ax) => OverlapOnly(y, ax)
  BY DEF Timeless, OverlapOnly
<1>3. ASSUME NEW x, Typed(x), OnlyOverlaps(x), Timeless(x, ax), k \notin x.phys
      PROVE  Timeless(end(x), ax)
  <2>1. ~(ax \subseteq x.phys)
    BY <1>1, <1>3
  <2> QED BY <1>1, <1>3, <2>1, ResolveOverlaps
<1>4. Works(e, r, ax)
  BY KeyUpOrdered
<1>5. CASE k \notin e.phys
  <2>1. e.socd[ax] = NoTimer
    BY <1>5 DEF Overlapped, OverlapIsOfLoser
  <2>2. Timeless(e, ax)
    BY <2>1, OverlapsEnd
  <2>3. r = IF route THEN end(e) ELSE e
    BY <1>5 DEF HandleKeyUp
  <2>4. Timeless(end(e), ax)
    BY <1>3, <1>5, <2>2
  <2> HIDE DEF end, r
  <2>5. OverlapOnly(r, ax)
    BY <1>2, <2>2, <2>3, <2>4
  <2>6. OnlyOverlaps(r)
    BY <1>1, <1>4, <2>5, AxisOverlaps
  <2> QED BY <2>6 DEF r
<1>6. CASE k \in e.phys
  <2>1. Works(e, u, ax) /\ Typed(u) /\ u.phys = e.phys \ {k}
    <3>1. Works(e, u, ax) => Typed(u)
      BY DEF Works
    <3> QED BY <1>1, <3>1, LiftedWorks
  <2>2. Timeless(u, ax)
    <3>1. IsLifted(e, u, k, o, c)
      BY <1>1, LiftedStep DEF Typed
    <3>2. OverlapOnly(e, ax)
      BY DEF OnlyOverlaps
    <3> HIDE DEF u, ax
    <3> QED BY <1>1, <3>1, <3>2 DEF IsLifted, Timeless, OverlapOnly, ax
  <2>3. r = IF route THEN RoutedKeyUp(u, k, c) ELSE u
    BY <1>6 DEF HandleKeyUp, Lifted
  <2> HIDE DEF u, r
  <2>4. OnlyOverlaps(u)
    BY <1>1, <1>2, <2>1, <2>2, AxisOverlaps
  <2>5. RoutedKeyUp(u, k, c) = end(freed)
    <3> DEFINE b == AutoCounterStrafe(u, k, c)
               a == CASE MacroBrakePending(u, k) -> <<TRUE, u>>
                      [] ~MacroBrakePending(u, k) /\ Opposite[k] \notin u.phys -> b
                      [] ~MacroBrakePending(u, k) /\ Opposite[k] \in u.phys -> <<FALSE, u>>
    <3>1. RoutedKeyUp(u, k, c) = end(IF a[1] THEN a[2] ELSE ReleaseIfDown(a[2], k))
      BY DEF RoutedKeyUp
    <3>2. ~MacroBrakePending(u, k)
      BY <1>1, <2>2 DEF MacroBrakePending, Timeless
    <3>3. b = <<FALSE, u>>
      BY DEF AutoCounterStrafe, NoBrake
    <3> HIDE DEF b
    <3>4. a = <<FALSE, u>>
      BY <3>2, <3>3
    <3> HIDE DEF a, end
    <3> QED BY <3>1, <3>4
  <2>6. Typed(freed) /\ freed.phys = u.phys /\ Timeless(freed, ax) /\ OnlyOverlaps(freed)
    <3>1. Keeps(u, freed, ax)
      BY <2>1, StepsKeep DEF Identity
    <3>2. Timeless(freed, ax)
      BY <1>1, <2>1, <2>2, StepsTimeless
    <3> HIDE DEF freed
    <3>3. Works(u, freed, ax) /\ freed.phys = u.phys /\ Typed(freed)
      BY <3>1, KeepsTyped DEF Keeps, SameKeys
    <3> QED BY <1>1, <1>2, <2>4, <3>2, <3>3, AxisOverlaps
  <2> HIDE DEF freed
  <2>7. Timeless(end(freed), ax)
    <3>1. k \notin freed.phys
      BY <2>1, <2>6
    <3> QED BY <1>3, <2>6, <3>1
  <2> HIDE DEF end
  <2>8. OverlapOnly(r, ax)
    BY <1>2, <2>2, <2>3, <2>5, <2>7
  <2>9. OnlyOverlaps(r)
    BY <1>1, <1>4, <2>8, AxisOverlaps DEF r
  <2> QED BY <2>9 DEF r
<1> QED BY <1>5, <1>6

\* OnTimerExpired: the timer is an overlap's, and the other key has none.
LEMMA TimerOverlaps ==
  ASSUME NEW e, Typed(e), NEW k, NEW o, Step(k, o), NEW id, id # NoTimer, e.expect[k] = id,
         NEW c, c.mode # "OFF", Overlapped(e, c.mode), OnlyOverlaps(e)
  PROVE  OnlyOverlaps(OnTimerExpired(e, k, id, c))
<1> DEFINE ax == AxisOf(k)
           now == e.phys \intersect ax
           a == [e EXCEPT !.expect[k] = NoTimer, !.expectTarget[k] = NoTarget]
           g == [a EXCEPT !.socd[ax] = NoTimer]
           yields == /\ c.mode = "HUMANIZED" /\ ~e.suspended /\ ax \subseteq e.phys
                     /\ e.last[ax] = Opposite[k]
           x == IF yields THEN ReleaseIfDown(g, k) ELSE g
           r == OnTimerExpired(e, k, id, c)
<1>1. /\ k \in Keys /\ o \in Keys /\ ax = {k, o} /\ AxisOf(o) = ax /\ ax \in Axes /\ k # o
      /\ k = Opposite[o] /\ o = Opposite[k] /\ e \in EngineState
  BY DEF Step, Typed
<1>2. e.socd[ax] = id
  BY <1>1 DEF OnlyOverlaps, OverlapOnly
<1>3. e.expect[o] = NoTimer
  <2>1. e.expect[o] # NoTimer => e.expect[o] = e.socd[ax]
    BY <1>1 DEF OnlyOverlaps, OverlapOnly
  <2>2. e.last[ax] = o /\ (e.expect[o] = e.socd[ax] => e.last[ax] = k)
    BY <1>1, <1>2 DEF Overlapped, OverlapIsOfLoser
  <2> QED BY <1>1, <2>1, <2>2
<1>4. r = [x EXCEPT !.axisState[ax] = now]
  <2>1. IsExpected(e, k, id)
    BY DEF IsExpected
  <2> HIDE DEF g, yields
  <2> QED BY <1>2, <2>1 DEF OnTimerExpired, g, yields
<1>5. /\ g \in EngineState /\ g.socd[ax] = NoTimer
      /\ g.expect[k] = NoTimer /\ g.expect[o] = NoTimer
  BY <1>1, <1>3 DEF EngineState, TimerRef, Identity
<1> HIDE DEF g
<1>6. /\ x \in EngineState /\ x.socd = g.socd /\ x.expect = g.expect
  BY <1>1, <1>5, ReleaseFields
<1> HIDE DEF x
<1>7. r.socd = x.socd /\ r.expect = x.expect
  BY <1>4, <1>6 DEF EngineState
<1> HIDE DEF r
<1>8. OverlapOnly(r, ax)
  BY <1>1, <1>5, <1>6, <1>7 DEF OverlapOnly
<1>9. Works(e, r, ax)
  BY TimerOrdered DEF r
<1>10. OnlyOverlaps(r)
  BY <1>8, <1>9, AxisOverlaps
<1> QED BY <1>10 DEF r

\* Where nothing is waited for at all.
LEMMA NoWaitOverlaps ==
  ASSUME NEW e, NoWait(e)
  PROVE  OnlyOverlaps(e)
<1>1. \A k \in Keys : AxisOf(k) \in SUBSET Keys
  BY AxisFacts
<1> QED BY <1>1 DEF NoWait, OnlyOverlaps, OverlapOnly

\* Only these fields matter.
LEMMA SameOverlaps ==
  ASSUME NEW e, OnlyOverlaps(e), NEW r, r.socd = e.socd, r.expect = e.expect
  PROVE  OnlyOverlaps(r)
BY DEF OnlyOverlaps, OverlapOnly

\* RebuildState cancels overlaps together with their timers.
LEMMA RebuildOverlaps ==
  ASSUME NEW e, Typed(e), NEW physical \in SUBSET Keys, NEW c, c.mode # "OFF", OnlyOverlaps(e)
  PROVE  OnlyOverlaps(RebuildState(e, physical, c))
<1> DEFINE p == [e EXCEPT !.phys = physical]
           A == {ax \in Axes : ~(ax \subseteq p.phys)}
           calm == CancelTransitions(p, A)
           known == [ax \in Axes |-> p.phys \intersect ax]
           s == [calm EXCEPT !.axisState = known]
           D == (s.phys \ Suppressed(s)) \union ArmedBrakes(s)
           gone == s.logical \ D
           d == DisarmAll(s, gone)
           out == (d.out \o Events(gone, FALSE)) \o Events(D \ s.logical, TRUE)
           r == [d EXCEPT !.logical = D, !.out = out]
<1>1. /\ p \in EngineState /\ p.phys = physical /\ p.expect = e.expect /\ p.socd = e.socd
  BY DEF Typed, EngineState
<1>2. RebuildState(e, physical, c) = Restore(s, (p.phys \ Suppressed(s)) \union ArmedBrakes(s))
  BY DEF RebuildState, ReconcileLogicalStateFromPhysical
<1> HIDE DEF p
<1>3. /\ calm \in EngineState /\ calm.phys = p.phys /\ OnlyOverlaps(calm)
  <2> HIDE DEF A
  <2>1. OnlyOverlaps(p)
    BY <1>1, SameOverlaps
  <2> QED BY <1>1, <2>1, CancelAllFields, CancelAllOverlaps
<1> HIDE DEF calm
<1>4. known \in [Axes -> SUBSET Keys]
  BY <1>1
<1> HIDE DEF known
<1>5. /\ s \in EngineState /\ s.phys = p.phys /\ s.expect = calm.expect /\ s.socd = calm.socd
  BY <1>3, <1>4 DEF EngineState
<1> HIDE DEF s
<1>6. gone \in SUBSET Keys
  BY <1>5 DEF EngineState
<1>7. Restore(s, D) = r
  BY DEF Restore
<1>8. RebuildState(e, physical, c) = r
  BY <1>2, <1>5, <1>7
<1> HIDE DEF D
<1> HIDE DEF gone
<1>9. /\ d \in EngineState /\ d.socd = s.socd
      /\ \A j \in Keys : d.expect[j] \in {s.expect[j], NoTimer}
  BY <1>5, <1>6, DisarmFields
<1> HIDE DEF d, out
<1>10. r.expect = d.expect /\ r.socd = d.socd
  BY <1>9 DEF EngineState
<1> HIDE DEF r
<1>11. ASSUME NEW k \in Keys PROVE OverlapOnly(r, AxisOf(k))
  <2>1. OverlapOnly(calm, AxisOf(k)) /\ AxisOf(k) \in SUBSET Keys
    BY <1>3, AxisFacts DEF OnlyOverlaps
  <2> QED BY <1>5, <1>9, <1>10, <2>1 DEF OverlapOnly
<1> QED BY <1>8, <1>11 DEF OnlyOverlaps

-----------------------------------------------------------------------------
(* The steps: what the boundary holds is down for the system too.          *)

NoBrakes == config.mode # "OFF" /\ config.mode \notin BrakeModes

\* A release of k waits in the queue.
UpQueued(k) == \E i \in DOMAIN routed : routed[i].key = k /\ ~routed[i].down

\* A key the boundary holds is down for the system, or about to be let go of:
\* by the batch, by its release in the queue, or by the rebuild after a pause.
HeldIsDown ==
  \A k \in table.held : \/ k \in systemDown \/ k \notin eng.logical
                        \/ IF Running THEN UpQueued(k) ELSE k \notin down

KeyDownInv == NoBrakes => OnlyOverlaps(eng) /\ HeldIsDown

\* While edges are acted upon a key the player does not hold is not down.
LEMMA UpIsOff ==
  ASSUME NEW e, Reasons(e, {}, {}), NEW mode, Overlapped(e, mode), OnlyOverlaps(e),
         NEW k \in Keys, k \notin e.phys
  PROVE  k \notin e.logical
<1> SUFFICES ASSUME k \in e.logical PROVE FALSE
  OBVIOUS
<1>1. e.expect[k] # NoTimer
  BY DEF Reasons
<1>2. k \in AxisOf(k)
  <2>1. Step(k, Opposite[k])
    BY Axis
  <2> QED BY <2>1 DEF Step
<1>3. e.expect[k] = e.socd[AxisOf(k)]
  BY <1>1, <1>2 DEF OnlyOverlaps, OverlapOnly
<1> QED BY <1>1, <1>3 DEF Overlapped, OverlapIsOfLoser

\* What the handlers have decided stays so when the boundary's keys are read.
LEMMA CommitOverlaps ==
  ASSUME NEW e \in EngineState, OnlyOverlaps(e), NEW held
  PROVE  OnlyOverlaps(Commit(e, held))
<1>1. Commit(e, held).socd = e.socd /\ Commit(e, held).expect = e.expect
  BY DEF Commit, EngineState
<1> HIDE DEF Commit
<1> QED BY <1>1, SameOverlaps

LEMMA SubmitOverlaps ==
  ASSUME NEW e \in EngineState, OnlyOverlaps(e), NEW t, Submit(e, t)
  PROVE  /\ OnlyOverlaps(eng') /\ UNCHANGED <<table, config>>
         /\ eng'.phys = e.phys /\ eng'.suspended = e.suspended
<1> DEFINE r == Commit(e, table.held)
<1>1. r.phys = e.phys /\ r.suspended = e.suspended
  BY DEF Commit, EngineState
<1>2. OnlyOverlaps(r)
  BY CommitOverlaps
<1>3. (eng' = e \/ eng' = r) /\ UNCHANGED <<table, config>>
  BY DEF Submit
<1> HIDE DEF r
<1> QED BY <1>1, <1>2, <1>3

\* Steps that leave the boundary, the player and the queue alone.
LEMMA HeldKept ==
  ASSUME HeldIsDown, UNCHANGED <<table, down, routed>>, systemDown \subseteq systemDown',
         Running' <=> Running, \A k \in table.held : k \in eng'.logical => k \in eng.logical
  PROVE  HeldIsDown'
BY DEF HeldIsDown, UpQueued

\* Between two batches the engine's keys are the boundary's.
LEMMA IdleHeld ==
  ASSUME RInv, NewestInv, Idle, config.mode # "OFF"
  PROVE  table.held = eng.logical
<1>1. table.held \in SUBSET Keys /\ eng.out = <<>> /\ Carried(eng, table.held)
  BY DEF RInv, RoutingTypes, EngineTyped, Idle, NewestInv, Served
<1> QED BY <1>1, CarriedIdle

\* ReconcileInternal(true) leaves nothing to wait for.
LEMMA LetGoOff ==
  ASSUME EngineTyped, NEW p, Typed(p), p.out = <<>>, NEW t \in Identity,
         Submit(LetGoOfAll(p), t), table.held \subseteq p.logical
  PROVE  eng'.logical = {} /\ NoWait(eng') /\ UNCHANGED <<table, config>>
<1> DEFINE e == LetGoOfAll(p)
<1>1. /\ e \in EngineState /\ e.logical = {} /\ e.native = {}
      /\ \A k \in Keys : e.expect[k] = NoTimer
  BY LetGoFields DEF Typed
<1>2. \A k \in Keys : Falls(e.out, k) <=> k \in p.logical
  BY LetGoOfAllAlike
<1>3. table.held \subseteq Keys
  BY DEF EngineTyped
<1> HIDE DEF e
<1>4. /\ eng' = IF e.out = <<>> THEN Commit(e, table.held) ELSE e
      /\ UNCHANGED <<table, config>>
  BY DEF Submit, e
<1>5. CASE e.out = <<>>
  <2>1. table.held = {}
    BY <1>2, <1>3, <1>5, EmptyBatch
  <2>2. Commit(e, table.held).logical = {} /\ Commit(e, table.held).expect = e.expect
    BY <1>1, <2>1 DEF Commit, EngineState
  <2> QED BY <1>1, <1>4, <1>5, <2>2 DEF NoWait
<1>6. CASE e.out # <<>>
  BY <1>1, <1>4, <1>6 DEF NoWait
<1> QED BY <1>5, <1>6

\* The hook: a press is swallowed only while edges are acted upon, and the
\* release of a key is queued.
LEMMA HookKeyHeld ==
  ASSUME SteadyAssumption, RInv, KeyDownInv, NEW k \in PlayerKeys, HookKey(k)
  PROVE  KeyDownInv'
<1> DEFINE event  == [key |-> k, down |-> k \notin down, route |-> HookRoutes, target |-> seen]
           taken  == IF k \notin down THEN HookRoutes /\ HasRoom /\ config.mode # "OFF"
                     ELSE k \in swallowed \/ (config.mode = "OFF" /\ HookRoutes /\ HoldsBrake(k))
<1>1. /\ UNCHANGED <<eng, table, config, todo>> /\ todo = "none"
      /\ down' = IF k \notin down THEN down \union {k} ELSE down \ {k}
      /\ routed' = Append(routed, event)
      /\ systemDown' = IF taken THEN systemDown
                       ELSE IF k \notin down THEN systemDown \union {k} ELSE systemDown \ {k}
  BY DEF HookKey, Push, SteadyAssumption, vars, OwnerFree
<1>2. eng.suspended => (k \notin down => ~taken)
  BY DEF HookRoutes
<1> HIDE DEF taken
<1>3. routed \in Seq(RoutedEvent) /\ event.key = k /\ event.down = (k \notin down)
  BY DEF RInv, RoutingTypes, RoutingTypeOK
<1> HIDE DEF event
<1>4. /\ \A j : UpQueued(j) => UpQueued(j)'
      /\ k \in down => UpQueued(k)'
  <2>1. /\ \A i \in DOMAIN routed : i \in DOMAIN Append(routed, event)
                                    /\ Append(routed, event)[i] = routed[i]
        /\ Len(routed) + 1 \in DOMAIN Append(routed, event)
        /\ Append(routed, event)[Len(routed) + 1] = event
    BY <1>3
  <2> QED BY <1>1, <1>3, <2>1 DEF UpQueued
<1>5. Running' <=> Running
  BY <1>1 DEF Running
<1> SUFFICES ASSUME NoBrakes PROVE OnlyOverlaps(eng') /\ HeldIsDown'
  BY <1>1 DEF KeyDownInv, NoBrakes
<1>6. OnlyOverlaps(eng) /\ HeldIsDown
  BY DEF KeyDownInv
<1>7. ASSUME NEW j \in table.held
      PROVE  \/ j \in systemDown' \/ j \notin eng'.logical
             \/ IF Running' THEN UpQueued(j)' ELSE j \notin down'
  <2>1. \/ j \in systemDown \/ j \notin eng.logical
        \/ IF Running THEN UpQueued(j) ELSE j \notin down
    BY <1>6 DEF HeldIsDown
  <2>2. CASE j # k
    BY <1>1, <1>4, <1>5, <2>1, <2>2
  <2>3. CASE j = k /\ k \in down
    BY <1>1, <1>4, <1>5, <2>3
  <2>4. CASE j = k /\ k \notin down
    <3>1. CASE Running
      BY <1>1, <1>4, <1>5, <2>1, <2>4, <3>1
    <3>2. CASE ~Running
      <4>1. eng.suspended
        BY <1>1, <3>2 DEF Running
      <4> QED BY <1>1, <1>2, <2>4, <4>1
    <3> QED BY <3>1, <3>2
  <2> QED BY <2>2, <2>3, <2>4
<1>8. HeldIsDown'
  BY <1>1, <1>7 DEF HeldIsDown
<1> QED BY <1>1, <1>6, <1>8

\* An edge taken from the queue.
LEMMA RouteHeld ==
  ASSUME RInv, SteadyInv, NewestInv, StuckInv, KeyDownInv, ~RefusalAllowed, Route,
         RInv', NewestInv', StuckInv'
  PROVE  KeyDownInv'
<1> DEFINE event == Head(routed)
           k == event.key
           route == event.route /\ Active(event.target)
           stale == event.down /\ k \in eng.phys
<1>1. /\ RoutingTypeOK /\ EngineTyped /\ Typed(eng) /\ eng \in EngineState
      /\ published \in Identity
      /\ \A i \in DOMAIN routed : routed[i].target = published
  BY DEF RInv, RoutingTypes, EngineTyped, Typed, SteadyInv, Meant
<1>2. PICK refused \in TimerRefusals, travel \in Keys \union {NoKey} :
        /\ routed # <<>>
        /\ travel \in (IF config.mode \in BrakeModes THEN AxisOf(k) ELSE {}) \union {NoKey}
        /\ RouteNext(refused, travel)
  BY DEF Route
<1>3. /\ Idle /\ (todo = "rebuild" <=> todo' = "rebuild") /\ routed' = Tail(routed)
      /\ UNCHANGED <<down, systemDown>>
      /\ IF stale THEN UNCHANGED vars
         ELSE IF event.down THEN KeyDown(k, route, event.target, refused)
              ELSE KeyUp(k, route, event.target, travel, refused)
  BY <1>2 DEF RouteNext
<1>4. /\ event \in RoutedEvent /\ event.target = published /\ event = routed[1]
      /\ \A i \in DOMAIN routed : i # 1 => i - 1 \in DOMAIN Tail(routed)
                                           /\ Tail(routed)[i - 1] = routed[i]
  <2>1. routed \in Seq(RoutedEvent) /\ routed # <<>>
    BY <1>1, <1>2 DEF RoutingTypeOK
  <2>2. /\ 1 \in DOMAIN routed /\ event = routed[1] /\ event \in RoutedEvent
        /\ \A i \in DOMAIN routed : i # 1 => i - 1 \in DOMAIN Tail(routed)
                                             /\ Tail(routed)[i - 1] = routed[i]
    BY <2>1
  <2> QED BY <1>1, <2>2
<1>5. k \in Keys /\ event.down \in BOOLEAN /\ route \in BOOLEAN
  BY <1>4 DEF RoutedEvent, Active
<1>6. \A j : UpQueued(j) => UpQueued(j)' \/ (j = k /\ ~event.down)
  BY <1>3, <1>4 DEF UpQueued
<1> HIDE DEF event, route
<1>7. UNCHANGED <<table, config>>
  <2>1. ASSUME NEW e, NEW t, Submit(e, t) PROVE UNCHANGED <<table, config>>
    BY <2>1 DEF Submit
  <2> QED BY <1>3, <2>1 DEF KeyDown, KeyUp, vars
<1> SUFFICES ASSUME NoBrakes PROVE OnlyOverlaps(eng') /\ HeldIsDown'
  BY <1>7 DEF KeyDownInv, NoBrakes
<1>8. /\ OnlyOverlaps(eng) /\ HeldIsDown /\ eng.native = {} /\ Overlapped(eng, config.mode)
      /\ config.mode # "OFF" /\ travel = NoKey /\ table.held = eng.logical
  BY <1>2, <1>3, IdleHeld DEF KeyDownInv, NoBrakes, NewestInv, Served
<1>9. OnlyOverlaps(eng') /\ eng'.suspended = eng.suspended /\ (~event.down => k \notin eng'.phys)
  <2>1. CASE stale
    BY <1>3, <1>8, <2>1 DEF vars
  <2>2. CASE ~stale
    <3> DEFINE c == Situation(published, IF event.down THEN NoKey ELSE travel, refused)
               d == HandleKeyDown(eng, k, route, c)
               u == HandleKeyUp(eng, k, route, c)
    <3>1. /\ c.target = published /\ c.held \subseteq Slots /\ c.mode = config.mode
          /\ c.travel = NoKey
      BY <1>1, <1>8, EngineTypedTypes DEF Situation
    <3>2. /\ event.down /\ route => Submit(d, published)
          /\ event.down /\ ~route => eng' = d
          /\ ~event.down => Submit(u, published)
      BY <1>3, <1>4, <2>2 DEF KeyDown, KeyUp
    <3> HIDE DEF c
    <3>3. c.mode # "OFF" /\ c.target \in Identity /\ Overlapped(eng, c.mode)
      BY <1>1, <1>8, <3>1
    <3>4. CASE event.down
      <4>1. k \notin eng.phys
        BY <2>2, <3>4
      <4>2. Typed(d) /\ d.suspended = eng.suspended
        BY <1>1, <1>5, <3>1, <4>1, HandleKeyDownTyped
      <4>3. OnlyOverlaps(d)
        BY <1>1, <1>5, <1>8, <3>1, <3>3, <4>1, KeyDownOverlaps
      <4> HIDE DEF d
      <4> QED BY <3>2, <3>4, <4>2, <4>3, SubmitOverlaps DEF Typed
    <3>5. CASE ~event.down
      <4>1. c.travel \in AxisOf(k) \union {NoKey}
        BY <3>1
      <4>2. Typed(u) /\ u.suspended = eng.suspended /\ u.phys = eng.phys \ {k}
        BY <1>1, <1>5, <3>1, <4>1, HandleKeyUpTyped
      <4>3. OnlyOverlaps(u)
        BY <1>1, <1>5, <1>8, <3>1, <3>3, KeyUpOverlaps
      <4> HIDE DEF u
      <4> QED BY <3>2, <3>5, <4>2, <4>3, SubmitOverlaps DEF Typed
    <3> QED BY <3>4, <3>5
  <2> QED BY <2>1, <2>2
<1>10. Running' <=> Running
  BY <1>3, <1>9 DEF Running
<1>11. ASSUME Running, ~event.down PROVE k \notin eng'.logical
  <2>1. Reasons(eng', {}, {}) /\ Overlapped(eng', config.mode)
    BY <1>7, <1>8, <1>10, <1>11 DEF StuckInv, Explained, NewestInv, Served
  <2> QED BY <1>5, <1>9, <1>11, <2>1, UpIsOff
<1>12. HeldIsDown'
  BY <1>3, <1>6, <1>7, <1>8, <1>10, <1>11 DEF HeldIsDown
<1> QED BY <1>9, <1>12

\* A pause leaves nothing down, a resume leaves the rest to the rebuild.
LEMMA ToggleHeld ==
  ASSUME RInv, SteadyInv, NewestInv, KeyDownInv, OwnerFree, NEW posted, ToggleEngine(posted)
  PROVE  KeyDownInv'
<1>1. /\ EngineTyped /\ Typed(eng) /\ Idle /\ eng.out = <<>> /\ todo = "none"
      /\ eng \in EngineState /\ published \in Identity
  BY DEF RInv, RoutingTypes, EngineTyped, Typed, OwnerFree, Idle
<1>2. config' = config
  BY DEF ToggleEngine, Submit
<1> SUFFICES ASSUME NoBrakes PROVE OnlyOverlaps(eng') /\ HeldIsDown'
  BY <1>2 DEF KeyDownInv, NoBrakes
<1>3. OnlyOverlaps(eng) /\ HeldIsDown /\ table.held = eng.logical
  BY <1>1, IdleHeld DEF KeyDownInv, NoBrakes
<1>4. CASE ~eng.suspended
  <2> DEFINE p == [eng EXCEPT !.suspended = TRUE]
  <2>1. Submit(LetGoOfAll(p), published)
    BY <1>4 DEF ToggleEngine, Suspend
  <2>2. Typed(p) /\ p.out = <<>> /\ p.logical = eng.logical
    BY <1>1 DEF Typed, EngineState, LastIsOfAxis
  <2> HIDE DEF p
  <2>3. eng'.logical = {} /\ NoWait(eng')
    BY <1>1, <1>3, <2>1, <2>2, LetGoOff
  <2> QED BY <2>3, NoWaitOverlaps DEF HeldIsDown
<1>5. CASE eng.suspended
  <2> DEFINE e == Resume(eng)
  <2>1. /\ eng' = Commit(e, table.held) /\ todo' = "rebuild"
        /\ UNCHANGED <<table, down, systemDown, routed>>
    BY <1>5 DEF ToggleEngine, Reinstall, SteadyInv, Undisturbed
  <2>2. /\ e \in EngineState /\ e.socd = eng.socd /\ e.expect = eng.expect
        /\ e.native = eng.native
    BY <1>1 DEF Resume, EngineState
  <2> HIDE DEF e
  <2>3. OnlyOverlaps(eng')
    BY <1>3, <2>1, <2>2, SameOverlaps, CommitOverlaps
  <2>4. eng'.logical = eng.logical
    <3>1. Commit(e, table.held).logical = e.native \union (table.held \intersect Keys)
      BY <2>2 DEF Commit, EngineState
    <3> QED BY <1>1, <2>1, <2>2, <3>1 DEF EngineTyped
  <2>5. ~Running /\ ~Running'
    BY <1>5, <2>1 DEF Running
  <2>6. HeldIsDown'
    BY <1>3, <2>1, <2>4, <2>5, HeldKept
  <2> QED BY <2>3, <2>6
<1> QED BY <1>4, <1>5

\* The rebuild lets go of what the player does not hold.
LEMMA RebuildHeld ==
  ASSUME RInv, SteadyInv, NewestInv, KeyDownInv, Rebuild, NewestInv', StuckInv'
  PROVE  KeyDownInv'
<1> DEFINE c == Situation(published, NoKey, {})
           e == RebuildState(eng, ledger, c)
<1>1. /\ EngineTyped /\ Typed(eng) /\ Idle /\ ledger \in SUBSET Keys /\ c.mode = config.mode
      /\ todo = "rebuild" /\ ~eng.suspended /\ Submit(e, published) /\ ledger = down
      /\ UNCHANGED <<down, systemDown>> /\ todo' = "none"
  BY DEF RInv, RoutingTypes, RoutingTypeOK, EngineTyped, Rebuild, Situation, SteadyInv, Undisturbed
<1>2. UNCHANGED <<table, config>>
  BY <1>1 DEF Submit
<1> SUFFICES ASSUME NoBrakes PROVE OnlyOverlaps(eng') /\ HeldIsDown'
  BY <1>2 DEF KeyDownInv, NoBrakes
<1>3. /\ OnlyOverlaps(eng) /\ HeldIsDown /\ table.held = eng.logical /\ config.mode # "OFF"
      /\ table.held \subseteq Keys
  BY <1>1, IdleHeld DEF KeyDownInv, NoBrakes, EngineTyped
<1>4. eng'.phys = ledger
  BY <1>1, RebuildRan DEF Ran
<1> HIDE DEF c
<1>5. Typed(e) /\ e.suspended = eng.suspended
  <2>1. published \in Identity
    BY <1>1 DEF EngineTyped
  <2> QED BY <1>1, <2>1, RebuildTyped
<1>6. OnlyOverlaps(e)
  BY <1>1, <1>3, RebuildOverlaps
<1> HIDE DEF e
<1>7. OnlyOverlaps(eng') /\ eng'.suspended = eng.suspended
  BY <1>1, <1>5, <1>6, SubmitOverlaps DEF Typed
<1>8. Running' /\ ~Running
  BY <1>1, <1>7 DEF Running
<1>9. Reasons(eng', {}, {}) /\ Overlapped(eng', config.mode)
  BY <1>2, <1>3, <1>8 DEF StuckInv, Explained, NewestInv, Served
<1>10. ASSUME NEW k \in table.held, k \notin down PROVE k \notin eng'.logical
  BY <1>1, <1>3, <1>4, <1>7, <1>9, <1>10, UpIsOff
<1>11. HeldIsDown'
  BY <1>1, <1>2, <1>3, <1>8, <1>10 DEF HeldIsDown
<1> QED BY <1>7, <1>11

\* A mode change begins with nothing down and nothing waited for.
LEMMA ModeHeld ==
  ASSUME RInv, SteadyInv, NewestInv, KeyDownInv,
         PrepareModeChange \/ \E mode \in ModesAllowed : SwitchMode(mode)
  PROVE  KeyDownInv'
<1>1. EngineTyped /\ Typed(eng) /\ published \in Identity /\ table.held \subseteq Keys
  BY DEF RInv, RoutingTypes, EngineTyped
<1>2. /\ Idle /\ eng.out = <<>> /\ UNCHANGED <<down, systemDown, routed>>
      /\ todo \in {"mode", "switch"} /\ todo' \in {"none", "switch"}
  BY DEF PrepareModeChange, SwitchMode, Idle
<1>3. ASSUME UNCHANGED <<eng, table, config>> PROVE KeyDownInv'
  <2>1. Running' <=> Running
    BY <1>2, <1>3 DEF Running
  <2> QED BY <1>2, <1>3, <2>1, HeldKept DEF KeyDownInv, NoBrakes
<1>4. CASE PrepareModeChange /\ UNCHANGED vars
  BY <1>3, <1>4 DEF vars
<1>5. CASE PrepareModeChange /\ ClearHeldKeys(published)
  <2>1. Submit(LetGoOfAll(eng), published)
    BY <1>5 DEF ClearHeldKeys
  <2>2. config' = config
    BY <2>1 DEF Submit
  <2> SUFFICES ASSUME NoBrakes PROVE OnlyOverlaps(eng') /\ HeldIsDown'
    BY <2>2 DEF KeyDownInv, NoBrakes
  <2>3. table.held = eng.logical
    BY <1>2, IdleHeld DEF NoBrakes
  <2>4. eng'.logical = {} /\ NoWait(eng')
    BY <1>1, <1>2, <2>1, <2>3, LetGoOff
  <2> QED BY <2>4, NoWaitOverlaps DEF HeldIsDown
<1>6. ASSUME NEW mode \in ModesAllowed, SwitchMode(mode) PROVE KeyDownInv'
  <2>1. todo = "switch" /\ UNCHANGED <<eng, table>>
    BY <1>6 DEF SwitchMode
  <2>2. CASE config' = config
    BY <1>3, <2>1, <2>2
  <2>3. CASE table.held \intersect Keys = {}
    <3>1. NoWait(eng) /\ table.held = {}
      BY <1>1, <2>1, <2>3 DEF SteadyInv, QuietInv, Quiet
    <3>2. OnlyOverlaps(eng)
      BY <3>1, NoWaitOverlaps
    <3> QED BY <2>1, <3>1, <3>2 DEF KeyDownInv, HeldIsDown
  <2> QED BY <1>6, <2>2, <2>3 DEF SwitchMode
<1> QED BY <1>4, <1>5, <1>6 DEF PrepareModeChange

\* An event of the batch is sent: a key that comes to be held goes down.
LEMMA SendHeld ==
  ASSUME SteadyAssumption, RInv, SteadyInv, NewestInv, KeyDownInv, NEW ok \in Outcomes,
         SendOne(ok), NewestInv', RInv'
  PROVE  KeyDownInv'
<1> DEFINE after == SlotsAfter(TRUE)
           q == Tail(eng.out)
           rest == [eng EXCEPT !.out = q]
           h == Head(eng.out)
<1>1. /\ EngineTyped /\ ok = TRUE /\ ~Idle /\ eng \in EngineState /\ Undisturbed /\ Meant
      /\ table.held \in SUBSET Keys
  BY DEF RInv, RoutingTypes, EngineTyped, Typed, SteadyInv, SteadyAssumption, Outcomes,
         SendOne, FlushOne
<1>2. /\ table' = after /\ config' = config /\ Elsewhere
      /\ systemDown' = (systemDown \ (table.held \ table'.held)) \union (table'.held \ table.held)
      /\ eng' = IF rest.out = <<>> THEN Commit(rest, after.held) ELSE rest
  BY <1>1 DEF SendOne, FlushOne, SlotsAfter, Injected
<1> SUFFICES ASSUME NoBrakes PROVE OnlyOverlaps(eng') /\ HeldIsDown'
  BY <1>2 DEF KeyDownInv, NoBrakes
<1>3. OnlyOverlaps(eng) /\ HeldIsDown /\ config.mode # "OFF" /\ Served(eng, table.held, config.mode)
  BY DEF KeyDownInv, NoBrakes, NewestInv
<1>4. /\ h.key \in Keys
      /\ after.held = IF h.down THEN table.held \union {h.key} ELSE table.held \ {h.key}
  BY <1>1, SentMine
<1> HIDE DEF after
<1>5. after.held \in SUBSET Keys
  BY <1>1, <1>4
<1>6. q \in Seq(EventSet) /\ eng.out \in Seq(EventSet) /\ eng.out # <<>>
  BY <1>1 DEF EngineState, EventSet, Idle
<1>7. Applied(table.held, eng.out) = Applied(after.held, q)
  <2>1. \A x \in EventSet : x.key \in Keys /\ x.down \in BOOLEAN
    BY DEF EventSet
  <2>2. Applied(table.held, eng.out) =
          Applied(IF h.down THEN table.held \union {h.key} ELSE table.held \ {h.key}, q)
    BY <1>1, <1>6, <2>1, TailApplied
  <2> QED BY <1>4, <2>2
<1> HIDE DEF q, h
<1>8. /\ rest \in EngineState /\ rest.out = q
      /\ rest.phys = eng.phys /\ rest.last = eng.last /\ rest.socd = eng.socd
      /\ rest.expect = eng.expect /\ rest.axisState = eng.axisState
      /\ rest.logical = eng.logical /\ rest.native = eng.native
      /\ rest.suspended = eng.suspended
  BY <1>1, <1>6 DEF EngineState, EventSet
<1> HIDE DEF rest
<1>9. Served(rest, after.held, config.mode)
  <2>1. Carried(rest, after.held)
    BY <1>3, <1>7, <1>8 DEF Served, Carried
  <2>2. Overlapped(rest, config.mode)
    BY <1>3, <1>8, SameOrder DEF Served
  <2> QED BY <1>3, <1>8, <2>1, <2>2 DEF Served
<1>10. eng' = rest
  <2>1. rest.out = <<>> => Commit(rest, after.held) = rest
    BY <1>5, <1>8, <1>9, CommitServed
  <2> QED BY <1>2, <2>1
<1>11. OnlyOverlaps(eng')
  BY <1>3, <1>8, <1>10, SameOverlaps
<1>12. (Running' <=> Running) /\ UNCHANGED <<down, routed>>
  BY <1>2, <1>8, <1>10 DEF Elsewhere, Running
<1>13. HeldIsDown'
  <2> SUFFICES ASSUME NEW k \in table'.held, k \notin systemDown', k \in eng'.logical
               PROVE  IF Running' THEN UpQueued(k)' ELSE k \notin down'
    BY DEF HeldIsDown
  <2>1. k \in table.held /\ k \notin systemDown /\ k \in eng.logical
    BY <1>2, <1>8, <1>10
  <2> QED BY <1>3, <1>12, <2>1 DEF HeldIsDown, UpQueued
<1> QED BY <1>11, <1>13

\* Timers expire.
LEMMA TimerHeld ==
  ASSUME RInv, NewestInv, KeyDownInv, (\E k \in Keys : FireTimer(k)) \/ DrainExpired
  PROVE  KeyDownInv'
<1>1. EngineTyped /\ Typed(eng) /\ eng \in EngineState
  BY DEF RInv, RoutingTypes, EngineTyped, Typed
<1>2. UNCHANGED <<table, config, systemDown, down, routed, todo>>
  BY Zenon DEF FireTimer, TimerFire, DrainExpired, DrainTimer, Submit, Elsewhere
<1> SUFFICES ASSUME NoBrakes PROVE OnlyOverlaps(eng') /\ HeldIsDown'
  BY <1>2 DEF KeyDownInv, NoBrakes
<1>3. OnlyOverlaps(eng) /\ HeldIsDown /\ config.mode # "OFF" /\ Overlapped(eng, config.mode)
  BY DEF KeyDownInv, NoBrakes, NewestInv, Served
<1>4. ASSUME OnlyOverlaps(eng'), eng'.suspended = eng.suspended,
             eng'.logical = eng.logical \/ Idle
      PROVE  OnlyOverlaps(eng') /\ HeldIsDown'
  <2>1. Running' <=> Running
    BY <1>2, <1>4 DEF Running
  <2>2. Idle => table.held = eng.logical
    BY <1>3, IdleHeld
  <2> QED BY <1>2, <1>3, <1>4, <2>1, <2>2, HeldKept
<1>5. ASSUME NEW k \in Keys, FireTimer(k) PROVE OnlyOverlaps(eng') /\ HeldIsDown'
  <2> DEFINE e == [eng EXCEPT !.armed[k] = NoTimer, !.expired = Append(@, <<k, eng.armed[k]>>)]
  <2>1. eng' = e
    BY <1>5 DEF FireTimer, TimerFire
  <2>2. /\ e.suspended = eng.suspended /\ e.logical = eng.logical
        /\ e.socd = eng.socd /\ e.expect = eng.expect
    BY <1>1 DEF EngineState
  <2> HIDE DEF e
  <2> QED BY <1>3, <1>4, <2>1, <2>2, SameOverlaps
<1>6. CASE DrainExpired
  <2> DEFINE k  == Head(eng.expired)[1]
             id == Head(eng.expired)[2]
             t  == eng.expectTarget[k]
             c  == Situation(t, NoKey, {})
             e  == Rest(eng)
             r  == OnTimerExpired(e, k, id, c)
  <2>1. /\ Idle /\ eng.expired # <<>>
        /\ IF IsExpected(eng, k, id) THEN Submit(r, t) ELSE eng' = e
        /\ c.mode = config.mode
    BY <1>6 DEF DrainExpired, DrainTimer, Rest, Situation
  <2>2. Head(eng.expired) \in Keys \X TimerIds
    BY <1>1, <2>1, HeadTailProperties DEF EngineState
  <2>3. k \in Keys /\ id \in TimerIds /\ id # NoTimer
    BY <2>2, TimerAssumption
  <2> HIDE DEF k, id, c
  <2>4. /\ Typed(e) /\ e.phys = eng.phys /\ e.last = eng.last /\ e.socd = eng.socd
        /\ e.expect = eng.expect /\ e.axisState = eng.axisState /\ e.logical = eng.logical
        /\ e.suspended = eng.suspended
    <3> DEFINE q == Tail(eng.expired)
    <3>1. q \in Seq(Keys \X TimerIds) /\ Len(q) <= MaxExpired
      <4>1. eng.expired \in Seq(Keys \X TimerIds) /\ Len(eng.expired) <= MaxExpired
        BY <1>1 DEF Typed, EngineState
      <4> QED BY <2>1, <4>1, EngineAssumption
    <3>2. e = [eng EXCEPT !.expired = q]
      BY DEF Rest
    <3> HIDE DEF q, e
    <3> QED BY <1>1, <3>1, <3>2 DEF Typed, EngineState, LastIsOfAxis
  <2> HIDE DEF e
  <2>5. OnlyOverlaps(e) /\ Overlapped(e, c.mode)
    BY <1>3, <2>1, <2>4, SameOverlaps, SameOrder
  <2>6. CASE IsExpected(eng, k, id)
    <3>1. published \in Identity
      BY <1>1 DEF EngineTyped
    <3>2. Alike(e, r, published) /\ Typed(r)
      BY <2>3, <2>4, <3>1, OnTimerExpiredAlike, AlikeTyped
    <3>3. Step(k, Opposite[k])
      BY <2>3, Axis
    <3>4. e.expect[k] = id /\ c.mode # "OFF"
      BY <1>3, <2>1, <2>4, <2>6 DEF IsExpected
    <3>5. OnlyOverlaps(r)
      BY <2>3, <2>4, <2>5, <3>3, <3>4, TimerOverlaps
    <3> HIDE DEF r
    <3>6. r.suspended = eng.suspended
      BY <2>4, <3>2 DEF Alike
    <3>7. OnlyOverlaps(eng') /\ eng'.suspended = eng.suspended
      BY <2>1, <2>6, <3>2, <3>5, <3>6, SubmitOverlaps DEF Typed
    <3> QED BY <1>4, <2>1, <3>7
  <2>7. CASE ~IsExpected(eng, k, id)
    BY <1>4, <2>1, <2>4, <2>5, <2>7
  <2> QED BY <2>6, <2>7
<1> QED BY <1>5, <1>6

\* Every step of the specification keeps it.
LEMMA KeyDownStep ==
  ASSUME SteadyAssumption, ~RefusalAllowed
  PROVE  /\ RInv /\ SteadyInv /\ NewestInv /\ StuckInv /\ KeyDownInv /\ [RoutingNext]_allVars
         /\ RInv' /\ NewestInv' /\ StuckInv'
         => KeyDownInv'
<1> SUFFICES ASSUME RInv, SteadyInv, NewestInv, StuckInv, KeyDownInv, [RoutingNext]_allVars,
                    RInv', NewestInv', StuckInv'
             PROVE  KeyDownInv'
  OBVIOUS
<1>1. ASSUME NEW k \in PlayerKeys, HookKey(k) PROVE KeyDownInv'
  BY <1>1, HookKeyHeld
<1>2. CASE \/ \E k \in PlayerKeys : RepeatKey(k) \/ StaleEdge(k) \/ NativeKey(k)
           \/ \E t \in Identity : Focus(t)
           \/ WinEvent \/ Resolve \/ PressF6 \/ ModeRequest \/ InstallHook \/ InstallPoll
           \/ RoutedInputReady \/ RouteMore \/ EndDrain
           \/ LoseFocus \/ RegainFocus \/ KeepFocus \/ EmergencyUnhook
           \/ UNCHANGED allVars
  <2>1. /\ UNCHANGED <<vars, down, routed>> /\ systemDown \subseteq systemDown'
        /\ todo' \in {"switch", "rebuild"} => todo' = todo
        /\ todo = "rebuild" => todo' = todo
    BY <1>2, AloneLeaves
  <2>2. UNCHANGED <<eng, table, config>>
    BY <2>1 DEF vars
  <2>3. Running' <=> Running
    BY <2>1, <2>2 DEF Running
  <2> QED BY <2>1, <2>2, <2>3, HeldKept DEF KeyDownInv, NoBrakes
<1>3. CASE ToggleSuspendSent \/ ToggleSuspendPosted
  BY <1>3, ToggleHeld DEF ToggleSuspendSent, ToggleSuspendPosted
<1>4. CASE Route
  BY <1>4, RouteHeld
<1>5. CASE Rebuild
  BY <1>5, RebuildHeld
<1>6. CASE PrepareModeChange \/ \E mode \in ModesAllowed : SwitchMode(mode)
  BY <1>6, ModeHeld
<1>7. ASSUME NEW ok \in Outcomes, SendOne(ok) PROVE KeyDownInv'
  BY <1>7, SendHeld
<1>8. CASE (\E k \in Keys : FireTimer(k)) \/ DrainExpired \/ PumpReleases
  BY <1>8, TimerHeld, SteadyExcludes
<1> QED BY <1>1, <1>2, <1>3, <1>4, <1>5, <1>6, <1>7, <1>8 DEF RoutingNext, OwnerStep

LEMMA KeyDownInit ==
  RoutingInit => KeyDownInv
<1> SUFFICES ASSUME RoutingInit PROVE KeyDownInv
  OBVIOUS
<1>1. eng = InitialEngine(Favourite) /\ table = EmptyTable
  BY DEF RoutingInit, Init
<1>2. table.held = {} /\ NoWait(eng)
  BY <1>1 DEF EmptyTable, InitialEngine, NoWait
<1> QED BY <1>2, NoWaitOverlaps DEF KeyDownInv, HeldIsDown

(* In the modes without brakes outside OFF: once everything has settled    *)
(* with the game in front and the engine running, a player who holds a key *)
(* of an axis has a key of that axis down in the game, whatever was        *)
(* pressed natively during a pause and re-synced at its end, as long as    *)
(* the target stays in front, no event is refused or lost and the timer    *)
(* service admits every timer.  With brakes outside OFF it does not hold:  *)
(* a brake may come to wait for the release of the key it presses          *)
(* (input_capture.cpp, input_router.cpp, state_reconciliation.cpp).        *)
THEOREM RoutingSettledKeyIsDown ==
  ASSUME SteadyAssumption, ~RefusalAllowed
  PROVE  RoutingSpec => [](config.mode \notin BrakeModes => SettledKeyIsDown)
<1>1. RoutingInit => SteadyInv /\ NewestInv /\ StuckInv /\ KeyDownInv
  BY SteadyInit, NewestInit, StuckInit, KeyDownInit
<1>2. /\ RInv /\ SteadyInv /\ NewestInv /\ StuckInv /\ KeyDownInv /\ [RoutingNext]_allVars /\ RInv'
      => (SteadyInv /\ NewestInv /\ StuckInv /\ KeyDownInv)'
  BY SteadyStep, NewestStep, StuckStep, KeyDownStep
<1>3. RInv /\ SteadyInv /\ NewestInv /\ KeyDownInv
        => (config.mode \notin BrakeModes => SettledKeyIsDown)
  <2> SUFFICES ASSUME RInv, SteadyInv, NewestInv, KeyDownInv, NoBrakes, Settled, ~eng.suspended,
                      NEW ax \in Axes, down \intersect ax # {}
               PROVE  systemDown \intersect ax # {}
    BY DEF SettledKeyIsDown, NoBrakes
  <2>1. /\ Idle /\ routed = <<>> /\ Running /\ eng.phys \in SUBSET Keys
        /\ hooked /\ todo # "rebuild" /\ ~Posts("unhook") /\ ledger = down /\ config.mode # "OFF"
    BY DEF Settled, OwnerFree, Running, RInv, RoutingTypes, EngineTyped, Typed, EngineState,
           SteadyInv, Undisturbed, NoBrakes
  <2>2. eng.phys = down
    <3>1. Applied(eng.phys, routed) = ledger
      BY <2>1 DEF RInv, NoEdgeLost
    <3> QED BY <2>1, <3>1, AppliedEmpty
  <2>3. table.held = eng.logical
    BY <2>1, IdleHeld
  <2>4. PICK k \in Keys : ax = AxisOf(k)
    BY DEF Axes
  <2> DEFINE o == Opposite[k]
  <2>5. Step(k, o)
    BY Axis
  <2>6. /\ o \in Keys /\ ax = {k, o} /\ AxisOf(o) = ax /\ o = Opposite[k] /\ k = Opposite[o]
    BY <2>4, <2>5 DEF Step
  <2> HIDE DEF o
  <2>7. InOrder(eng, config.mode, k) /\ InOrder(eng, config.mode, o)
    BY <2>1, <2>6 DEF NewestInv, Ordered
  <2>8. PICK j \in ax : j \in eng.logical
    <3>1. k \in eng.phys \/ o \in eng.phys
      BY <2>2, <2>6
    <3>2. /\ k \in eng.phys => k \in eng.logical \/ o \in eng.logical
          /\ o \in eng.phys => k \in eng.logical \/ o \in eng.logical
      BY <2>6, <2>7 DEF InOrder
    <3> QED BY <2>6, <3>1, <3>2
  <2>9. ~UpQueued(j)
    BY <2>1 DEF UpQueued
  <2>10. j \in systemDown
    BY <2>1, <2>3, <2>8, <2>9 DEF KeyDownInv, HeldIsDown
  <2> QED BY <2>8, <2>10
<1> QED BY <1>1, <1>2, <1>3, RoutingInvariant, PTL DEF RoutingSpec
=============================================================================
