-------------------------------- MODULE Engine --------------------------------
(***************************************************************************)
(* The movement engine and the injection boundary behind it, while one     *)
(* target stays the active one and the hook's queue is drained as fast as  *)
(* it fills (InputRouting drops both restrictions).                        *)
(*                                                                         *)
(* A handler runs under s_operationMutex: it changes the engine state and  *)
(* fills a batch, then sends the batch one event at a time, then commits   *)
(* what the boundary says is held.  Timers expire on the timer thread at   *)
(* any moment, also while a batch is being sent; the owner thread drains   *)
(* the expiry queue when it gets to it.                                    *)
(***************************************************************************)
EXTENDS MovementEngine

CONSTANTS
  ModesAllowed,   \* values of socdMode the user may choose
  Overlaps,       \* is overlap_duration_us positive in some profile? in all?
  Favourite,      \* compile-time socdLastKey per axis
  RejectsAllowed, \* may SendInput reject an event?
  RefusalAllowed, \* may ScheduleTimerUs return 0?
  MaxExpired      \* bound of the expiry queue

ASSUME EngineAssumption ==
  /\ ModesAllowed \subseteq Modes /\ Overlaps \subseteq BOOLEAN
  /\ Favourite \in [Axes -> Keys] /\ \A ax \in Axes : Favourite[ax] \in ax
  /\ RejectsAllowed \in BOOLEAN /\ RefusalAllowed \in BOOLEAN
  /\ MaxExpired \in Nat

\* There is always an unused id: each key has at most three in use (the
\* service counts in 64 bits and never reuses one).
ASSUME IdAssumption ==
  IsFiniteSet(TimerIds) => Cardinality(TimerIds) > 3 * Cardinality(Keys) + MaxExpired

Configs == [mode : ModesAllowed, overlap : Overlaps]

VARIABLES
  eng,         \* the movement engine
  table,       \* the injection boundary's slots
  batchTarget, \* InjectionBatch.expectedTarget of the batch being sent
  config,      \* socdMode, and overlap_duration_us > 0 in the active profile
  foreground,  \* the window in the foreground
  published    \* the target the resolver last published

engineVars == <<eng, table, batchTarget>>
vars == <<eng, table, batchTarget, config, foreground, published>>

TypeOK ==
  /\ eng \in EngineState
  /\ table \in SlotTable
  /\ batchTarget \in Identity
  /\ config \in Configs
  /\ foreground \in Identity /\ published \in Identity

Init ==
  /\ eng = InitialEngine(Favourite)
  /\ table = EmptyTable
  /\ batchTarget = NoTarget
  /\ config \in Configs
  /\ foreground \in Targets
  /\ published = foreground

Idle == eng.out = <<>>

Active(t) == t \in Targets /\ foreground = t /\ published = t

Refusals == IF RefusalAllowed THEN SUBSET Keys ELSE {{}}
Outcomes == IF RejectsAllowed THEN BOOLEAN ELSE {TRUE}

Situation(t, travel, refused) ==
  [mode |-> config.mode, held |-> table.held, target |-> t, active |-> Active(t),
   travel |-> travel, overlap |-> config.overlap, refused |-> refused]

\* The handler's batch is sent to t; an empty one is committed at once.
Submit(e, t) ==
  /\ eng' = IF e.out = <<>> THEN Commit(e, table.held) ELSE e
  /\ batchTarget' = IF e.out = <<>> THEN NoTarget ELSE t
  /\ UNCHANGED <<table, config, foreground, published>>

-----------------------------------------------------------------------------
(* Handlers.  route and t come with the event from the hook.               *)

KeyDown(k, route, t, refused) ==
  LET after == HandleKeyDown(eng, k, route, Situation(t, NoKey, refused))
  IN  /\ Idle /\ k \notin eng.phys
      /\ IF route THEN Submit(after, t)
                  ELSE eng' = after /\ UNCHANGED <<table, batchTarget, config,
                                                   foreground, published>>

\* travel: which key of the axis the residual velocity belongs to, if any.
KeyUp(k, route, t, travel, refused) ==
  /\ Idle
  /\ Submit(HandleKeyUp(eng, k, route, Situation(t, travel, refused)), t)

\* The timer thread finds an armed slot due and queues the callback.
TimerFire(k) ==
  /\ eng.armed[k] # NoTimer /\ Len(eng.expired) < MaxExpired
  /\ eng' = [eng EXCEPT !.armed[k] = NoTimer,
                        !.expired = Append(@, <<k, eng.armed[k]>>)]
  /\ UNCHANGED <<table, batchTarget, config, foreground, published>>

\* DrainExpiredTimers, one callback: a stale one changes nothing.
DrainTimer ==
  LET k    == Head(eng.expired)[1]
      id   == Head(eng.expired)[2]
      rest == [eng EXCEPT !.expired = Tail(@)]
      t    == eng.expectTarget[k]
      c    == Situation(t, NoKey, {})
  IN  /\ Idle /\ eng.expired # <<>>
      /\ IF IsExpected(eng, k, id)
         THEN Submit(OnTimerExpired(rest, k, id, c), t)
         ELSE /\ eng' = rest
              /\ UNCHANGED <<table, batchTarget, config, foreground, published>>

\* The next event of the batch; the last one is followed by the commit.
FlushOne(ok) ==
  LET event == Head(eng.out)
      t     == batchTarget
      after == IF event.down
               THEN KeyDownForTarget(table, event.key, t, Active(t), ok)
               ELSE KeyUpForTarget(table, event.key, t, Active(t), ok)
      rest  == [eng EXCEPT !.out = Tail(@)]
  IN  /\ ~Idle
      /\ table' = after
      /\ eng' = IF rest.out = <<>> THEN Commit(rest, after.held) ELSE rest
      /\ batchTarget' = IF rest.out = <<>> THEN NoTarget ELSE t
      /\ UNCHANGED <<config, foreground, published>>

\* ToggleSuspend.  physical is the hook's ledger, read by RebuildState.
ToggleSuspend(physical) ==
  /\ Idle
  /\ IF ~eng.suspended THEN Submit(Suspend(eng), published)
     ELSE Submit(RebuildState(Commit(Resume(eng), table.held), physical,
                              Situation(published, NoKey, {})), published)

ClearHeldKeys(t) == Idle /\ Submit(LetGoOfAll(eng), t)

\* DispatchConfigRequest with another mode: PrepareSocdModeChange clears every
\* held key (ClearHeldKeys above) and refuses while anything is still held.
ChangeMode(mode) ==
  /\ Idle /\ mode # config.mode
  /\ eng.phys = {} /\ eng.logical = {} /\ table.held = {} /\ table.pending = {}
  /\ eng' = Commit(LetGoOfAll(eng), table.held)
  /\ config' = [config EXCEPT !.mode = mode]
  /\ UNCHANGED <<table, batchTarget, foreground, published>>

\* F3 or /api/profile: another brake profile, at any moment.
ChangeProfile(overlap) ==
  /\ config.overlap # overlap
  /\ config' = [config EXCEPT !.overlap = overlap]
  /\ UNCHANGED <<eng, table, batchTarget, foreground, published>>

\* main.cpp: at least every 50 ms while a release is owed.
Pump(oks) ==
  LET after == ReconcilePendingReleasesForTarget(table, published, Active(published), oks)
  IN  /\ Idle /\ table.pending # {} /\ published \in Targets
      /\ table' = after
      /\ eng' = Commit(eng, after.held)
      /\ UNCHANGED <<batchTarget, config, foreground, published>>

-----------------------------------------------------------------------------
\* The hook routes an edge unless input is suspended.
Routed == ~eng.suspended

PumpSomething == \E oks \in (IF RejectsAllowed THEN SUBSET Slots ELSE {Slots}) : Pump(oks)

Next ==
  \/ \E k \in Keys, refused \in Refusals :
       \/ KeyDown(k, Routed, published, refused)
       \/ \E travel \in AxisOf(k) \union {NoKey} :
            k \in eng.phys /\ KeyUp(k, Routed, published, travel, refused)
  \/ \E k \in Keys : TimerFire(k)
  \/ DrainTimer
  \/ \E ok \in Outcomes : FlushOne(ok)
  \/ ToggleSuspend(eng.phys)
  \/ eng.phys = {} /\ ClearHeldKeys(published)
  \/ \E mode \in ModesAllowed : ChangeMode(mode)
  \/ \E overlap \in Overlaps : ChangeProfile(overlap)
  \/ PumpSomething

Spec == Init /\ [][Next]_vars

(***************************************************************************)
(* A batch is sent to its end, an armed timer fires, the owner thread      *)
(* drains what fired, and the pump's release attempts succeed in the end.  *)
(***************************************************************************)
Fairness ==
  /\ WF_vars(\E ok \in Outcomes : FlushOne(ok))
  /\ \A k \in Keys : WF_vars(TimerFire(k))
  /\ SF_vars(DrainTimer)
  /\ SF_vars(Pump(Slots))

FairSpec == Spec /\ Fairness

-----------------------------------------------------------------------------
(* Properties.                                                             *)

(* Between handlers the engine's logical state is what the game sees: the  *)
(* native keys of OFF and what the boundary holds, whatever was rejected.  *)
LogicalIsOutput == Idle => eng.logical = eng.native \union (table.held \intersect Keys)

(* FULL, README.md:13: a key the player holds is never pressed while its   *)
(* opposite is down, not even between two events of a batch or after       *)
(* rejections; only the overlap of a brake may hold both.                  *)
NoOpposites ==
  [][config.mode = "FULL" =>
       \A k \in eng.phys \intersect (table'.held \ table.held) :
         Opposite[k] \notin table.held]_vars

(* test_diagonal_engine_stress.cpp:501 and README.md:14: both keys of an   *)
(* axis are injected together only while a timer that will end it is live  *)
(* or a release of one of them is owed.                                    *)
Live(k) ==
  /\ eng.expect[k] # NoTimer
  /\ \/ eng.armed[k] = eng.expect[k]
     \/ \E i \in DOMAIN eng.expired : eng.expired[i] = <<k, eng.expect[k]>>

BothHeldOnlyBriefly ==
  Idle => \A ax \in Axes : ax \subseteq table.held =>
            \E k \in ax : Live(k) \/ k \in table.pending

(* Nothing stays down in the game for no reason: it is physically down, a  *)
(* timer will end it, or its release is owed.                              *)
NoStuckKey ==
  Idle => \A k \in table.held \intersect Keys :
            k \in eng.phys \/ Live(k) \/ k \in table.pending

(* While nothing is rejected, a key held alone is down in the game, of two *)
(* held together the newer one is, and in FULL it is the only one.         *)
NewestKeyWins ==
  Idle /\ ~RejectsAllowed /\ ~eng.suspended /\ config.mode # "OFF" =>
    \A ax \in Axes :
      LET pressed == ax \intersect eng.phys
          down    == ax \intersect table.held
      IN  /\ pressed # {} => pressed \intersect down # {}
          /\ pressed = ax => eng.last[ax] \in down
          /\ pressed = ax /\ config.mode = "FULL" => down = {eng.last[ax]}

(* A brake ends: a key the player does not hold is let go of.              *)
BrakeEnds ==
  \A k \in Keys : k \in table.held ~> (k \notin table.held \/ k \in eng.phys)
=============================================================================
