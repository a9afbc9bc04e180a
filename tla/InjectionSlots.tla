---------------------------- MODULE InjectionSlots ----------------------------
(***************************************************************************)
(* The slot table of the input-injection boundary (src/core/injection.cpp) *)
(* and what each call does to it.  One slot per input that can be held     *)
(* down: W, A, S, D, Space and the left mouse button.                      *)
(*                                                                         *)
(* Every operator is what a call made under g_mutex does to the table: it  *)
(* takes the table, the target the caller names, the one answer of         *)
(* IsExpectedTargetActive(target) the call asked for before it sent        *)
(* anything, and the outcome of SendInput, and returns the table after the *)
(* call.  The foreground may change between that answer and the inputs; no *)
(* field of the table records which window received them.  Injection keeps *)
(* the answer and the inputs apart.                                        *)
(***************************************************************************)
EXTENDS FiniteSets

CONSTANTS
  Slots,      \* WASD, Space and Mouse1: what ShutdownAndRelease walks over
  Targets,    \* valid TargetIdentity values
  NoTarget    \* the default-constructed, invalid TargetIdentity

ASSUME NoTargetAssumption == NoTarget \notin Targets

Identity == Targets \union {NoTarget}

(***************************************************************************)
(* held          g_held: downs the backend accepted and no up has ended    *)
(* pending       g_pendingRelease: ups that are owed                       *)
(* owner         g_ownerTarget: the target that accepted the down          *)
(* pendingTarget g_pendingTarget: the target the owed up is bound to       *)
(* releaseOnly   g_releaseOnly: cached "some release is pending"           *)
(***************************************************************************)
SlotTable ==
  [held          : SUBSET Slots,
   pending       : SUBSET Slots,
   owner         : [Slots -> Identity],
   pendingTarget : [Slots -> Identity],
   releaseOnly   : BOOLEAN]

EmptyTable ==
  [held          |-> {},
   pending       |-> {},
   owner         |-> [s \in Slots |-> NoTarget],
   pendingTarget |-> [s \in Slots |-> NoTarget],
   releaseOnly   |-> FALSE]

RefreshReleaseOnly(tab) == [tab EXCEPT !.releaseOnly = (tab.pending # {})]

\* A down the backend accepted (TrackSentPrefixLocked): held, owner cleared.
TrackDown(tab, s) ==
  [tab EXCEPT !.held = @ \union {s}, !.owner[s] = NoTarget]

\* An up the backend accepted ends the hold and whatever release was owed.
TrackUp(tab, s) ==
  [tab EXCEPT !.held = @ \ {s}, !.pending = @ \ {s},
              !.owner[s] = NoTarget, !.pendingTarget[s] = NoTarget]

\* Fault: a release the backend rejected counts as done.
ReleaseSlotAssumed(tab, s, ok) == RefreshReleaseOnly(TrackUp(tab, s))

\* ok: one of the kMaxReleaseAttempts attempts was accepted.
ReleaseSlot(tab, s, ok) ==
  RefreshReleaseOnly(IF ok THEN TrackUp(tab, s)
                           ELSE [tab EXCEPT !.pending = @ \union {s}])

\* ReleaseSlotLocked on every slot of S; the backend accepts those in oks.
ReleaseEach(tab, S, oks) ==
  RefreshReleaseOnly(
    [tab EXCEPT
       !.held          = @ \ (S \intersect oks),
       !.pending       = (@ \union S) \ (S \intersect oks),
       !.owner         = [s \in Slots |-> IF s \in S \intersect oks
                                          THEN NoTarget ELSE @[s]],
       !.pendingTarget = [s \in Slots |-> IF s \in S \intersect oks
                                          THEN NoTarget ELSE @[s]]])

\* The release of a held slot is owed to the target that accepted its down.
OweToOwner(tab, s) ==
  RefreshReleaseOnly([tab EXCEPT !.pending = @ \union {s},
                                 !.pendingTarget[s] = tab.owner[s]])

-----------------------------------------------------------------------------
(* Target-bound calls: the only ones the running program makes.            *)

\* Fault: release-only does not hold downs back.
MayPressUngated(tab, t, active) == t \in Targets /\ active

MayPress(tab, t, active) == ~tab.releaseOnly /\ t \in Targets /\ active

PressReachesBackend(tab, s, t, active) ==
  MayPress(tab, t, active) /\ s \notin tab.held

\* KeyDownForTarget and SpaceDownForTarget.
KeyDownForTarget(tab, s, t, active, ok) ==
  CASE ~MayPress(tab, t, active) -> tab
    [] MayPress(tab, t, active) /\ s \in tab.held ->
         IF tab.owner[s] = t THEN tab ELSE OweToOwner(tab, s)
    [] PressReachesBackend(tab, s, t, active) ->
         IF ok THEN [TrackDown(tab, s) EXCEPT !.owner[s] = t] ELSE tab

ReleaseReachesBackend(tab, s, t, active) ==
  /\ s \in tab.held \union tab.pending
  /\ t \in Targets /\ tab.owner[s] = t /\ active

\* KeyUpForTarget and SpaceUpForTarget (ReleaseSlotForTargetLocked).
KeyUpForTarget(tab, s, t, active, ok) ==
  CASE s \notin tab.held \union tab.pending -> tab
    [] s \in tab.held \union tab.pending /\ (t = NoTarget \/ tab.owner[s] # t) ->
         IF s \in tab.held THEN OweToOwner(tab, s) ELSE tab
    [] s \in tab.held \union tab.pending /\ t # NoTarget /\ tab.owner[s] = t ->
         IF ~active
         THEN RefreshReleaseOnly([tab EXCEPT !.pending = @ \union {s},
                                             !.pendingTarget[s] = t])
         ELSE LET after == ReleaseSlot(tab, s, ok)
              IN  IF ok THEN after
                        ELSE [after EXCEPT !.pendingTarget[s] = t]

\* Fault: whoever asks gets every owed release.
OwedToAnyone(tab, t) == tab.pending

OwedTo(tab, t) == {s \in tab.pending : tab.pendingTarget[s] = t}

ReconcilePendingReleasesForTarget(tab, t, active, oks) ==
  IF t \in Targets /\ active THEN ReleaseEach(tab, OwedTo(tab, t), oks) ELSE tab

\* Every hold becomes an owed release before any of them is sent.
OweAllHeld(tab) ==
  RefreshReleaseOnly(
    [tab EXCEPT !.pending = @ \union tab.held,
                !.pendingTarget = [s \in Slots |-> IF s \in tab.held
                                                   THEN tab.owner[s] ELSE @[s]]])

-----------------------------------------------------------------------------
(* Calls that name no target: the unit tests make them, the program none.  *)
(* "valid" is the answer of the caller's DispatchValidator (TRUE for none).*)

MayDispatch(tab, valid) == ~tab.releaseOnly /\ valid

\* KeyDown, KeyDownIf, SpaceDown, SpaceDownIf and the mouse button's down.
KeyDownIf(tab, s, valid, ok) ==
  IF MayDispatch(tab, valid) /\ ok THEN TrackDown(tab, s) ELSE tab

\* KeyUp, KeyUpIf, SpaceUp, SpaceUpIf and the mouse button's up.
KeyUpIf(tab, s, valid, ok) ==
  CASE valid                     -> ReleaseSlot(tab, s, ok)
    [] ~valid /\ s \in tab.held  ->
         RefreshReleaseOnly([tab EXCEPT !.pending = @ \union {s}])
    [] ~valid /\ s \notin tab.held -> tab

\* A tap is one batch of two inputs of which "sent" were accepted; when only
\* the down was, the tap repairs itself with a release that may fail (ok).
KeyDownUp(tab, s, sent, ok) ==
  CASE ~MayDispatch(tab, TRUE) \/ sent = 0 -> tab
    [] MayDispatch(tab, TRUE) /\ sent = 1  -> ReleaseSlot(TrackDown(tab, s), s, ok)
    [] MayDispatch(tab, TRUE) /\ sent = 2  -> TrackUp(TrackDown(tab, s), s)

ReconcilePendingReleasesIf(tab, valid, oks) ==
  IF valid THEN ReleaseEach(tab, tab.pending, oks) ELSE tab

\* ShutdownAndRelease(If) marks every slot, held or not, before it releases.
ShutdownAndReleaseIf(tab, valid, oks) ==
  ReconcilePendingReleasesIf(
    RefreshReleaseOnly([tab EXCEPT !.pending = Slots]), valid, oks)

-----------------------------------------------------------------------------
(* What the target-bound calls maintain.                                   *)

ReleaseOnlyIsExact(tab) == tab.releaseOnly <=> tab.pending # {}

HeldHasOwner(tab) ==
  \A s \in Slots : IF s \in tab.held THEN tab.owner[s] \in Targets
                                     ELSE tab.owner[s] = NoTarget

PendingIsOwed(tab) ==
  /\ tab.pending \subseteq tab.held
  /\ \A s \in tab.pending : tab.pendingTarget[s] = tab.owner[s]

SlotInv(tab) ==
  ReleaseOnlyIsExact(tab) /\ HeldHasOwner(tab) /\ PendingIsOwed(tab)
=============================================================================
