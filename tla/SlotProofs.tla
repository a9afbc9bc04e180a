----------------------------- MODULE SlotProofs -----------------------------
(***************************************************************************)
(* Lemmas about the slot table of the injection boundary, one per call,    *)
(* for any sets of slots and targets.  The machines that call the boundary *)
(* (Injection, Bhop, Engine) are proved about on top of these.             *)
(***************************************************************************)
EXTENDS InjectionSlots, Naturals, TLAPS

\* Well typed, and what the target-bound calls maintain.
Sound(tab) == tab \in SlotTable /\ SlotInv(tab)

\* What a call has to return: a sound table with these slots held.
SoundWith(tab, held) == Sound(tab) /\ tab.held = held

\* Refreshing the flag of a table that is otherwise well formed.
LEMMA RefreshSound ==
  ASSUME NEW tab \in SlotTable, HeldHasOwner(tab), PendingIsOwed(tab)
  PROVE  /\ Sound(RefreshReleaseOnly(tab))
         /\ RefreshReleaseOnly(tab).held = tab.held
         /\ RefreshReleaseOnly(tab).pending = tab.pending
         /\ RefreshReleaseOnly(tab).owner = tab.owner
BY DEF Sound, SlotInv, SlotTable, RefreshReleaseOnly, ReleaseOnlyIsExact,
       HeldHasOwner, PendingIsOwed

\* An accepted up keeps everything but the cached flag.
LEMMA TrackUpSound ==
  ASSUME NEW tab \in SlotTable, HeldHasOwner(tab), PendingIsOwed(tab), NEW s \in Slots
  PROVE  /\ TrackUp(tab, s) \in SlotTable
         /\ HeldHasOwner(TrackUp(tab, s)) /\ PendingIsOwed(TrackUp(tab, s))
         /\ TrackUp(tab, s).held = tab.held \ {s}
BY NoTargetAssumption DEF SlotTable, Identity, TrackUp, HeldHasOwner, PendingIsOwed

\* A held slot's release becomes owed.
LEMMA OweToOwnerSound ==
  ASSUME NEW tab, Sound(tab), NEW s \in tab.held
  PROVE  Sound(OweToOwner(tab, s)) /\ OweToOwner(tab, s).held = tab.held
BY ZenonT(60) DEF Sound, SlotInv, SlotTable, RefreshReleaseOnly, ReleaseOnlyIsExact,
       HeldHasOwner, PendingIsOwed, OweToOwner

\* A batch of owed releases, some of them refused.
LEMMA ReleaseEachSound ==
  ASSUME NEW tab \in SlotTable, HeldHasOwner(tab), PendingIsOwed(tab),
         NEW S \in SUBSET tab.pending, NEW oks \in SUBSET Slots
  PROVE  /\ Sound(ReleaseEach(tab, S, oks))
         /\ ReleaseEach(tab, S, oks).held = tab.held \ (S \intersect oks)
BY NoTargetAssumption
   DEF Sound, SlotInv, SlotTable, Identity, RefreshReleaseOnly, ReleaseOnlyIsExact,
       HeldHasOwner, PendingIsOwed, ReleaseEach

\* Every hold becomes an owed release.
LEMMA OweAllHeldSound ==
  ASSUME NEW tab, Sound(tab)
  PROVE  Sound(OweAllHeld(tab)) /\ OweAllHeld(tab).held = tab.held
BY DEF Sound, SlotInv, SlotTable, Identity, RefreshReleaseOnly, ReleaseOnlyIsExact,
       HeldHasOwner, PendingIsOwed, OweAllHeld

\* KeyDownForTarget and SpaceDownForTarget.
LEMMA PressSound ==
  ASSUME NEW tab, Sound(tab), NEW s \in Slots, NEW t \in Identity,
         NEW active \in BOOLEAN, NEW ok \in BOOLEAN
  PROVE  SoundWith(KeyDownForTarget(tab, s, t, active, ok),
                   IF PressReachesBackend(tab, s, t, active) /\ ok
                   THEN tab.held \union {s} ELSE tab.held)
<1> USE DEF SoundWith
<1>1. CASE ~MayPress(tab, t, active)
  BY <1>1 DEF KeyDownForTarget, PressReachesBackend
<1>2. CASE MayPress(tab, t, active) /\ s \in tab.held
  BY <1>2, OweToOwnerSound DEF KeyDownForTarget, PressReachesBackend
<1>3. CASE MayPress(tab, t, active) /\ s \notin tab.held /\ ~ok
  BY <1>3 DEF KeyDownForTarget, PressReachesBackend
<1>4. CASE MayPress(tab, t, active) /\ s \notin tab.held /\ ok
  <2> DEFINE after == [TrackDown(tab, s) EXCEPT !.owner[s] = t]
  <2>1. KeyDownForTarget(tab, s, t, active, ok) = after
    BY <1>4 DEF KeyDownForTarget, PressReachesBackend
  <2>2. t \in Targets /\ PressReachesBackend(tab, s, t, active)
    BY <1>4 DEF MayPress, PressReachesBackend
  <2>3. Sound(after) /\ after.held = tab.held \union {s}
    BY <1>4, <2>2, NoTargetAssumption
    DEF Sound, SlotInv, SlotTable, Identity, TrackDown, ReleaseOnlyIsExact,
        HeldHasOwner, PendingIsOwed
  <2> QED BY <1>4, <2>1, <2>2, <2>3
<1> QED BY <1>1, <1>2, <1>3, <1>4

\* KeyUpForTarget and SpaceUpForTarget.
LEMMA ReleaseSound ==
  ASSUME NEW tab, Sound(tab), NEW s \in Slots, NEW t \in Identity,
         NEW active \in BOOLEAN, NEW ok \in BOOLEAN
  PROVE  SoundWith(KeyUpForTarget(tab, s, t, active, ok),
                   IF ReleaseReachesBackend(tab, s, t, active) /\ ok
                   THEN tab.held \ {s} ELSE tab.held)
<1> USE DEF ReleaseReachesBackend, SoundWith
<1>0. tab.pending \subseteq tab.held
  BY DEF Sound, SlotInv, PendingIsOwed
<1>1. CASE s \notin tab.held
  BY <1>0, <1>1 DEF KeyUpForTarget
<1>2. CASE s \in tab.held /\ (t = NoTarget \/ tab.owner[s] # t)
  BY <1>2, OweToOwnerSound, NoTargetAssumption DEF KeyUpForTarget
<1>3. CASE s \in tab.held /\ t # NoTarget /\ tab.owner[s] = t
  <2>1. CASE ~active
    BY <1>3, <2>1, ZenonT(60)
    DEF KeyUpForTarget, Sound, SlotInv, SlotTable, Identity, RefreshReleaseOnly,
        ReleaseOnlyIsExact, HeldHasOwner, PendingIsOwed
  <2>2. CASE active /\ ok
    <3>1. KeyUpForTarget(tab, s, t, active, ok) = RefreshReleaseOnly(TrackUp(tab, s))
      BY <1>3, <2>2 DEF KeyUpForTarget, ReleaseSlot
    <3>2. tab \in SlotTable /\ HeldHasOwner(tab) /\ PendingIsOwed(tab)
      BY DEF Sound, SlotInv
    <3>3. t \in Targets
      BY <1>3 DEF Identity
    <3>4. /\ Sound(RefreshReleaseOnly(TrackUp(tab, s)))
          /\ RefreshReleaseOnly(TrackUp(tab, s)).held = tab.held \ {s}
      BY <3>2, TrackUpSound, RefreshSound
    <3> QED BY <1>3, <2>2, <3>1, <3>3, <3>4
  <2>3. CASE active /\ ~ok
    <3> DEFINE failed == [tab EXCEPT !.pending = @ \union {s}]
               after  == [RefreshReleaseOnly(failed) EXCEPT !.pendingTarget[s] = t]
    <3>1. KeyUpForTarget(tab, s, t, active, ok) = after
      BY <1>3, <2>3 DEF KeyUpForTarget, ReleaseSlot
    <3>2. Sound(after) /\ after.held = tab.held
      BY <1>3, ZenonT(60)
      DEF Sound, SlotInv, SlotTable, RefreshReleaseOnly, ReleaseOnlyIsExact,
          HeldHasOwner, PendingIsOwed
    <3> QED BY <2>3, <3>1, <3>2
  <2> QED BY <2>1, <2>2, <2>3
<1> QED BY <1>1, <1>2, <1>3

\* ReconcilePendingReleasesForTarget.
LEMMA ReconcileSound ==
  ASSUME NEW tab, Sound(tab), NEW t \in Identity, NEW active \in BOOLEAN,
         NEW oks \in SUBSET Slots
  PROVE  SoundWith(ReconcilePendingReleasesForTarget(tab, t, active, oks),
                   IF t \in Targets /\ active
                   THEN tab.held \ (OwedTo(tab, t) \intersect oks)
                   ELSE tab.held)
<1>1. tab \in SlotTable /\ HeldHasOwner(tab) /\ PendingIsOwed(tab)
  BY DEF Sound, SlotInv
<1>2. OwedTo(tab, t) \in SUBSET tab.pending
  BY DEF OwedTo
<1> QED BY <1>1, <1>2, ReleaseEachSound DEF SoundWith, ReconcilePendingReleasesForTarget

-----------------------------------------------------------------------------
(* With the calls that name no target an owed release need not be of a     *)
(* held slot nor have an owner; the flag stays exact.                      *)

Exact(tab) == tab \in SlotTable /\ ReleaseOnlyIsExact(tab)
ExactWith(tab, held) == Exact(tab) /\ tab.held = held

\* Refreshing the flag makes any table exact.
LEMMA RefreshExact ==
  ASSUME NEW tab \in SlotTable
  PROVE  ExactWith(RefreshReleaseOnly(tab), tab.held)
BY DEF ExactWith, Exact, SlotTable, RefreshReleaseOnly, ReleaseOnlyIsExact

\* One release attempt, accepted or refused.
LEMMA ReleaseSlotExact ==
  ASSUME NEW tab \in SlotTable, NEW s \in Slots, NEW ok \in BOOLEAN
  PROVE  ExactWith(ReleaseSlot(tab, s, ok), IF ok THEN tab.held \ {s} ELSE tab.held)
<1>1. TrackUp(tab, s) \in SlotTable /\ TrackUp(tab, s).held = tab.held \ {s}
  BY DEF TrackUp, SlotTable, Identity
<1>2. [tab EXCEPT !.pending = @ \union {s}] \in SlotTable
  BY DEF SlotTable
<1> QED BY <1>1, <1>2, RefreshExact DEF ReleaseSlot, ExactWith, SlotTable

\* A batch of release attempts.
LEMMA ReleaseEachExact ==
  ASSUME NEW tab \in SlotTable, NEW S \in SUBSET Slots, NEW oks \in SUBSET Slots
  PROVE  ExactWith(ReleaseEach(tab, S, oks), tab.held \ (S \intersect oks))
BY DEF ReleaseEach, ExactWith, Exact, SlotTable, Identity, RefreshReleaseOnly,
       ReleaseOnlyIsExact

\* A release owed to its slot's owner.
LEMMA OweToOwnerExact ==
  ASSUME NEW tab \in SlotTable, NEW s \in Slots
  PROVE  ExactWith(OweToOwner(tab, s), tab.held)
BY DEF OweToOwner, ExactWith, Exact, SlotTable, RefreshReleaseOnly, ReleaseOnlyIsExact

\* The target-bound calls keep the table exact without what Sound adds.
LEMMA PressExact ==
  ASSUME NEW tab, Exact(tab), NEW s \in Slots, NEW t \in Identity,
         NEW active \in BOOLEAN, NEW ok \in BOOLEAN
  PROVE  ExactWith(KeyDownForTarget(tab, s, t, active, ok),
                   IF PressReachesBackend(tab, s, t, active) /\ ok
                   THEN tab.held \union {s} ELSE tab.held)
<1>1. CASE ~MayPress(tab, t, active) \/ s \in tab.held
  BY <1>1, OweToOwnerExact DEF KeyDownForTarget, PressReachesBackend, ExactWith, Exact
<1>2. CASE MayPress(tab, t, active) /\ s \notin tab.held
  <2>1. KeyDownForTarget(tab, s, t, active, ok) =
          IF ok THEN [TrackDown(tab, s) EXCEPT !.owner[s] = t] ELSE tab
    BY <1>2 DEF KeyDownForTarget, PressReachesBackend
  <2>2. ExactWith([TrackDown(tab, s) EXCEPT !.owner[s] = t], tab.held \union {s})
    BY DEF TrackDown, ExactWith, Exact, SlotTable, Identity, ReleaseOnlyIsExact
  <2> QED BY <1>2, <2>1, <2>2 DEF PressReachesBackend, ExactWith
<1> QED BY <1>1, <1>2

\* See PressExact.
LEMMA ReleaseExact ==
  ASSUME NEW tab, Exact(tab), NEW s \in Slots, NEW t \in Identity,
         NEW active \in BOOLEAN, NEW ok \in BOOLEAN
  PROVE  ExactWith(KeyUpForTarget(tab, s, t, active, ok),
                   IF ReleaseReachesBackend(tab, s, t, active) /\ ok
                   THEN tab.held \ {s} ELSE tab.held)
<1> USE DEF ReleaseReachesBackend
<1>1. CASE s \notin tab.held \union tab.pending
  BY <1>1 DEF KeyUpForTarget, ExactWith
<1>2. CASE s \in tab.held \union tab.pending /\ (t = NoTarget \/ tab.owner[s] # t)
  BY <1>2, OweToOwnerExact, NoTargetAssumption DEF KeyUpForTarget, ExactWith, Exact
<1>3. CASE s \in tab.held \union tab.pending /\ t # NoTarget /\ tab.owner[s] = t
  <2>1. CASE ~active
    <3> DEFINE owed == [tab EXCEPT !.pending = @ \union {s}, !.pendingTarget[s] = t]
    <3>1. owed \in SlotTable /\ owed.held = tab.held
      BY DEF Exact, SlotTable
    <3>2. KeyUpForTarget(tab, s, t, active, ok) = RefreshReleaseOnly(owed)
      BY <1>3, <2>1 DEF KeyUpForTarget
    <3> QED BY <2>1, <3>1, <3>2, RefreshExact
  <2>2. CASE active
    <3>1. ExactWith(ReleaseSlot(tab, s, ok), IF ok THEN tab.held \ {s} ELSE tab.held)
      BY ReleaseSlotExact DEF Exact
    <3>2. t \in Targets
      BY <1>3 DEF Identity
    <3>3. CASE ok
      BY <1>3, <2>2, <3>1, <3>2, <3>3 DEF KeyUpForTarget
    <3>4. CASE ~ok
      <4> DEFINE after == ReleaseSlot(tab, s, ok)
                 bound == [after EXCEPT !.pendingTarget[s] = t]
      <4>1. KeyUpForTarget(tab, s, t, active, ok) = bound
        BY <1>3, <2>2, <3>4 DEF KeyUpForTarget
      <4>2. ExactWith(after, tab.held)
        BY <3>1, <3>4
      <4>3. ExactWith(bound, tab.held)
        <5> HIDE DEF after
        <5> QED BY <4>2 DEF ExactWith, Exact, SlotTable, ReleaseOnlyIsExact
      <4> HIDE DEF after, bound
      <4> QED BY <3>4, <4>1, <4>3
    <3> QED BY <3>3, <3>4
  <2> QED BY <2>1, <2>2
<1> QED BY <1>1, <1>2, <1>3

\* A tap: the down alone is repaired by a release, which may be refused.
LEMMA TapExact ==
  ASSUME NEW tab, Exact(tab), NEW s \in Slots, NEW sent \in 0..2, NEW ok \in BOOLEAN
  PROVE  ExactWith(KeyDownUp(tab, s, sent, ok),
                   IF ~MayDispatch(tab, TRUE) \/ sent = 0 THEN tab.held
                   ELSE IF sent = 1 /\ ~ok THEN tab.held \union {s}
                                          ELSE tab.held \ {s})
<1>1. CASE ~MayDispatch(tab, TRUE) \/ sent = 0
  BY <1>1 DEF KeyDownUp, ExactWith, MayDispatch
<1>2. /\ TrackDown(tab, s) \in SlotTable
      /\ TrackDown(tab, s).held = tab.held \union {s}
      /\ TrackDown(tab, s).pending = tab.pending
      /\ TrackDown(tab, s).releaseOnly = tab.releaseOnly
  BY DEF TrackDown, Exact, SlotTable, Identity
<1>3. CASE MayDispatch(tab, TRUE) /\ sent = 1
  <2>1. KeyDownUp(tab, s, sent, ok) = ReleaseSlot(TrackDown(tab, s), s, ok)
    BY <1>3 DEF KeyDownUp
  <2>2. ExactWith(ReleaseSlot(TrackDown(tab, s), s, ok),
                  IF ok THEN TrackDown(tab, s).held \ {s} ELSE TrackDown(tab, s).held)
    BY <1>2, ReleaseSlotExact
  <2> QED BY <1>2, <1>3, <2>1, <2>2 DEF ExactWith
<1>4. CASE MayDispatch(tab, TRUE) /\ sent = 2
  <2>1. KeyDownUp(tab, s, sent, ok) = TrackUp(TrackDown(tab, s), s)
    BY <1>4 DEF KeyDownUp
  <2>2. tab.pending = {}
    BY <1>4 DEF MayDispatch, Exact, ReleaseOnlyIsExact
  <2>3. ExactWith(TrackUp(TrackDown(tab, s), s), tab.held \ {s})
    BY <1>2, <1>4, <2>2
    DEF TrackUp, MayDispatch, ExactWith, Exact, SlotTable, Identity, ReleaseOnlyIsExact
  <2> QED BY <1>4, <2>1, <2>3
<1>5. sent = 0 \/ sent = 1 \/ sent = 2
  OBVIOUS
<1> QED BY <1>1, <1>3, <1>4, <1>5

\* KeyDownIf and KeyUpIf.
LEMMA UnboundEdgeExact ==
  ASSUME NEW tab, Exact(tab), NEW s \in Slots, NEW valid \in BOOLEAN, NEW ok \in BOOLEAN
  PROVE  /\ ExactWith(KeyDownIf(tab, s, valid, ok),
                      IF MayDispatch(tab, valid) /\ ok THEN tab.held \union {s} ELSE tab.held)
         /\ ExactWith(KeyUpIf(tab, s, valid, ok),
                      IF valid /\ ok THEN tab.held \ {s} ELSE tab.held)
<1>1. ExactWith(KeyDownIf(tab, s, valid, ok),
                IF MayDispatch(tab, valid) /\ ok THEN tab.held \union {s} ELSE tab.held)
  BY DEF KeyDownIf, TrackDown, ExactWith, Exact, SlotTable, Identity, ReleaseOnlyIsExact
<1>2. CASE valid
  BY <1>1, <1>2, ReleaseSlotExact DEF KeyUpIf, Exact
<1>3. CASE ~valid
  <2>1. [tab EXCEPT !.pending = @ \union {s}] \in SlotTable
    BY DEF Exact, SlotTable
  <2>2. ExactWith(RefreshReleaseOnly([tab EXCEPT !.pending = @ \union {s}]), tab.held)
    BY <2>1, RefreshExact DEF Exact, SlotTable
  <2> QED BY <1>1, <1>3, <2>2 DEF KeyUpIf, ExactWith
<1> QED BY <1>2, <1>3

\* ReconcilePendingReleasesIf and ShutdownAndReleaseIf.
LEMMA UnboundSweepExact ==
  ASSUME NEW tab, Exact(tab), NEW valid \in BOOLEAN, NEW oks \in SUBSET Slots
  PROVE  /\ ExactWith(ReconcilePendingReleasesIf(tab, valid, oks),
                      IF valid THEN tab.held \ (tab.pending \intersect oks) ELSE tab.held)
         /\ ExactWith(ShutdownAndReleaseIf(tab, valid, oks),
                      IF valid THEN tab.held \ oks ELSE tab.held)
<1> DEFINE owed == RefreshReleaseOnly([tab EXCEPT !.pending = Slots])
<1>1. Exact(owed) /\ owed.held = tab.held /\ owed.pending = Slots
  BY DEF RefreshReleaseOnly, Exact, SlotTable, ReleaseOnlyIsExact
<1>2. ExactWith(ReleaseEach(tab, tab.pending, oks),
                tab.held \ (tab.pending \intersect oks))
  BY ReleaseEachExact DEF Exact, SlotTable
<1>3. ExactWith(ReleaseEach(owed, Slots, oks), owed.held \ (Slots \intersect oks))
  BY <1>1, ReleaseEachExact DEF Exact
<1>4. tab.held \ (Slots \intersect oks) = tab.held \ oks
  BY DEF Exact, SlotTable
<1> HIDE DEF owed
<1>5. ShutdownAndReleaseIf(tab, valid, oks) = ReconcilePendingReleasesIf(owed, valid, oks)
  BY DEF ShutdownAndReleaseIf, owed
<1> QED BY <1>1, <1>2, <1>3, <1>4, <1>5 DEF ReconcilePendingReleasesIf, ExactWith

\* What a press changes beside the held slots: nothing of another slot, and
\* a slot that becomes held finds no release owed.
LEMMA PressEffect ==
  ASSUME NEW tab, Sound(tab), NEW s \in Slots, NEW t \in Identity,
         NEW active \in BOOLEAN, NEW ok \in BOOLEAN
  PROVE  LET after == KeyDownForTarget(tab, s, t, active, ok)
         IN  /\ \A x \in Slots \ {s} : /\ x \in after.held <=> x \in tab.held
                                       /\ x \in after.pending <=> x \in tab.pending
             /\ s \in tab.held => s \in after.held
             /\ s \in tab.pending => s \in after.pending
             /\ s \in after.held /\ s \notin tab.held => tab.pending = {} /\ after.pending = {}
<1> DEFINE after == KeyDownForTarget(tab, s, t, active, ok)
<1>1. tab \in SlotTable /\ (tab.releaseOnly <=> tab.pending # {})
  BY DEF Sound, SlotInv, ReleaseOnlyIsExact
<1>2. CASE ~MayPress(tab, t, active)
  BY <1>2 DEF KeyDownForTarget, PressReachesBackend
<1>3. CASE MayPress(tab, t, active) /\ s \in tab.held
  <2>1. after = IF tab.owner[s] = t THEN tab ELSE OweToOwner(tab, s)
    BY <1>3 DEF KeyDownForTarget, PressReachesBackend
  <2> HIDE DEF after
  <2>2. OweToOwner(tab, s).held = tab.held /\ OweToOwner(tab, s).pending = tab.pending \union {s}
    BY <1>1 DEF OweToOwner, RefreshReleaseOnly, SlotTable
  <2>3. after.held = tab.held /\ (after.pending = tab.pending \/ after.pending = tab.pending \union {s})
    BY <2>1, <2>2
  <2> QED BY <1>3, <2>3 DEF after
<1>4. CASE MayPress(tab, t, active) /\ s \notin tab.held
  <2>1. after = IF ok THEN [TrackDown(tab, s) EXCEPT !.owner[s] = t] ELSE tab
    BY <1>4 DEF KeyDownForTarget, PressReachesBackend
  <2> HIDE DEF after
  <2>2. after.pending = tab.pending /\ (after.held = tab.held \/ after.held = tab.held \union {s})
    BY <1>1, <2>1 DEF TrackDown, SlotTable
  <2>3. tab.pending = {}
    BY <1>1, <1>4 DEF MayPress
  <2> QED BY <1>4, <2>2, <2>3 DEF after
<1> QED BY <1>2, <1>3, <1>4

\* What a release changes: after it the slot is free or its release is owed.
LEMMA ReleaseEffect ==
  ASSUME NEW tab, Sound(tab), NEW s \in Slots, NEW t \in Identity,
         NEW active \in BOOLEAN, NEW ok \in BOOLEAN
  PROVE  LET after == KeyUpForTarget(tab, s, t, active, ok)
         IN  /\ \A x \in Slots \ {s} : /\ x \in after.held <=> x \in tab.held
                                       /\ x \in after.pending <=> x \in tab.pending
             /\ s \in after.held => s \in tab.held /\ s \in after.pending
<1> DEFINE after == KeyUpForTarget(tab, s, t, active, ok)
           owed  == [tab EXCEPT !.pending = @ \union {s}, !.pendingTarget[s] = t]
           rel   == ReleaseSlot(tab, s, ok)
<1>1. tab \in SlotTable /\ tab.pending \subseteq tab.held
  BY DEF Sound, SlotInv, PendingIsOwed
<1>2. CASE s \notin tab.held
  <2>1. after = tab
    BY <1>1, <1>2 DEF KeyUpForTarget
  <2> HIDE DEF after
  <2> QED BY <1>2, <2>1 DEF after
<1>3. CASE s \in tab.held /\ (t = NoTarget \/ tab.owner[s] # t)
  <2>1. after = OweToOwner(tab, s)
    BY <1>3 DEF KeyUpForTarget
  <2>2. OweToOwner(tab, s).held = tab.held /\ OweToOwner(tab, s).pending = tab.pending \union {s}
    BY <1>1 DEF OweToOwner, RefreshReleaseOnly, SlotTable
  <2> HIDE DEF after
  <2> QED BY <1>3, <2>1, <2>2 DEF after
<1>4. CASE s \in tab.held /\ t # NoTarget /\ tab.owner[s] = t
  <2>1. after = IF ~active THEN RefreshReleaseOnly(owed)
                ELSE IF ok THEN rel ELSE [rel EXCEPT !.pendingTarget[s] = t]
    BY <1>4 DEF KeyUpForTarget
  <2> HIDE DEF after
  <2>2. RefreshReleaseOnly(owed).held = tab.held
        /\ RefreshReleaseOnly(owed).pending = tab.pending \union {s}
    BY <1>1 DEF RefreshReleaseOnly, SlotTable
  <2>3. IF ok THEN rel.held = tab.held \ {s} /\ rel.pending = tab.pending \ {s}
              ELSE rel.held = tab.held /\ rel.pending = tab.pending \union {s}
    BY <1>1 DEF ReleaseSlot, TrackUp, RefreshReleaseOnly, SlotTable
  <2>4. rel \in [held : SUBSET Slots, pending : SUBSET Slots,
               owner : [Slots -> Identity], pendingTarget : [Slots -> Identity],
               releaseOnly : BOOLEAN]
    BY <1>1, ReleaseSlotExact DEF ExactWith, Exact, SlotTable
  <2> HIDE DEF rel, owed
  <2>5. [rel EXCEPT !.pendingTarget[s] = t].held = rel.held
        /\ [rel EXCEPT !.pendingTarget[s] = t].pending = rel.pending
    BY <2>4
  <2>6. \/ after.held = tab.held /\ after.pending = tab.pending \union {s}
        \/ after.held = tab.held \ {s} /\ after.pending = tab.pending \ {s}
    BY <2>1, <2>2, <2>3, <2>5
  <2> QED BY <1>4, <2>6 DEF after
<1> QED BY <1>2, <1>3, <1>4

\* A slot that is still held after the pump's call is owed as before.
LEMMA ReconcileEffect ==
  ASSUME NEW tab, Sound(tab), NEW t \in Identity, NEW active \in BOOLEAN,
         NEW oks \in SUBSET Slots
  PROVE  LET after == ReconcilePendingReleasesForTarget(tab, t, active, oks)
         IN  \A x \in after.held : x \in tab.held /\ (x \in tab.pending => x \in after.pending)
<1>1. tab \in SlotTable
  BY DEF Sound
<1> QED BY <1>1
        DEF ReconcilePendingReleasesForTarget, ReleaseEach, RefreshReleaseOnly, SlotTable
=============================================================================
