------------------------------ MODULE OutputProofs -----------------------------
(***************************************************************************)
(* Proofs about what the program leaves in the system around it: its keys  *)
(* (Injection) and its files (Exit).  The two share no state.              *)
(***************************************************************************)
EXTENDS Injection, Exit, SlotProofs, SequenceTheorems

-----------------------------------------------------------------------------
(***************************************************************************)
(* The injection boundary, for any sets of slots and targets.  Each call   *)
(* and each input it sends keeps the slot table well formed (Sound), and   *)
(* what is held changes exactly when the system accepted an input.  A call *)
(* holds the lock from its check to its last input, so what it checked of  *)
(* the table is still true when it sends (SendingInv), as opposed to what  *)
(* it checked of the foreground.                                           *)
(***************************************************************************)
SendingInv ==
  /\ sending.slots = {} => sending = NothingToSend
  /\ sending.slots # {} => sending.target \in Targets
  /\ sending.down => table.pending = {} /\ sending.slots \intersect table.held = {}
  /\ ~sending.down =>
       \A s \in sending.slots : s \in table.held /\ table.owner[s] = sending.target

IInv == TypeOK /\ SlotInv(table) /\ table.held = systemDown /\ SendingInv

\* An active target is a valid one.
LEMMA ActiveBoolean ==
  ASSUME NEW t PROVE Active(t) \in BOOLEAN /\ (Active(t) => t \in Targets)
BY DEF Active

\* The empty table is well formed, and no call is under way.
LEMMA InitInv == Init => IInv
BY NoTargetAssumption
DEF Init, IInv, TypeOK, EmptyTable, SlotTable, Identity, SlotInv, ReleaseOnlyIsExact,
    HeldHasOwner, PendingIsOwed, SendingInv, NothingToSend

\* A call begins with a sound table, the same slots held, and ups it may send.
LEMMA UpsBegin ==
  ASSUME IInv, SoundWith(table', table.held), NEW t \in Identity, NEW S \in SUBSET table.held,
         S # {} => t \in Targets,
         \A s \in S : table'.owner[s] = t,
         sending' = Ups(t, S), UNCHANGED <<systemDown, foreground, published>>
  PROVE  IInv'
<1>1. S \subseteq Slots
  BY DEF IInv, TypeOK, SlotTable
<1> QED BY <1>1 DEF IInv, TypeOK, SoundWith, Sound, Ups, NothingToSend, SendingInv, Identity

\* The releases a reconciliation sends are of held slots of that owner.
LEMMA SettlesOwned ==
  ASSUME NEW tab, Sound(tab), NEW t
  PROVE  /\ Settles(tab, t) \in SUBSET tab.held
         /\ Settles(tab, t) # {} => Active(t)
         /\ \A s \in Settles(tab, t) : tab.owner[s] = t
BY DEF Settles, OwedTo, Sound, SlotInv, PendingIsOwed

\* Press up to its check.
LEMMA PressInv ==
  ASSUME IInv, NEW s \in Slots, NEW t \in Identity, Press(s, t)
  PROVE  IInv'
<1>0. Sound(table) /\ table.held = systemDown
  BY DEF IInv, TypeOK, Sound
<1>1. \A active \in BOOLEAN :
        SoundWith(KeyDownForTarget(table, s, t, active, FALSE),
                  IF PressReachesBackend(table, s, t, active) /\ FALSE
                  THEN table.held \union {s} ELSE table.held)
  BY <1>0, PressSound
<1>2. SoundWith(table', table.held)
  BY <1>1, ActiveBoolean DEF Press
<1>3. CASE PressReachesBackend(table, s, t, Active(t))
  <2>1. table' = table /\ table.pending = {} /\ s \notin table.held /\ t \in Targets
    BY <1>0, <1>3
    DEF Press, PressReachesBackend, KeyDownForTarget, MayPress, Sound, SlotInv,
        ReleaseOnlyIsExact
  <2>2. sending' = [down |-> TRUE, target |-> t, slots |-> {s}]
    BY <1>3 DEF Press, Downs
  <2>3. TypeOK'
    <3>1. {s} \in SUBSET Slots /\ t \in Identity /\ TRUE \in BOOLEAN
      OBVIOUS
    <3>2. sending' \in [down : BOOLEAN, target : Identity, slots : SUBSET Slots]
      BY <2>2, <3>1
    <3>3. UNCHANGED <<table, systemDown, foreground, published>> /\ TypeOK
      BY <2>1 DEF Press, IInv
    <3> QED BY <3>2, <3>3 DEF TypeOK
  <2>4. SendingInv'
    BY <2>1, <2>2 DEF SendingInv, NothingToSend
  <2> QED BY <2>1, <2>3, <2>4 DEF Press, IInv
<1>4. CASE ~PressReachesBackend(table, s, t, Active(t))
  <2>1. sending' = NothingToSend
    BY <1>4 DEF Press, Downs
  <2>2. TypeOK'
    <3>1. sending' \in [down : BOOLEAN, target : Identity, slots : SUBSET Slots]
      BY <2>1 DEF NothingToSend, Identity
    <3>2. table' \in SlotTable
      BY <1>2 DEF SoundWith, Sound
    <3>3. UNCHANGED <<systemDown, foreground, published>> /\ TypeOK
      BY DEF Press, IInv
    <3> QED BY <3>1, <3>2, <3>3 DEF TypeOK
  <2>3. SendingInv'
    BY <2>1 DEF SendingInv, NothingToSend
  <2> QED BY <1>0, <1>2, <2>2, <2>3 DEF Press, IInv, SoundWith, Sound
<1> QED BY <1>3, <1>4

\* Release up to its check.
LEMMA ReleaseInv ==
  ASSUME IInv, NEW s \in Slots, NEW t \in Identity, Release(s, t)
  PROVE  IInv'
<1>0. Sound(table) /\ table.held = systemDown
  BY DEF IInv, TypeOK, Sound
<1>1. CASE ReleaseReachesBackend(table, s, t, Active(t))
  <2>1. s \in table.held /\ table.owner[s] = t /\ t \in Targets
    BY <1>0, <1>1 DEF ReleaseReachesBackend, Sound, SlotInv, PendingIsOwed
  <2>2. SoundWith(table', table.held) /\ table' = table /\ sending' = Ups(t, {s})
    BY <1>0, <1>1 DEF Release, SoundWith
  <2> QED BY <2>1, <2>2, UpsBegin DEF Release
<1>2. CASE ~ReleaseReachesBackend(table, s, t, Active(t))
  <2>1. \A active \in BOOLEAN :
          SoundWith(KeyUpForTarget(table, s, t, active, FALSE),
                    IF ReleaseReachesBackend(table, s, t, active) /\ FALSE
                    THEN table.held \ {s} ELSE table.held)
    BY <1>0, ReleaseSound
  <2>2. SoundWith(table', table.held)
    BY <1>2, <2>1, ActiveBoolean DEF Release
  <2>3. sending' = sending /\ sending.slots = {}
    BY <1>2 DEF Release, Free
  <2>4. SendingInv'
    BY <2>3 DEF IInv, SendingInv, NothingToSend
  <2> QED BY <2>2, <2>3, <2>4 DEF Release, IInv, TypeOK, SoundWith, Sound
<1> QED BY <1>1, <1>2

\* Reconciliation and shutdown up to their check.
LEMMA SweepInv ==
  ASSUME IInv, NEW t \in Identity, Reconcile(t) \/ Shutdown(t)
  PROVE  IInv'
<1>0. Sound(table) /\ table.held = systemDown
  BY DEF IInv, TypeOK, Sound
<1>1. CASE Reconcile(t)
  BY <1>0, <1>1, SettlesOwned, UpsBegin, ActiveBoolean DEF Reconcile, SoundWith
<1>2. CASE Shutdown(t)
  <2>1. Sound(OweAllHeld(table)) /\ OweAllHeld(table).held = table.held
    BY <1>0, OweAllHeldSound
  <2> QED BY <1>2, <2>1, SettlesOwned, UpsBegin, ActiveBoolean DEF Shutdown, SoundWith
<1> QED BY <1>1, <1>2

\* The input of a press.
LEMMA DownSentInv ==
  ASSUME IInv, NEW s \in Slots, NEW ok \in BOOLEAN, DownSent(s, ok)
  PROVE  IInv'
<1>0. Sound(table) /\ table.held = systemDown
  BY DEF IInv, TypeOK, Sound
<1>1. sending.target \in Targets /\ table.pending = {} /\ s \notin table.held
  BY DEF DownSent, IInv, SendingInv
<1>2. CASE ~ok
  BY <1>2 DEF DownSent, IInv, TypeOK, SendingInv, NothingToSend, Identity
<1>3. CASE ok
  <2>1. table' = KeyDownForTarget(table, s, sending.target, TRUE, TRUE)
        /\ PressReachesBackend(table, s, sending.target, TRUE)
    BY <1>0, <1>1, <1>3
    DEF DownSent, KeyDownForTarget, PressReachesBackend, MayPress, Sound, SlotInv,
        ReleaseOnlyIsExact, SlotTable
  <2>2. SoundWith(table', table.held \union {s})
    BY <1>0, <1>1, <2>1, PressSound DEF Identity
  <2> QED BY <1>0, <1>3, <2>2
      DEF DownSent, IInv, TypeOK, SendingInv, NothingToSend, SoundWith, Sound, Identity
<1> QED BY <1>2, <1>3

\* One of the ups of a call.
LEMMA UpSentInv ==
  ASSUME IInv, NEW s \in Slots, NEW ok \in BOOLEAN, UpSent(s, ok)
  PROVE  /\ IInv'
         /\ table'.held = IF ok THEN table.held \ {s} ELSE table.held
<1> DEFINE t == sending.target
           rest == sending.slots \ {s}
<1>0. Sound(table) /\ table.held = systemDown
  BY DEF IInv, TypeOK, Sound
<1>1. t \in Targets /\ s \in table.held /\ table.owner[s] = t
  BY DEF UpSent, IInv, SendingInv
<1>2. table' = KeyUpForTarget(table, s, t, TRUE, ok) /\ ReleaseReachesBackend(table, s, t, TRUE)
  BY <1>1, NoTargetAssumption DEF UpSent, KeyUpForTarget, ReleaseReachesBackend
<1>3. SoundWith(table', IF ok THEN table.held \ {s} ELSE table.held)
  BY <1>0, <1>1, <1>2, ReleaseSound DEF Identity
<1>4. \A r \in rest : r \in table'.held /\ table'.owner[r] = t
  <2>1. \A r \in rest : r \in table.held /\ table.owner[r] = t /\ r # s /\ r \in Slots
    BY DEF UpSent, IInv, SendingInv, TypeOK
  <2>2. table'.owner = IF ok THEN [table.owner EXCEPT ![s] = NoTarget] ELSE table.owner
    BY <1>0 DEF UpSent, ReleaseSlot, TrackUp, RefreshReleaseOnly, Sound, SlotTable
  <2>3. \A r \in rest : table'.owner[r] = table.owner[r]
    BY <1>0, <2>1, <2>2 DEF Sound, SlotTable
  <2> QED BY <1>3, <2>1, <2>3 DEF SoundWith
<1>5. rest \subseteq Slots /\ sending' = Ups(t, rest)
  BY DEF UpSent, IInv, TypeOK
<1> QED BY <1>0, <1>1, <1>3, <1>4, <1>5
    DEF UpSent, IInv, TypeOK, SoundWith, Sound, Ups, NothingToSend, SendingInv, Identity

\* Every action keeps the inductive invariant, one step per action.
LEMMA NextInv == IInv /\ [Next]_vars => IInv'
<1> SUFFICES ASSUME IInv, [Next]_vars PROVE IInv'
  OBVIOUS
<1>1. ASSUME NEW t \in Identity, Focus(t) PROVE IInv'
  BY <1>1 DEF Focus, boundaryVars, IInv, TypeOK, SendingInv
<1>2. CASE Publish
  BY <1>2 DEF Publish, boundaryVars, IInv, TypeOK, SendingInv
<1>3. ASSUME NEW t \in Identity, Reconcile(t) \/ Shutdown(t) PROVE IInv'
  BY <1>3, SweepInv
<1>4. CASE Pump
  BY <1>3, <1>4 DEF Pump, Identity
<1>5. CASE UNCHANGED vars
  BY <1>5 DEF vars, IInv, TypeOK, SendingInv
<1> QED BY <1>1, <1>2, <1>3, <1>4, <1>5, PressInv, ReleaseInv, DownSentInv, UpSentInv
    DEF Next, Environment, Sent

\* The inductive invariant holds in every reachable state.
LEMMA Invariance == Spec => []IInv
BY InitInv, NextInv, PTL DEF Spec

(* The state always has the type its declarations give it.                 *)
THEOREM TypeCorrect == Spec => []TypeOK
<1>1. IInv => TypeOK
  BY DEF IInv
<1> QED BY Invariance, <1>1, PTL

(* The release-only gate is open exactly when no release is owed.          *)
THEOREM GateExact == Spec => []ReleaseOnlyExact
<1>1. IInv => ReleaseOnlyExact
  BY DEF IInv, SlotInv, ReleaseOnlyExact
<1> QED BY Invariance, <1>1, PTL

(* Owed releases are releases of held slots, bound to the slot's owner.    *)
THEOREM OwnersBound == Spec => []ReleasesBoundToOwner
<1>1. IInv => ReleasesBoundToOwner
  BY DEF IInv, SlotInv, ReleasesBoundToOwner
<1> QED BY Invariance, <1>1, PTL

(* What the boundary believes is down is what the system accepted.         *)
THEOREM LedgerExact == Spec => []LedgerAgreesWithSystem
<1>1. IInv => LedgerAgreesWithSystem
  BY DEF IInv, LedgerAgreesWithSystem
<1> QED BY Invariance, <1>1, PTL

-----------------------------------------------------------------------------
(* What a step may never do.                                               *)

\* What any step may do to what the system holds: inputs change it, no call
\* does, and a call that sends has found its target active.
LEMMA StepLemma ==
  ASSUME IInv, [Next]_vars
  PROVE  /\ systemDown' \ systemDown # {} => table.pending = {}
         /\ \A s \in systemDown \ systemDown' :
              s \in sending.slots /\ sending.target = table.owner[s]
         /\ Free /\ sending' # sending => Active(sending'.target)
<1>1. CASE Environment \/ UNCHANGED vars
  BY <1>1 DEF Environment, Focus, Publish, vars, boundaryVars
<1>0. Sound(table) /\ (Free => sending = NothingToSend)
  BY DEF IInv, TypeOK, Sound, SendingInv, Free
<1>2. ASSUME NEW s \in Slots, NEW t \in Identity, Press(s, t) \/ Release(s, t)
      PROVE  systemDown' = systemDown /\ (sending' = sending \/ Active(sending'.target))
  <2>1. CASE Press(s, t)
    BY <1>0, <2>1 DEF Press, Downs, PressReachesBackend, MayPress, NothingToSend
  <2>2. CASE Release(s, t)
    <3>1. CASE ReleaseReachesBackend(table, s, t, Active(t))
      <4>1. Ups(t, {s}) = [down |-> FALSE, target |-> t, slots |-> {s}]
        BY DEF Ups
      <4> QED BY <2>2, <3>1, <4>1 DEF Release, ReleaseReachesBackend
    <3>2. CASE ~ReleaseReachesBackend(table, s, t, Active(t))
      BY <2>2, <3>2 DEF Release
    <3> QED BY <3>1, <3>2
  <2> QED BY <1>2, <2>1, <2>2
<1>3. ASSUME NEW t \in Identity, Reconcile(t) \/ Shutdown(t)
      PROVE  systemDown' = systemDown /\ (sending' = sending \/ Active(sending'.target))
  BY <1>0, <1>3 DEF Reconcile, Shutdown, Ups, Settles, Active
<1>4. ASSUME Pump
      PROVE  systemDown' = systemDown /\ (sending' = sending \/ Active(sending'.target))
  BY <1>3, <1>4 DEF Pump, Identity
<1>5. ASSUME NEW s \in Slots, NEW ok \in BOOLEAN, DownSent(s, ok)
      PROVE  ~Free /\ systemDown \ systemDown' = {} /\ table.pending = {}
  BY <1>5 DEF DownSent, Free, IInv, SendingInv
<1>6. ASSUME NEW s \in Slots, NEW ok \in BOOLEAN, UpSent(s, ok)
      PROVE  /\ ~Free /\ systemDown' \ systemDown = {}
             /\ systemDown \ systemDown' \subseteq {s}
             /\ s \in sending.slots /\ sending.target = table.owner[s]
  BY <1>6 DEF UpSent, Free, IInv, SendingInv
<1>7. ASSUME systemDown' = systemDown /\ (sending' = sending \/ Active(sending'.target))
      PROVE  /\ systemDown' \ systemDown = {} /\ systemDown \ systemDown' = {}
             /\ sending' # sending => Active(sending'.target)
  BY <1>7
<1> QED BY <1>1, <1>2, <1>3, <1>4, <1>5, <1>6, <1>7 DEF Next, Sent

(* No down reaches the system while any release is owed.                   *)
THEOREM ReleaseOnlyGate == Spec => NoPressWhileReleaseOwed
<1>1. IInv /\ [Next]_vars => [systemDown' \ systemDown # {} => table.pending = {}]_vars
  BY StepLemma
<1> QED BY <1>1, Invariance, PTL DEF Spec, NoPressWhileReleaseOwed

(* An up reaches the system only from a call that named the slot's owner   *)
(* and found it active before it sent anything, however long ago.          *)
THEOREM OwnerGate == Spec => ReleaseCheckedAtOwner
<1>1. IInv /\ [Next]_vars =>
        [/\ \A s \in systemDown \ systemDown' :
              s \in sending.slots /\ sending.target = table.owner[s]
         /\ Free /\ sending' # sending => Active(sending'.target)]_vars
  BY StepLemma
<1> QED BY <1>1, Invariance, PTL DEF Spec, ReleaseCheckedAtOwner

-----------------------------------------------------------------------------
(* With the calls that name no target (FullSpec) an owed release need not  *)
(* be of a held slot nor have an owner; the flag and the ledger stay exact.*)

FullInv == TypeOK /\ ReleaseOnlyIsExact(table) /\ table.held = systemDown

\* Every call keeps the full invariant, one step per action.
LEMMA FullInvariant == FullSpec => []FullInv
<1> DEFINE Step == Next \/ UnboundNext
<1>1. Init => FullInv
  BY NoTargetAssumption
  DEF Init, FullInv, TypeOK, EmptyTable, SlotTable, Identity, ReleaseOnlyIsExact,
      NothingToSend
<1>2. FullInv /\ [Step]_vars => FullInv'
  <2> SUFFICES ASSUME FullInv, [Step]_vars PROVE FullInv'
    OBVIOUS
  <2>0. Exact(table) /\ TypeOK /\ table.held = systemDown
    BY DEF FullInv, TypeOK, Exact
  <2> DEFINE Calls == [down : BOOLEAN, target : Identity, slots : SUBSET Slots]
  <2>1. ASSUME ExactWith(table', systemDown'), UNCHANGED <<foreground, published>>,
               sending' \in Calls
        PROVE  FullInv'
    BY <2>0, <2>1 DEF FullInv, TypeOK, ExactWith, Exact, SlotTable
  <2>2. CASE Environment \/ UNCHANGED vars
    BY <2>2 DEF Environment, Focus, Publish, vars, boundaryVars, FullInv, TypeOK
  <2>3. ASSUME NEW t \in Identity, NEW S \in SUBSET Slots
        PROVE  Downs(t, S) \in Calls /\ Ups(t, S) \in Calls /\ NothingToSend \in Calls
    BY DEF Downs, Ups, NothingToSend, Identity
  <2>4. ASSUME NEW s \in Slots, NEW t \in Identity, Press(s, t) PROVE FullInv'
    <3>1. \A active \in BOOLEAN :
            ExactWith(KeyDownForTarget(table, s, t, active, FALSE),
                      IF PressReachesBackend(table, s, t, active) /\ FALSE
                      THEN table.held \union {s} ELSE table.held)
      BY <2>0, PressExact
    <3>2. ExactWith(table', table.held)
      BY <2>4, <3>1, ActiveBoolean DEF Press
    <3> QED BY <2>0, <2>1, <2>3, <2>4, <3>2 DEF Press
  <2>5. ASSUME NEW s \in Slots, NEW t \in Identity, Release(s, t) PROVE FullInv'
    <3>1. \A active \in BOOLEAN :
            ExactWith(KeyUpForTarget(table, s, t, active, FALSE),
                      IF ReleaseReachesBackend(table, s, t, active) /\ FALSE
                      THEN table.held \ {s} ELSE table.held)
      BY <2>0, ReleaseExact
    <3>2. ExactWith(table', table.held)
      BY <2>0, <2>5, <3>1, ActiveBoolean DEF Release, ExactWith
    <3>3. sending' = sending \/ sending' = Ups(t, {s})
      BY <2>5 DEF Release
    <3>4. sending' \in Calls
      BY <2>0, <2>3, <3>3 DEF TypeOK
    <3> QED BY <2>0, <2>1, <2>5, <3>2, <3>4 DEF Release
  <2>6. ASSUME NEW t \in Identity, Reconcile(t) \/ Shutdown(t) PROVE FullInv'
    <3>1. Exact(OweAllHeld(table)) /\ OweAllHeld(table).held = table.held
      BY <2>0 DEF OweAllHeld, Exact, SlotTable, RefreshReleaseOnly, ReleaseOnlyIsExact
    <3>2. Settles(table, t) \in SUBSET Slots /\ Settles(OweAllHeld(table), t) \in SUBSET Slots
      BY <2>0, <3>1 DEF Settles, OwedTo, Exact, SlotTable
    <3> QED BY <2>0, <2>1, <2>3, <2>6, <3>1, <3>2 DEF Reconcile, Shutdown, ExactWith
  <2>7. CASE Pump
    BY <2>0, <2>6, <2>7 DEF Pump, TypeOK
  <2>8. ASSUME NEW s \in Slots, NEW ok \in BOOLEAN, DownSent(s, ok) PROVE FullInv'
    <3>1. sending.target \in Identity
      BY <2>0 DEF TypeOK
    <3>2. ExactWith([TrackDown(table, s) EXCEPT !.owner[s] = sending.target],
                    table.held \union {s})
      BY <2>0, <3>1 DEF TrackDown, ExactWith, Exact, SlotTable, Identity, ReleaseOnlyIsExact
    <3>3. ExactWith(table', systemDown')
      BY <2>0, <2>8, <3>2 DEF DownSent, ExactWith
    <3>4. NothingToSend \in Calls
      BY DEF NothingToSend, Identity
    <3>5. sending' \in Calls /\ UNCHANGED <<foreground, published>>
      BY <2>8, <3>4 DEF DownSent
    <3> HIDE DEF Calls
    <3> QED BY <2>1, <3>3, <3>5
  <2>9. ASSUME NEW s \in Slots, NEW ok \in BOOLEAN, UpSent(s, ok) PROVE FullInv'
    <3> DEFINE after == ReleaseSlot(table, s, ok)
    <3>0. table \in SlotTable /\ sending.target \in Identity /\ sending.slots \in SUBSET Slots
      BY <2>0 DEF TypeOK
    <3>1. ExactWith(after, IF ok THEN table.held \ {s} ELSE table.held)
      BY <3>0, ReleaseSlotExact
    <3>2. ExactWith([after EXCEPT !.pendingTarget[s] = sending.target], after.held)
      <4> HIDE DEF after
      <4> QED BY <3>0, <3>1 DEF ExactWith, Exact, SlotTable, ReleaseOnlyIsExact
    <3>3. ExactWith(table', systemDown')
      <4> HIDE DEF after
      <4>1. table' = IF ok THEN after ELSE [after EXCEPT !.pendingTarget[s] = sending.target]
        BY <2>9 DEF UpSent, after
      <4> QED BY <2>0, <2>9, <3>1, <3>2, <4>1 DEF UpSent, ExactWith
    <3>4. sending' \in Calls
      BY <2>3, <2>9, <3>0 DEF UpSent
    <3> QED BY <2>1, <2>9, <3>3, <3>4 DEF UpSent
  <2>10. ASSUME NEW s \in Slots, NEW valid \in BOOLEAN, NEW ok \in BOOLEAN,
               PressIf(s, valid, ok) \/ ReleaseIf(s, valid, ok)
        PROVE  FullInv'
    <3>1. ExactWith(table', systemDown')
      BY <2>0, <2>10, UnboundEdgeExact DEF PressIf, ReleaseIf
    <3> QED BY <2>0, <2>1, <2>10, <3>1 DEF PressIf, ReleaseIf, TypeOK
  <2>11. ASSUME NEW s \in Slots, NEW sent \in 0..2, NEW ok \in BOOLEAN, Tap(s, sent, ok)
        PROVE  FullInv'
    BY <2>0, <2>1, <2>11, TapExact DEF Tap, TypeOK
  <2>12. ASSUME NEW valid \in BOOLEAN, NEW oks \in SUBSET Slots,
               ReconcileIf(valid, oks) \/ ShutdownIf(valid, oks)
        PROVE  FullInv'
    BY <2>0, <2>1, <2>12, UnboundSweepExact DEF ReconcileIf, ShutdownIf, TypeOK
  <2> QED BY <2>2, <2>4, <2>5, <2>6, <2>7, <2>8, <2>9, <2>10, <2>11, <2>12
          DEF Next, UnboundNext, Sent
<1> QED BY <1>1, <1>2, PTL DEF FullSpec

(* Whatever mix of target-bound and unbound calls is made, the release-only*)
(* flag says exactly that a release is owed.                               *)
THEOREM FullGateExact == FullSpec => []ReleaseOnlyExact
<1>1. FullInv => ReleaseOnlyExact
  BY DEF FullInv, ReleaseOnlyExact
<1> QED BY FullInvariant, <1>1, PTL

(* Under the same mix, taps the system accepted by halves included, what   *)
(* the boundary believes is down is what the system accepted.              *)
THEOREM FullLedgerExact == FullSpec => []LedgerAgreesWithSystem
<1>1. FullInv => LedgerAgreesWithSystem
  BY DEF FullInv, LedgerAgreesWithSystem
<1> QED BY FullInvariant, <1>1, PTL

-----------------------------------------------------------------------------
(***************************************************************************)
(* The end of the program.  For any threads, sizes and numbers of calls:   *)
(* the log is in order and Flush tells the truth, no forensic event goes   *)
(* uncounted, and marco.ini is never half of a configuration.  Each is     *)
(* proved of its component alone and carried over to the program.          *)
(***************************************************************************)
(* Every step of the program is a step of each component or leaves it      *)
(* alone: the components share nothing but the threads that call them.     *)
THEOREM ExitComposes == ExitSpec => LogSpec /\ ForensicsSpec /\ FilesSpec
<1>1. ExitInit => LogInit /\ ForensicsInit /\ FilesInit
  BY DEF ExitInit
<1>2. [ExitNext]_exitVars => [LogNext]_logVars /\ [ForensicsNext]_forensicVars
                             /\ [FilesNext]_fileVars
  <2> SUFFICES ASSUME [ExitNext]_exitVars
               PROVE  [LogNext]_logVars /\ [ForensicsNext]_forensicVars
                      /\ [FilesNext]_fileVars
    OBVIOUS
  <2> USE ExitAssumption DEF LogIdle, ForensicsIdle, FilesIdle, NothingElse
  <2>0. Owner \in Writers /\ Owner \in Pushers /\ Owner \in Savers
    BY DEF Threads
  <2>1. ASSUME NEW t \in Threads, Call(t)
        PROVE  [LogNext]_logVars /\ [ForensicsNext]_forensicVars /\ [FilesNext]_fileVars
    BY <2>1 DEF Call, LogNext, ForensicsNext, FilesNext
  <2>2. ASSUME NEW t \in Threads, Continue(t)
        PROVE  [LogNext]_logVars /\ [ForensicsNext]_forensicVars /\ [FilesNext]_fileVars
    BY <2>2 DEF Continue, LogNext, ForensicsNext, FilesNext
  <2>3. CASE LogThread
    BY <2>3 DEF LogThread, LogNext
  <2>4. CASE ForensicsThread
    BY <2>4 DEF ForensicsThread, ForensicsNext
  <2>5. CASE LeaveLoop \/ \E t \in Others : Leave(t)
    BY <2>5 DEF LeaveLoop, Leave
  <2>6. CASE StopFiling \/ FileTheRest
    BY <2>6 DEF StopFiling, FileTheRest, ForensicsNext
  <2>7. CASE FinalSave
    BY <2>0, <2>7 DEF FinalSave, FilesNext
  <2>8. CASE FlushLog \/ LogFlushed \/ Complain \/ StopLog \/ LogJoined
    BY <2>0, <2>8 DEF FlushLog, LogFlushed, Complain, StopLog, LogJoined, LogNext
  <2>9. CASE UNCHANGED exitVars
    BY <2>9 DEF exitVars
  <2> QED
    BY <2>1, <2>2, <2>3, <2>4, <2>5, <2>6, <2>7, <2>8, <2>9 DEF ExitNext, CleanUp
<1> QED
  BY <1>1, <1>2, PTL DEF ExitSpec, LogSpec, ForensicsSpec, FilesSpec

-----------------------------------------------------------------------------
(* The log.                                                                *)

LogTypeOK ==
  /\ accepting \in BOOLEAN
  /\ queue \in Seq(Nat) /\ taken \in Seq(Nat) /\ logfile \in Seq(Nat)
  /\ accepted \in Nat /\ completed \in Nat /\ dropped \in Nat
  /\ logger \in {"check", "asleep", "write", "complete", "exit"}
  /\ writer \in [Writers -> {"idle", "notify"}]
  /\ flush \in [pc : {"none", "waiting", "done"}, target : Nat, ok : BOOLEAN]
  /\ closing \in {"open", "notify", "join", "closed"}

\* What is completed has been written, and so has the batch about to be completed.
CompletedIsWritten ==
  /\ logger \notin {"write", "complete"} => taken = <<>>
  /\ completed + (IF logger = "complete" THEN Len(taken) ELSE 0) <= Len(logfile)

LogInv == LogTypeOK /\ CompletedIsWritten /\ LogInOrder /\ FlushMeansWritten

\* The numbers up to n + 1 are those up to n and one more.
LEMMA CountOneMore ==
  ASSUME NEW n \in Nat
  PROVE  /\ [i \in 1..n |-> i] \in Seq(Nat)
         /\ [i \in 1..(n + 1) |-> i] = Append([i \in 1..n |-> i], n + 1)
<1> DEFINE s == [i \in 1..n |-> i]
<1>1. s \in Seq(Nat) /\ Len(s) = n
  OBVIOUS
<1>2. Append(s, n + 1) = [i \in 1..(n + 1) |-> i]
  BY <1>1, AppendProperties
<1> QED
  BY <1>1, <1>2

\* Appending to the last of two parts appends to the whole.
LEMMA AppendAtTheEnd ==
  ASSUME NEW s \in Seq(Nat), NEW q \in Seq(Nat), NEW x \in Nat
  PROVE  s \o Append(q, x) = Append(s \o q, x)
<1>1. Append(q, x) = q \o <<x>> /\ <<x>> \in Seq(Nat)
  BY AppendIsConcat
<1>2. s \o q \in Seq(Nat)
  BY ConcatProperties
<1>3. Append(s \o q, x) = (s \o q) \o <<x>>
  BY <1>2, AppendIsConcat
<1> QED
  BY <1>1, <1>3, ConcatAssociative

(* The log keeps its types, its order and the truth of Flush.              *)
THEOREM LogKept == LogSpec => []LogInv
<1>1. LogInit => LogInv
  <2> SUFFICES ASSUME LogInit PROVE LogInv
    OBVIOUS
  <2> USE DEF LogInit, NoFlush
  <2>1. LogTypeOK /\ CompletedIsWritten /\ FlushMeansWritten
    BY DEF LogTypeOK, CompletedIsWritten, FlushMeansWritten
  <2>2. LogInOrder
    BY ConcatEmptySeq DEF LogInOrder, InHand
  <2> QED
    BY <2>1, <2>2 DEF LogInv
<1>2. LogInv /\ [LogNext]_logVars => LogInv'
  <2> SUFFICES ASSUME LogInv, [LogNext]_logVars PROVE LogInv'
    OBVIOUS
  <2> USE DEF LogInv
  <2>a. ASSUME UNCHANGED <<logfile, accepted, completed, taken, queue>>,
               logger' \in {"check", "asleep", "exit"},
               logger \in {"check", "asleep", "exit"}
        PROVE  CompletedIsWritten' /\ LogInOrder'
    BY <2>a DEF CompletedIsWritten, LogInOrder, InHand
  <2>b. /\ Notified \in {"check", "asleep", "write", "complete", "exit"}
        /\ (logger' = Notified /\ UNCHANGED <<logfile, accepted, completed, taken, queue>>)
           => CompletedIsWritten' /\ LogInOrder'
    BY DEF LogTypeOK, Notified, CompletedIsWritten, LogInOrder, InHand
  <2>1. ASSUME NEW t \in Writers, Write(t)
        PROVE  LogInv'
    <3>1. CASE ~accepting \/ NoRoom
      <4>1. /\ dropped' = dropped + 1
            /\ UNCHANGED <<accepting, queue, taken, logfile, accepted, completed, logger,
                           writer, flush, closing>>
        BY <2>1, <3>1 DEF Write
      <4>2. LogTypeOK'
        BY <4>1 DEF LogTypeOK
      <4>3. CompletedIsWritten' /\ LogInOrder' /\ FlushMeansWritten'
        BY <4>1 DEF CompletedIsWritten, LogInOrder, InHand, FlushMeansWritten
      <4> QED
        BY <4>2, <4>3
    <3>2. CASE ~(~accepting \/ NoRoom)
      <4>1. /\ queue' = Append(queue, accepted + 1) /\ accepted' = accepted + 1
            /\ writer' = [writer EXCEPT ![t] = "notify"]
            /\ UNCHANGED <<accepting, taken, logfile, completed, logger, flush, closing,
                           dropped>>
        BY <2>1, <3>2 DEF Write
      <4>2. LogTypeOK' /\ CompletedIsWritten' /\ FlushMeansWritten'
        BY <4>1, AppendProperties DEF LogTypeOK, CompletedIsWritten, FlushMeansWritten
      <4>3. InHand \in Seq(Nat) /\ logfile \o InHand \in Seq(Nat)
        BY ConcatProperties, EmptySeq DEF LogTypeOK, InHand
      <4>4. (logfile \o InHand) \o Append(queue, accepted + 1)
            = Append((logfile \o InHand) \o queue, accepted + 1)
        <5>1. queue \in Seq(Nat) /\ accepted + 1 \in Nat
          BY DEF LogTypeOK
        <5> QED
          BY ONLY <4>3, <5>1, AppendAtTheEnd
      <4>5. LogInOrder'
        BY <4>1, <4>4, CountOneMore DEF LogInOrder, InHand, LogTypeOK
      <4> QED
        BY <4>2, <4>5
    <3> QED
      BY <3>1, <3>2
  <2>2. ASSUME NEW t \in Writers, NotifyOne(t)
        PROVE  LogInv'
    BY <2>2, <2>b DEF NotifyOne, LogTypeOK, FlushMeansWritten
  <2>3. CASE Sleep
    BY <2>3, <2>a DEF Sleep, LogTypeOK, FlushMeansWritten
  <2>4. CASE Take
    <3>1. /\ logger = "check" /\ logger' = "write" /\ taken' = queue /\ queue' = <<>>
          /\ UNCHANGED <<logfile, accepted, completed, flush>>
      BY <2>4 DEF Take, QueueAfterSwap
    <3>2. LogTypeOK' /\ CompletedIsWritten' /\ FlushMeansWritten'
      BY <2>4, <3>1 DEF Take, LogTypeOK, CompletedIsWritten, FlushMeansWritten
    <3>3. (logfile \o <<>>) \o queue = (logfile \o queue) \o <<>>
      <4>1. logfile \o queue \in Seq(Nat)
        BY ConcatProperties DEF LogTypeOK
      <4> QED
        BY <4>1, ConcatEmptySeq DEF LogTypeOK
    <3>4. LogInOrder'
      BY <3>1, <3>3 DEF LogInOrder, InHand
    <3> QED
      BY <3>2, <3>4
  <2>5. CASE WriteOut
    <3>1. /\ logger = "write" /\ logger' = "complete" /\ logfile' = logfile \o taken
          /\ UNCHANGED <<taken, queue, accepted, completed, flush>>
      BY <2>5 DEF WriteOut
    <3>2. logfile' \in Seq(Nat) /\ Len(logfile') = Len(logfile) + Len(taken)
          /\ Len(logfile) \in Nat /\ Len(taken) \in Nat
      BY <3>1, ConcatProperties DEF LogTypeOK
    <3>3. LogTypeOK' /\ CompletedIsWritten' /\ FlushMeansWritten'
      BY <2>5, <3>1, <3>2 DEF WriteOut, LogTypeOK, CompletedIsWritten, FlushMeansWritten
    <3>4. (logfile \o taken) \o <<>> = logfile \o taken
      BY <3>1, <3>2, ConcatEmptySeq
    <3>5. LogInOrder'
      BY <3>1, <3>4 DEF LogInOrder, InHand
    <3> QED
      BY <3>3, <3>5
  <2>6. CASE Complete
    <3>1. /\ logger = "complete" /\ logger' = "check"
          /\ completed' = completed + Len(taken) /\ taken' = <<>>
          /\ UNCHANGED <<accepting, queue, logfile, accepted, dropped, writer, flush,
                         closing>>
      BY <2>6 DEF Complete
    <3>2. LogTypeOK'
      BY <3>1 DEF LogTypeOK
    <3>3. CompletedIsWritten' /\ LogInOrder' /\ FlushMeansWritten'
      BY <3>1 DEF CompletedIsWritten, LogInOrder, InHand, FlushMeansWritten
    <3> QED
      BY <3>2, <3>3
  <2>7. CASE WorkerExit
    BY <2>7, <2>a DEF WorkerExit, LogTypeOK, FlushMeansWritten
  <2>8. CASE FlushBegin
    BY <2>8, <2>b DEF FlushBegin, LogTypeOK, FlushMeansWritten
  <2>9. CASE FlushReturn
    <3>1. /\ flush.pc = "waiting" /\ flush' = [flush EXCEPT !.pc = "done", !.ok = Drained]
          /\ UNCHANGED <<accepting, queue, taken, logfile, accepted, completed, dropped,
                         logger, writer, closing>>
      BY <2>9 DEF FlushReturn
    <3>2. flush'.target = flush.target /\ flush'.ok = Drained
      BY <3>1 DEF LogTypeOK
    <3>3. Drained => Len(logfile) >= flush.target
      BY DEF Drained, CompletedIsWritten, LogTypeOK
    <3>4. LogTypeOK'
      BY <3>1, Drained \in BOOLEAN DEF LogTypeOK, Drained
    <3>5. FlushMeansWritten'
      BY <3>1, <3>2, <3>3 DEF FlushMeansWritten
    <3> QED
      BY <3>1, <3>4, <3>5 DEF CompletedIsWritten, LogInOrder, InHand
  <2>10. CASE ShutdownBegin \/ ShutdownJoin
    BY <2>10 DEF ShutdownBegin, ShutdownJoin, LogTypeOK, CompletedIsWritten, LogInOrder,
                 InHand, FlushMeansWritten
  <2>11. CASE ShutdownNotify
    BY <2>11, <2>b DEF ShutdownNotify, WokenByShutdown, LogTypeOK, FlushMeansWritten
  <2>12. CASE UNCHANGED logVars
    BY <2>12 DEF logVars, LogTypeOK, CompletedIsWritten, LogInOrder, InHand,
                 FlushMeansWritten
  <2> QED
    BY <2>1, <2>2, <2>3, <2>4, <2>5, <2>6, <2>7, <2>8, <2>9, <2>10, <2>11, <2>12
    DEF LogNext, LogWorker
<1> QED
  BY <1>1, <1>2, PTL DEF LogSpec

(* LogInOrder, for any threads, any size of the queue and any number of    *)
(* lines.                                                                  *)
THEOREM LogStaysInOrder == ExitSpec => []LogInOrder
BY ExitComposes, LogKept, PTL DEF LogInv

(* FlushMeansWritten, for the same.                                        *)
THEOREM FlushTellsTheTruth == ExitSpec => []FlushMeansWritten
BY ExitComposes, LogKept, PTL DEF LogInv

-----------------------------------------------------------------------------
(* The forensic events.                                                    *)

FlusherPlaces == {"check", "wait", "flush", "copy", "write", "ended", "none", "done"}

ForensicTypeOK ==
  /\ ring \in [0..(RingSize - 1) -> Nat]
  /\ head \in Nat /\ flushed \in Nat /\ lost \in Nat /\ pushes \in Nat /\ reported \in Nat
  /\ inserting \in [Pushers -> Nat]
  /\ flusher \in [Flushers -> FlusherPlaces]
  /\ copy \in [Flushers -> [events : Seq(Nat), lost : Nat]]
  /\ report \in Seq(Nat)
  /\ flushed <= head

\* The lock is held by whoever is between taking it and giving it back.
LockIsExact ==
  /\ \A t \in Pushers : inserting[t] # 0 <=> holder = t
  /\ \A f \in Flushers : flusher[f] = "copy" <=> holder = f

\* A flusher has a copy only while it writes it.
CopyIsFresh == \A f \in Flushers : flusher[f] # "write" => copy[f] = NoCopy

ForensicInv == ForensicTypeOK /\ LockIsExact /\ CopyIsFresh /\ EveryEventCounted

\* Threads that push are neither flushers nor nobody.
LEMMA PushersApart ==
  /\ "nobody" \notin Pushers /\ "nobody" \notin Flushers
  /\ \A t \in Pushers : t \notin Flushers
BY ForensicsAssumption DEF Flushers

\* One event is being stored if a pusher holds the lock, and none otherwise.
LEMMA OneIsBeingStored ==
  ASSUME LockIsExact
  PROVE  BeingStored = IF holder \in Pushers THEN 1 ELSE 0
BY DEF LockIsExact, BeingStored

\* What is copied under the lock is as long as what the ring has.
LEMMA SnapshotIsWhole ==
  ASSUME ForensicTypeOK
  PROVE  Snapshot \in Seq(Nat) /\ Len(Snapshot) = head - flushed
<1>1. RingSize \in Nat \ {0} /\ head - flushed \in Nat
  BY ForensicsAssumption DEF ForensicTypeOK
<1>2. ASSUME NEW i \in 1..(head - flushed)
      PROVE  ring[(flushed + (i - 1)) % RingSize] \in Nat
  <2>1. flushed + (i - 1) \in Nat
    BY DEF ForensicTypeOK
  <2>2. (flushed + (i - 1)) % RingSize \in 0..(RingSize - 1)
    BY <1>1, <2>1
  <2> QED
    BY <2>2 DEF ForensicTypeOK
<1>3. Snapshot \in [1..(head - flushed) -> Nat]
  BY <1>2 DEF Snapshot
<1> QED
  BY <1>1, <1>3

\* A sum does not change when one part of it moves from one addend to another.
LEMMA WrittenOrUnderway ==
  ASSUME NEW l \in Int, NEW r \in Int, NEW u \in Int, NEW c \in Int,
         NEW l1 \in Int, NEW r1 \in Int, NEW u1 \in Int,
         l1 + r1 = (l + r) + c, u1 + c = u
  PROVE  (l + r) + u = (l1 + r1) + u1
OBVIOUS

(* No event vanishes, whoever holds the lock.                              *)
THEOREM ForensicsKept == ForensicsSpec => []ForensicInv
<1>1. ForensicsInit => ForensicInv
  <2> SUFFICES ASSUME ForensicsInit PROVE ForensicInv
    OBVIOUS
  <2> USE DEF ForensicsInit, NoCopy, Flushers
  <2>1. ForensicTypeOK /\ CopyIsFresh
    BY ForensicsAssumption DEF ForensicTypeOK, CopyIsFresh, FlusherPlaces
  <2>2. LockIsExact
    BY PushersApart DEF LockIsExact
  <2>3. BeingStored = 0
    BY DEF BeingStored
  <2>4. EveryEventCounted
    BY <2>3 DEF EveryEventCounted, Underway, Copied
  <2> QED
    BY <2>1, <2>2, <2>4 DEF ForensicInv
<1>2. ForensicInv /\ [ForensicsNext]_forensicVars => ForensicInv'
  <2> SUFFICES ASSUME ForensicInv, [ForensicsNext]_forensicVars PROVE ForensicInv'
    OBVIOUS
  <2> USE DEF ForensicInv
  <2>a. /\ "thread" \in Flushers /\ "owner" \in Flushers
        /\ \A f \in Flushers : f = "thread" \/ f = "owner"
    BY DEF Flushers
  <2>b. BeingStored = IF holder \in Pushers THEN 1 ELSE 0
    BY OneIsBeingStored
  <2>c. LockIsExact' => BeingStored' = IF holder' \in Pushers THEN 1 ELSE 0
    BY DEF LockIsExact, BeingStored
  <2>d. /\ head \in Nat /\ flushed \in Nat /\ lost \in Nat /\ pushes \in Nat /\ reported \in Nat
        /\ Len(report) \in Nat /\ BeingStored \in Nat
        /\ Copied("thread") \in Nat /\ Copied("owner") \in Nat
    BY <2>a DEF ForensicTypeOK, BeingStored, Copied
  <2>e. copy' = copy => Copied("thread")' = Copied("thread") /\ Copied("owner")' = Copied("owner")
    BY DEF Copied
  <2>1. ASSUME NEW t \in Pushers, PushRefused(t)
        PROVE  ForensicInv'
    <3>1. /\ pushes' = pushes + 1 /\ lost' = lost + 1
          /\ UNCHANGED <<ring, head, flushed, holder, inserting, flusher, copy, report,
                         reported>>
      BY <2>1 DEF PushRefused
    <3>2. ForensicTypeOK' /\ LockIsExact' /\ CopyIsFresh'
      BY <3>1 DEF ForensicTypeOK, LockIsExact, CopyIsFresh
    <3>3. EveryEventCounted'
      <4>1. BeingStored' = BeingStored
        BY <3>1 DEF BeingStored
      <4> QED
        BY <2>d, <2>e, <3>1, <4>1 DEF EveryEventCounted, Underway
    <3> QED
      BY <3>2, <3>3
  <2>2. ASSUME NEW t \in Pushers, PushLock(t)
        PROVE  ForensicInv'
    <3>1. /\ holder = "nobody" /\ holder' = t /\ inserting[t] = 0
          /\ pushes' = pushes + 1 /\ inserting' = [inserting EXCEPT ![t] = pushes + 1]
          /\ UNCHANGED <<ring, head, flushed, lost, flusher, copy, report, reported>>
      BY <2>2 DEF PushLock
    <3>2. ForensicTypeOK' /\ CopyIsFresh'
      BY <3>1 DEF ForensicTypeOK, CopyIsFresh
    <3>3. LockIsExact'
      BY <3>1, PushersApart DEF LockIsExact, ForensicTypeOK
    <3>4. BeingStored = 0 /\ BeingStored' = 1
      BY <2>b, <2>c, <3>1, <3>3, PushersApart
    <3>5. EveryEventCounted'
      BY <2>d, <2>e, <3>1, <3>4 DEF EveryEventCounted, Underway
    <3> QED
      BY <3>2, <3>3, <3>5
  <2>3. ASSUME NEW t \in Pushers, PushStore(t)
        PROVE  ForensicInv'
    <3>1. /\ inserting[t] # 0
          /\ ring' = [ring EXCEPT ![head % RingSize] = inserting[t]]
          /\ head' = head + 1 /\ lost' = lost + Overflow(head + 1)
          /\ flushed' = IF head + 1 - flushed > RingSize THEN head + 1 - RingSize
                        ELSE flushed
          /\ holder' = "nobody" /\ inserting' = [inserting EXCEPT ![t] = 0]
          /\ UNCHANGED <<pushes, flusher, copy, report, reported>>
      BY <2>3 DEF PushStore
    <3>2. holder = t
      BY <3>1 DEF LockIsExact
    <3>3. LockIsExact'
      BY <3>1, <3>2, PushersApart DEF LockIsExact, ForensicTypeOK
    <3>4. /\ head' \in Nat /\ flushed' \in Nat /\ lost' \in Nat /\ flushed' <= head'
          /\ (head' - flushed') + lost' = (head - flushed) + lost + 1
      BY <3>1, ForensicsAssumption DEF Overflow, ForensicTypeOK
    <3>5. ForensicTypeOK' /\ CopyIsFresh'
      BY <3>1, <3>4 DEF ForensicTypeOK, CopyIsFresh
    <3>6. BeingStored = 1 /\ BeingStored' = 0
      BY <2>b, <2>c, <3>1, <3>2, <3>3, PushersApart
    <3>7. EveryEventCounted'
      BY <2>d, <2>e, <3>1, <3>4, <3>6 DEF EveryEventCounted, Underway
    <3> QED
      BY <3>3, <3>5, <3>7
  <2>4. ASSUME NEW f \in Flushers, FlushGivesUp(f)
        PROVE  ForensicInv'
    <3>1. /\ flusher[f] = "flush" /\ flusher' = [flusher EXCEPT ![f] = FlushEnd(f)]
          /\ UNCHANGED <<ring, head, flushed, lost, holder, inserting, pushes, copy, report,
                         reported>>
          /\ FlushEnd(f) \in {"check", "done"}
      BY <2>4 DEF FlushGivesUp, FlushEnd
    <3>2. ForensicTypeOK' /\ LockIsExact' /\ CopyIsFresh'
      BY <3>1 DEF ForensicTypeOK, LockIsExact, CopyIsFresh, FlusherPlaces
    <3>3. EveryEventCounted'
      BY <2>e, <3>1 DEF EveryEventCounted, Underway, BeingStored
    <3> QED
      BY <3>2, <3>3
  <2>5. ASSUME NEW f \in Flushers, FlushLock(f)
        PROVE  ForensicInv'
    <3>1. /\ flusher[f] = "flush" /\ holder = "nobody" /\ holder' = f
          /\ flusher' = [flusher EXCEPT ![f] = "copy"]
          /\ UNCHANGED <<ring, head, flushed, lost, inserting, pushes, copy, report,
                         reported>>
      BY <2>5 DEF FlushLock
    <3>2. ForensicTypeOK' /\ CopyIsFresh'
      BY <3>1 DEF ForensicTypeOK, CopyIsFresh, FlusherPlaces
    <3>3. LockIsExact'
      BY <3>1, PushersApart DEF LockIsExact, ForensicTypeOK
    <3>4. EveryEventCounted'
      BY <2>e, <3>1 DEF EveryEventCounted, Underway, BeingStored
    <3> QED
      BY <3>2, <3>3, <3>4
  <2>6. ASSUME NEW f \in Flushers, FlushCopy(f)
        PROVE  ForensicInv'
    <3>1. /\ flusher[f] = "copy"
          /\ copy' = [copy EXCEPT ![f] = [events |-> Snapshot, lost |-> lost]]
          /\ flushed' = head /\ lost' = 0 /\ holder' = "nobody"
          /\ flusher' = [flusher EXCEPT ![f] = "write"]
          /\ UNCHANGED <<ring, head, inserting, pushes, report, reported>>
      BY <2>6 DEF FlushCopy
    <3>2. holder = f /\ copy[f] = NoCopy
      BY <3>1 DEF LockIsExact, CopyIsFresh
    <3>3. Snapshot \in Seq(Nat) /\ Len(Snapshot) = head - flushed
      BY SnapshotIsWhole
    <3>4. ForensicTypeOK' /\ CopyIsFresh'
      BY <3>1, <3>3 DEF ForensicTypeOK, CopyIsFresh, FlusherPlaces
    <3>5. LockIsExact'
      BY <3>1, <3>2, PushersApart DEF LockIsExact, ForensicTypeOK
    <3>6. BeingStored = 0 /\ BeingStored' = 0
      BY <2>b, <2>c, <3>1, <3>2, <3>5, PushersApart
    <3>7. Copied(f) = 0 /\ Copied(f)' = (head - flushed) + lost
      BY <2>d, <3>1, <3>2, <3>3 DEF Copied, NoCopy, ForensicTypeOK
    <3>8. \A g \in Flushers : g # f => Copied(g)' = Copied(g)
      BY <3>1 DEF Copied, ForensicTypeOK
    <3>9. EveryEventCounted'
      <4>1. CASE f = "thread"
        BY <4>1, <2>a, <2>d, <3>1, <3>6, <3>7, <3>8 DEF EveryEventCounted, Underway
      <4>2. CASE f = "owner"
        BY <4>2, <2>a, <2>d, <3>1, <3>6, <3>7, <3>8 DEF EveryEventCounted, Underway
      <4> QED
        BY <2>a, <4>1, <4>2
    <3> QED
      BY <3>4, <3>5, <3>9
  <2>7. ASSUME NEW f \in Flushers, FlushWrite(f)
        PROVE  ForensicInv'
    <3>1. /\ flusher[f] = "write"
          /\ report' = report \o copy[f].events /\ reported' = reported + copy[f].lost
          /\ copy' = [copy EXCEPT ![f] = NoCopy]
          /\ flusher' = [flusher EXCEPT ![f] = FlushEnd(f)]
          /\ UNCHANGED <<ring, head, flushed, lost, holder, inserting, pushes>>
          /\ FlushEnd(f) \in {"check", "done"}
      BY <2>7 DEF FlushWrite, FlushEnd
    <3>2. NoCopy \in [events : Seq(Nat), lost : Nat]
          /\ Len(NoCopy.events) = 0 /\ NoCopy.lost = 0
      BY DEF NoCopy
    <3>3. copy[f].events \in Seq(Nat) /\ copy[f].lost \in Nat
      BY DEF ForensicTypeOK
    <3>4. report' \in Seq(Nat) /\ Len(report') = Len(report) + Len(copy[f].events)
      BY <3>1, <3>3, ConcatProperties DEF ForensicTypeOK
    <3>5. ForensicTypeOK' /\ LockIsExact' /\ CopyIsFresh'
      BY <3>1, <3>2, <3>3, <3>4
      DEF ForensicTypeOK, LockIsExact, CopyIsFresh, FlusherPlaces
    <3>6. BeingStored' = BeingStored
      BY <3>1 DEF BeingStored
    <3>7. /\ Copied(f)' = 0
          /\ \A g \in Flushers : g # f => Copied(g)' = Copied(g)
      BY <3>1, <3>2 DEF Copied, ForensicTypeOK
    <3>8. Len(report') + reported' = Len(report) + reported + Copied(f)
      BY <2>d, <3>1, <3>3, <3>4 DEF Copied
    <3>9. EveryEventCounted'
      <4>0. /\ Len(report) \in Int /\ reported \in Int
            /\ Len(report') \in Int /\ reported' \in Int
        BY <2>d, <3>4, <3>5 DEF ForensicTypeOK
      <4>3. /\ head' = head /\ flushed' = flushed /\ lost' = lost /\ pushes' = pushes
            /\ pushes = Len(report) + reported + Underway
        BY <3>1 DEF EveryEventCounted
      <4>4. Underway' + Copied(f) = Underway
        <5>1. CASE f = "thread"
          BY <5>1, <2>a, <2>d, <3>6, <3>7, <4>3 DEF Underway
        <5>2. CASE f = "owner"
          BY <5>2, <2>a, <2>d, <3>6, <3>7, <4>3 DEF Underway
        <5> QED
          BY <2>a, <5>1, <5>2
      <4>5. Underway \in Int /\ Copied(f) \in Int /\ Underway' \in Int
        BY <2>a, <2>d, <3>6, <3>7, <4>3 DEF Underway
      <4> QED
        <5> HIDE DEF ForensicInv
        <5>1. pushes' = Len(report) + reported + Underway
          BY <4>3
        <5>2. Len(report) + reported + Underway = Len(report') + reported' + Underway'
          BY <3>8, <4>0, <4>4, <4>5, WrittenOrUnderway
        <5> QED
          BY <5>1, <5>2 DEF EveryEventCounted
    <3> QED
      BY <3>5, <3>9
  <2>8. CASE ThreadCheck \/ ThreadWake \/ LastFlush
    <3>1. PICK f \in Flushers, p \in FlusherPlaces \ {"copy", "write"} :
            /\ flusher' = [flusher EXCEPT ![f] = p] /\ flusher[f] \notin {"copy", "write"}
            /\ UNCHANGED <<ring, head, flushed, lost, holder, inserting, pushes, copy,
                           report, reported>>
      BY <2>8, <2>a DEF ThreadCheck, ThreadWake, LastFlush, FlusherPlaces
    <3>2. ForensicTypeOK' /\ LockIsExact' /\ CopyIsFresh'
      BY <3>1 DEF ForensicTypeOK, LockIsExact, CopyIsFresh
    <3>3. EveryEventCounted'
      BY <2>e, <3>1 DEF EveryEventCounted, Underway, BeingStored
    <3> QED
      BY <3>2, <3>3
  <2>9. CASE StopForensics \/ UNCHANGED forensicVars
    BY <2>9 DEF StopForensics, forensicVars, ForensicTypeOK, LockIsExact, CopyIsFresh,
                EveryEventCounted, Underway, BeingStored, Copied
  <2> QED
    BY <2>a, <2>1, <2>2, <2>3, <2>4, <2>5, <2>6, <2>7, <2>8, <2>9
    DEF ForensicsNext, ForensicThread, FlushToFile
<1> QED
  BY <1>1, <1>2, PTL DEF ForensicsSpec

(* EveryEventCounted, for any threads, any ring and any number of events.  *)
THEOREM EventsAreCounted == ExitSpec => []EveryEventCounted
BY ExitComposes, ForensicsKept, PTL DEF ForensicInv

-----------------------------------------------------------------------------
(* marco.ini.                                                              *)

SavePlaces == {"idle", "lock", "write", "replace", "clean"}

TempIsAFile == \E D \in SUBSET (1..KeyCount) : temp \in [D -> Nat]

FilesTypeOK ==
  /\ save \in [Savers -> [pc : SavePlaces, value : Nat, ok : BOOLEAN]]
  /\ saves \in Nat /\ writeFailed \in BOOLEAN
  /\ nextKey \in 1..(KeyCount + 1)
  /\ TempIsAFile
  /\ \A t \in Savers : save[t].value <= saves

\* Whoever is in Save beyond its first line, and nobody else, has the mutex.
OneSaver == \A t \in Savers : save[t].pc \in {"write", "replace", "clean"} <=> saving = t

\* While no write has failed, the temporary file has what its saver has got to.
TempIsTheSavers ==
  \A t \in Savers : ~writeFailed =>
    /\ save[t].pc = "write" =>
         \A k \in 1..(nextKey - 1) : k \in DOMAIN temp /\ temp[k] = save[t].value
    /\ save[t].pc = "replace" => temp = Whole(save[t].value)

FilesInv == FilesTypeOK /\ OneSaver /\ TempIsTheSavers /\ NeverHalfWritten

\* Writing a key leaves the others, and the file one of the known keys.
LEMMA KeyWritten ==
  ASSUME FilesTypeOK, nextKey <= KeyCount, NEW v \in Nat
  PROVE  /\ \E D \in SUBSET (1..KeyCount) : WithKey(nextKey, v) \in [D -> Nat]
         /\ DOMAIN WithKey(nextKey, v) = DOMAIN temp \union {nextKey}
         /\ \A k \in DOMAIN temp \union {nextKey} :
              WithKey(nextKey, v)[k] = IF k = nextKey THEN v ELSE temp[k]
<1>1. PICK D \in SUBSET (1..KeyCount) : temp \in [D -> Nat]
  BY DEF FilesTypeOK, TempIsAFile
<1>2. KeyCount \in Nat /\ nextKey \in 1..KeyCount
  BY ConfigFileAssumption DEF FilesTypeOK
<1>3. D \union {nextKey} \in SUBSET (1..KeyCount)
  BY <1>2
<1>4. WithKey(nextKey, v) \in [D \union {nextKey} -> Nat]
  BY <1>1 DEF WithKey
<1> QED
  BY <1>3, <1>4 DEF WithKey

(* The files keep their form.                                              *)
THEOREM FilesKept == FilesSpec => []FilesInv
<1>1. FilesInit => FilesInv
  <2> SUFFICES ASSUME FilesInit PROVE FilesInv
    OBVIOUS
  <2>1. TempIsAFile
    <3>1. PICK n \in 0..KeyCount : temp = [k \in 1..n |-> 0]
      BY DEF FilesInit, LeftOver
    <3>2. 1..n \in SUBSET (1..KeyCount) /\ temp \in [1..n -> Nat]
      BY <3>1, ConfigFileAssumption
    <3> QED
      BY <3>2 DEF TempIsAFile
  <2>2. FilesTypeOK
    <3>1. 1 \in 1..(KeyCount + 1)
      BY ConfigFileAssumption
    <3>2. save \in [Savers -> [pc : SavePlaces, value : Nat, ok : BOOLEAN]]
      BY DEF FilesInit, SavePlaces
    <3>3. saves = 0 /\ \A t \in Savers : save[t].value = 0
      BY DEF FilesInit
    <3>4. nextKey = 1 /\ writeFailed \in BOOLEAN
      BY DEF FilesInit
    <3>5. saves \in Nat /\ \A t \in Savers : save[t].value <= saves
      BY <3>3
    <3> QED
      BY <2>1, <3>1, <3>2, <3>4, <3>5 DEF FilesTypeOK
  <2>3. OneSaver /\ TempIsTheSavers
    BY ConfigFileAssumption DEF FilesInit, OneSaver, TempIsTheSavers
  <2>4. NeverHalfWritten
    BY DEF FilesInit, NeverHalfWritten
  <2> QED
    BY <2>2, <2>3, <2>4 DEF FilesInv
<1>2. FilesInv /\ [FilesNext]_fileVars => FilesInv'
  <2> SUFFICES ASSUME FilesInv, [FilesNext]_fileVars PROVE FilesInv'
    OBVIOUS
  <2> USE DEF FilesInv
  <2>1. ASSUME NEW t \in Savers, SaveCalled(t)
        PROVE  FilesInv'
    <3>1. /\ save[t].pc = "idle" /\ saves' = saves + 1
          /\ save' = [save EXCEPT ![t].pc = "lock", ![t].value = saves + 1]
          /\ UNCHANGED <<ini, temp, saving, writeFailed, nextKey>>
      BY <2>1 DEF SaveCalled
    <3>2. /\ save'[t].pc = "lock" /\ save'[t].value = saves + 1
          /\ \A u \in Savers : u # t => save'[u] = save[u]
          /\ save' \in [Savers -> [pc : SavePlaces, value : Nat, ok : BOOLEAN]]
      BY <3>1 DEF FilesTypeOK, SavePlaces
    <3>3. FilesTypeOK'
      BY <3>1, <3>2 DEF FilesTypeOK, TempIsAFile
    <3>4. OneSaver' /\ TempIsTheSavers'
      BY <3>1, <3>2 DEF OneSaver, TempIsTheSavers
    <3>5. NeverHalfWritten'
      BY <3>1 DEF NeverHalfWritten, FilesTypeOK, Whole
    <3> QED
      BY <3>3, <3>4, <3>5
  <2>2. ASSUME NEW t \in Savers, SaveBegin(t)
        PROVE  FilesInv'
    <3>1. /\ save[t].pc = "lock" /\ saving = "nobody" /\ saving' = t
          /\ temp' \in {Absent, temp} /\ writeFailed' = FALSE /\ nextKey' = 1
          /\ save' = [save EXCEPT ![t].pc = "write"]
          /\ UNCHANGED <<ini, saves>>
      BY <2>2 DEF SaveBegin, MutexFree
    <3>2. /\ save'[t].pc = "write" /\ save'[t].value = save[t].value
          /\ \A u \in Savers : u # t => save'[u] = save[u]
          /\ save' \in [Savers -> [pc : SavePlaces, value : Nat, ok : BOOLEAN]]
      BY <3>1 DEF FilesTypeOK, SavePlaces
    <3>3. TempIsAFile'
      <4>1. {} \in SUBSET (1..KeyCount) /\ Absent \in [{} -> Nat]
        BY DEF Absent
      <4> QED
        BY <3>1, <4>1 DEF FilesTypeOK, TempIsAFile
    <3>4. FilesTypeOK'
      <4>1. 1 \in 1..(KeyCount + 1)
        BY ConfigFileAssumption
      <4> QED
        BY <3>1, <3>2, <3>3, <4>1 DEF FilesTypeOK
    <3>5. OneSaver'
      BY <3>1, <3>2, ConfigFileAssumption DEF OneSaver
    <3>6. TempIsTheSavers'
      BY <3>1, <3>2, ConfigFileAssumption DEF OneSaver, TempIsTheSavers
    <3>7. NeverHalfWritten'
      BY <3>1 DEF NeverHalfWritten, Whole
    <3> QED
      BY <3>4, <3>5, <3>6, <3>7
  <2>3. ASSUME NEW t \in Savers, SaveKey(t)
        PROVE  FilesInv'
    <3>1. /\ save[t].pc = "write" /\ nextKey <= KeyCount /\ nextKey' = nextKey + 1
          /\ \/ temp' = WithKey(nextKey, save[t].value) /\ writeFailed' = writeFailed
             \/ writeFailed' = TRUE /\ temp' = temp
          /\ UNCHANGED <<ini, saving, save, saves>>
      BY <2>3 DEF SaveKey
    <3>2. saving = t /\ save[t].value \in Nat
      BY <3>1 DEF OneSaver, FilesTypeOK
    <3>3. TempIsAFile'
      BY <3>1, <3>2, KeyWritten DEF FilesTypeOK, TempIsAFile
    <3>4. FilesTypeOK'
      <4>1. nextKey + 1 \in 1..(KeyCount + 1)
        BY <3>1, ConfigFileAssumption DEF FilesTypeOK
      <4> QED
        BY <3>1, <3>3, <4>1 DEF FilesTypeOK
    <3>5. TempIsTheSavers'
      <4>1. SUFFICES ASSUME NEW u \in Savers, ~writeFailed', save[u].pc \in {"write", "replace"}
                     PROVE  /\ u = t
                            /\ \A k \in 1..nextKey : k \in DOMAIN temp'
                                                     /\ temp'[k] = save[u].value
        BY <3>1, ConfigFileAssumption DEF TempIsTheSavers, FilesTypeOK
      <4>2. u = t
        BY <3>2, <4>1 DEF OneSaver
      <4>3. temp' = WithKey(nextKey, save[t].value) /\ ~writeFailed
        BY <3>1, <4>1 DEF FilesTypeOK
      <4>4. \A k \in 1..nextKey : k = nextKey \/ k \in 1..(nextKey - 1)
        BY DEF FilesTypeOK
      <4> QED
        BY <3>1, <3>2, <4>2, <4>3, <4>4, KeyWritten DEF TempIsTheSavers
    <3>6. OneSaver' /\ NeverHalfWritten'
      BY <3>1 DEF OneSaver, NeverHalfWritten, Whole
    <3> QED
      BY <3>4, <3>5, <3>6
  <2>4. ASSUME NEW t \in Savers, SaveFlush(t)
        PROVE  FilesInv'
    <3>1. /\ save[t].pc = "write" /\ nextKey > KeyCount
          /\ writeFailed' \in {writeFailed, TRUE}
          /\ save' = [save EXCEPT ![t].pc = "replace"]
          /\ UNCHANGED <<ini, temp, saving, nextKey, saves>>
      BY <2>4 DEF SaveFlush
    <3>2. /\ save'[t].pc = "replace" /\ save'[t].value = save[t].value
          /\ \A u \in Savers : u # t => save'[u] = save[u]
          /\ save' \in [Savers -> [pc : SavePlaces, value : Nat, ok : BOOLEAN]]
      BY <3>1 DEF FilesTypeOK, SavePlaces
    <3>3. FilesTypeOK' /\ OneSaver' /\ NeverHalfWritten'
      BY <3>1, <3>2 DEF FilesTypeOK, TempIsAFile, OneSaver, NeverHalfWritten,
                        Whole
    <3>4. ~writeFailed => temp = Whole(save[t].value)
      <4>1. PICK D \in SUBSET (1..KeyCount) : temp \in [D -> Nat]
        BY DEF FilesTypeOK, TempIsAFile
      <4>2. nextKey - 1 = KeyCount
        BY <3>1, ConfigFileAssumption DEF FilesTypeOK
      <4>3. HAVE ~writeFailed
      <4>4. \A k \in 1..KeyCount : k \in D /\ temp[k] = save[t].value
        BY <3>1, <4>1, <4>2, <4>3 DEF TempIsTheSavers
      <4> QED
        BY <4>1, <4>4 DEF Whole
    <3>5. saving = t
      BY <3>1 DEF OneSaver
    <3>6. TempIsTheSavers'
      <4>1. \A u \in Savers : u # t => save'[u].pc \notin {"write", "replace"}
        BY <3>2, <3>5 DEF OneSaver
      <4>2. ~writeFailed' => ~writeFailed
        BY <3>1
      <4>3. temp' = temp /\ Whole(save[t].value)' = Whole(save'[t].value)
        BY <3>1 DEF Whole
      <4> QED
        BY <3>2, <3>4, <4>1, <4>2, <4>3 DEF TempIsTheSavers, Whole
    <3> QED
      BY <3>3, <3>6
  <2>5. ASSUME NEW t \in Savers, NEW ok \in BOOLEAN, Return(t, ok), saving = t,
               TempIsAFile',
               UNCHANGED <<writeFailed, nextKey, saves>>
        PROVE  FilesTypeOK' /\ OneSaver' /\ TempIsTheSavers'
    <3>1. /\ saving' = "nobody" /\ save'[t].pc = "idle" /\ save'[t].value = save[t].value
          /\ \A u \in Savers : u # t => save'[u] = save[u]
          /\ save' \in [Savers -> [pc : SavePlaces, value : Nat, ok : BOOLEAN]]
      BY <2>5 DEF Return, FilesTypeOK, SavePlaces
    <3>2. FilesTypeOK'
      BY <2>5, <3>1 DEF FilesTypeOK
    <3>3. \A u \in Savers : save'[u].pc \notin {"write", "replace", "clean"}
      BY <2>5, <3>1 DEF OneSaver
    <3> QED
      BY <3>1, <3>2, <3>3, ConfigFileAssumption DEF OneSaver, TempIsTheSavers
  <2>6. ASSUME NEW t \in Savers, Replace(t)
        PROVE  FilesInv'
    <3>1. /\ save[t].pc = "replace" /\ ~writeFailed /\ ini' = temp /\ temp' = Absent
          /\ Return(t, TRUE) /\ UNCHANGED <<writeFailed, nextKey, saves>>
      BY <2>6 DEF Replace, MayReplace
    <3>2. {} \in SUBSET (1..KeyCount) /\ Absent \in [{} -> Nat]
      BY DEF Absent
    <3>3. FilesTypeOK' /\ OneSaver' /\ TempIsTheSavers'
      BY <2>5, <3>1, <3>2 DEF OneSaver, TempIsAFile
    <3>4. ini' = Whole(save[t].value) /\ save[t].value \in 0..saves
      BY <3>1 DEF TempIsTheSavers, FilesTypeOK
    <3>5. NeverHalfWritten'
      BY <3>1, <3>4 DEF NeverHalfWritten, Whole
    <3> QED
      BY <3>3, <3>5
  <2>7. ASSUME NEW t \in Savers, ReplaceFails(t)
        PROVE  FilesInv'
    <3>1. /\ save[t].pc = "replace" /\ ini' \in {ini, Absent}
          /\ save' = [save EXCEPT ![t].pc = "clean"]
          /\ UNCHANGED <<temp, saving, writeFailed, nextKey, saves>>
      BY <2>7 DEF ReplaceFails
    <3>2. /\ save'[t].pc = "clean" /\ save'[t].value = save[t].value
          /\ \A u \in Savers : u # t => save'[u] = save[u]
          /\ save' \in [Savers -> [pc : SavePlaces, value : Nat, ok : BOOLEAN]]
      BY <3>1 DEF FilesTypeOK, SavePlaces
    <3> QED
      BY <3>1, <3>2 DEF FilesTypeOK, TempIsAFile, OneSaver, TempIsTheSavers,
                        NeverHalfWritten, Whole, Absent
  <2>8. ASSUME NEW t \in Savers, SaveClean(t)
        PROVE  FilesInv'
    <3>1. /\ save[t].pc = "clean" /\ temp' \in {Absent, temp} /\ Return(t, FALSE)
          /\ UNCHANGED <<ini, writeFailed, nextKey, saves>>
      BY <2>8 DEF SaveClean
    <3>2. {} \in SUBSET (1..KeyCount) /\ Absent \in [{} -> Nat]
      BY DEF Absent
    <3>3. FilesTypeOK' /\ OneSaver' /\ TempIsTheSavers'
      BY <2>5, <3>1, <3>2 DEF OneSaver, FilesTypeOK, TempIsAFile
    <3>4. NeverHalfWritten'
      BY <3>1 DEF NeverHalfWritten, Whole
    <3> QED
      BY <3>3, <3>4
  <2>9. CASE UNCHANGED fileVars
    BY <2>9 DEF fileVars, FilesTypeOK, TempIsAFile, OneSaver, TempIsTheSavers, NeverHalfWritten, Whole
  <2> QED
    BY <2>1, <2>2, <2>3, <2>4, <2>6, <2>7, <2>8, <2>9 DEF FilesNext, SaveStep
<1> QED
  BY <1>1, <1>2, PTL DEF FilesSpec

(* NeverHalfWritten, for any threads, any number of keys and of saves.     *)
THEOREM ConfigurationIsWhole == ExitSpec => []NeverHalfWritten
BY ExitComposes, FilesKept, PTL DEF FilesInv

-----------------------------------------------------------------------------
(* What the clean-up leaves behind.                                        *)

Filing == {"file", "save", "flush", "complain", "shutdown", "exit"}
Saving == Filing \ {"file"}

\* Who has left makes no more calls, and nobody is in one when filing begins.
Silent ==
  /\ gone \subseteq Others /\ \A t \in gone : Idle(t)
  /\ stage \in Filing \union {"run", "join"}
  /\ stage # "run" => inserting[Owner] = 0
  /\ stage \in Filing => gone = Others

\* The last flush comes after the thread's, and empties ring and counter if it can.
Filed ==
  /\ holder \in Pushers \union Flushers \union {"nobody"}
  /\ watching <=> stage \in {"run", "join"}
  /\ flusher["owner"] # "none" => flusher["thread"] = "ended" /\ ~watching
  /\ writable /\ flusher["owner"] \in {"write", "done"} => head = flushed /\ lost = 0
  /\ stage \in Saving => flusher["owner"] = "done"

\* Nobody saves after the last save.
Saved ==
  /\ stage \in Saving \ {"save"} => save[Owner].pc = "idle"
  /\ stage \in Saving /\ save[Owner].pc = "idle" /\ save[Owner].ok =>
       ini = Whole(save[Owner].value)

\* The worker ends on an empty queue and nothing is accepted after that.
Logged ==
  /\ logger = "exit" => ~accepting /\ queue = <<>>
  /\ closing = "closed" => logger = "exit"
  /\ stage = "exit" => closing = "closed"

PartsInv == LogInv /\ ForensicInv /\ FilesInv
EndInv == Silent /\ Filed /\ Saved /\ Logged

\* The owner's call of each component is that of one of its threads.
LEMMA OneOwner ==
  /\ Owner \notin Others /\ Owner \in Threads /\ Others \subseteq Threads
  /\ Writers = Threads /\ Pushers = Threads /\ Savers = Threads
  /\ \A t \in Threads : t = Owner \/ t \in Others
BY ExitAssumption DEF Threads

\* Once filing has begun, nobody calls.
LEMMA NobodyCalls ==
  ASSUME Silent, stage \in Filing, NEW t \in Threads
  PROVE  ~Call(t) /\ (t # Owner => Idle(t)) /\ inserting[t] = 0
BY OneOwner DEF Silent, Call, MayCall, Filing, Idle

\* The steps of the clean-up and the threads' leaving it to happen.
LEMMA SilentKept ==
  ASSUME PartsInv, EndInv, [ExitNext]_exitVars
  PROVE  Silent'
<1> USE OneOwner DEF EndInv, Silent
<1>0. /\ writer \in [Threads -> {"idle", "notify"}]
      /\ inserting \in [Threads -> Nat]
      /\ save \in [Threads -> [pc : SavePlaces, value : Nat, ok : BOOLEAN]]
  BY DEF PartsInv, LogInv, LogTypeOK, ForensicInv, ForensicTypeOK, FilesInv, FilesTypeOK
<1>1. ASSUME NEW t \in Threads, Call(t) PROVE Silent'
  <2>1. t \notin gone /\ stage \notin Filing /\ (t = Owner => stage = "run")
    BY <1>1, NobodyCalls DEF Call, MayCall
  <2>2. \A u \in Threads \ {t} :
          writer'[u] = writer[u] /\ inserting'[u] = inserting[u] /\ save'[u] = save[u]
    BY <1>0, <1>1
    DEF Call, Write, PushRefused, PushLock, SaveCalled, LogIdle, ForensicsIdle, FilesIdle,
        logVars, forensicVars, fileVars
  <2>3. \A u \in gone : u \in Threads \ {t}
    BY <2>1
  <2>4. \A u \in gone : Idle(u)'
    BY <2>2, <2>3 DEF Idle
  <2>5. stage # "run" => inserting'[Owner] = 0
    BY <2>1, <2>2
  <2> QED BY <1>1, <2>4, <2>5 DEF Call
<1>2. ASSUME NEW t \in Threads, Continue(t) PROVE Silent'
  <2>1. \A u \in Threads \ {t} :
          writer'[u] = writer[u] /\ inserting'[u] = inserting[u] /\ save'[u] = save[u]
    BY <1>0, <1>2
    DEF Continue, NotifyOne, PushStore, SaveStep, SaveBegin, SaveKey, SaveFlush, Replace,
        ReplaceFails, SaveClean, Return, LogIdle, ForensicsIdle, FilesIdle, logVars,
        forensicVars, fileVars
  <2>2. ~Idle(t)
    BY <1>2
    DEF Continue, NotifyOne, PushStore, SaveStep, SaveBegin, SaveKey, SaveFlush, Replace,
        ReplaceFails, SaveClean, Idle
  <2>3. inserting'[Owner] = inserting[Owner] \/ inserting'[Owner] = 0
    BY <1>0, <1>2, <2>1
    DEF Continue, PushStore, ForensicsIdle, forensicVars
  <2>4. \A u \in gone : u \in Threads \ {t}
    BY <2>2
  <2>5. \A u \in gone : Idle(u)'
    BY <2>1, <2>4 DEF Idle
  <2> QED BY <1>2, <2>3, <2>5 DEF Continue
<1>3. CASE LogThread \/ ForensicsThread
  <2>1. UNCHANGED <<writer, inserting, save, stage, gone>>
    BY <1>3
    DEF LogThread, LogWorker, Sleep, Take, WriteOut, Complete, WorkerExit, ForensicsThread,
        ForensicThread, ThreadCheck, ThreadWake, FlushToFile, FlushGivesUp, FlushLock,
        FlushCopy, FlushWrite, LogIdle, ForensicsIdle, FilesIdle, logVars, forensicVars,
        fileVars
  <2> QED BY <2>1 DEF Idle
<1>4. CASE LeaveLoop
  BY <1>4
  DEF LeaveLoop, NothingElse, LogIdle, ForensicsIdle, FilesIdle, logVars, forensicVars,
      fileVars, Idle, Filing
<1>5. ASSUME NEW t \in Others, Leave(t) PROVE Silent'
  BY <1>5
  DEF Leave, NothingElse, LogIdle, ForensicsIdle, FilesIdle, logVars, forensicVars,
      fileVars, Idle, Filing
<1>6. CASE StopFiling
  BY <1>6
  DEF StopFiling, OthersJoined, StopForensics, LogIdle, FilesIdle, logVars, fileVars, Idle,
      Filing
<1>7. CASE FileTheRest
  <2>1. UNCHANGED <<writer, inserting, save, stage, gone>>
    BY <1>7
    DEF FileTheRest, LastFlush, FlushToFile, FlushGivesUp, FlushLock, FlushCopy, FlushWrite,
        LogIdle, FilesIdle, logVars, fileVars
  <2> QED BY <2>1 DEF Idle
<1>8. CASE FinalSave \/ FlushLog \/ LogFlushed \/ Complain \/ StopLog \/ LogJoined
  <2>1. \A u \in Threads \ {Owner} :
          writer'[u] = writer[u] /\ inserting'[u] = inserting[u] /\ save'[u] = save[u]
    BY <1>0, <1>8
    DEF FinalSave, FlushLog, LogFlushed, Complain, StopLog, LogJoined, SaveCalled, FlushBegin,
        FlushReturn, Write, ShutdownBegin, ShutdownNotify, ShutdownJoin, LogIdle,
        ForensicsIdle, FilesIdle, logVars, forensicVars, fileVars
  <2>2. stage \in Filing /\ stage' \in Filing /\ UNCHANGED <<gone, inserting>>
    BY <1>8
    DEF FinalSave, FlushLog, LogFlushed, Complain, StopLog, LogJoined, Filing, ForensicsIdle,
        forensicVars
  <2>3. \A u \in gone : u \in Threads \ {Owner}
    OBVIOUS
  <2>4. \A u \in gone : Idle(u)'
    BY <2>1, <2>3 DEF Idle
  <2> QED BY <2>2, <2>4 DEF Filing
<1>9. CASE UNCHANGED exitVars
  BY <1>9 DEF exitVars, logVars, forensicVars, fileVars, Idle
<1> QED BY <1>1, <1>2, <1>3, <1>4, <1>5, <1>6, <1>7, <1>8, <1>9 DEF ExitNext, CleanUp

\* The forensic log.
LEMMA FiledKept ==
  ASSUME PartsInv, EndInv, [ExitNext]_exitVars
  PROVE  Filed'
<1> USE OneOwner DEF EndInv, Filed
<1>0. /\ LockIsExact /\ "owner" \in Flushers /\ "thread" \in Flushers
      /\ flusher \in [Flushers -> FlusherPlaces]
      /\ inserting \in [Threads -> Nat]
      /\ "owner" # "thread"
  BY DEF PartsInv, ForensicInv, ForensicTypeOK, Flushers
<1>1. ASSUME UNCHANGED forensicVars, stage' = stage \/ (stage = "run" /\ stage' = "join")
             \/ (stage \in Saving /\ stage' \in Saving)
      PROVE  Filed'
  BY <1>1 DEF forensicVars, Saving, Filing
<1>2. ASSUME NEW t \in Threads, Call(t) PROVE Filed'
  <2>1. stage \notin Filing
    BY <1>2, NobodyCalls
  <2>2. CASE UNCHANGED forensicVars
    BY <1>1, <1>2, <2>2 DEF Call
  <2>3. CASE PushRefused(t) \/ PushLock(t)
    <3>1. watching /\ flusher["owner"] = "none"
      BY <2>1 DEF Silent
    <3> QED BY <1>2, <2>1, <2>3, <3>1 DEF Call, PushRefused, PushLock, Saving
  <2> QED BY <1>2, <2>2, <2>3 DEF Call, ForensicsIdle
<1>3. ASSUME NEW t \in Threads, Continue(t) PROVE Filed'
  <2>1. CASE UNCHANGED forensicVars
    BY <1>1, <1>3, <2>1 DEF Continue
  <2>2. CASE PushStore(t)
    <3>1. inserting[t] # 0
      BY <2>2 DEF PushStore
    <3>2. stage \notin Filing
      BY <3>1, NobodyCalls
    <3>3. watching /\ flusher["owner"] = "none"
      BY <3>2 DEF Silent
    <3> QED BY <1>3, <2>2, <3>2, <3>3 DEF Continue, PushStore, Saving
  <2> QED BY <1>3, <2>1, <2>2 DEF Continue, ForensicsIdle
<1>4. CASE ForensicsThread
  <2>1. flusher["thread"] # "ended" /\ flusher["owner"] = "none"
    BY <1>4
    DEF ForensicsThread, ForensicThread, ThreadCheck, ThreadWake, FlushToFile, FlushGivesUp,
        FlushLock, FlushCopy, FlushWrite
  <2>2. flusher'["owner"] = "none" /\ UNCHANGED <<watching, stage>>
        /\ holder' \in {holder, "nobody", "thread"}
    BY <1>0, <1>4, <2>1
    DEF ForensicsThread, ForensicThread, ThreadCheck, ThreadWake, FlushToFile, FlushGivesUp,
        FlushLock, FlushCopy, FlushWrite
  <2> QED BY <1>0, <2>1, <2>2
<1>5. CASE StopFiling
  <2>1. flusher["owner"] = "none" /\ UNCHANGED <<flusher, holder>> /\ ~watching'
        /\ stage' = "file"
    BY <1>5 DEF StopFiling, StopForensics
  <2> QED BY <2>1 DEF Saving
<1>6. CASE FileTheRest
  <2>0. stage = "file" /\ stage' = "file" /\ ~watching /\ UNCHANGED <<watching, writable>>
    BY <1>6
    DEF FileTheRest, LastFlush, FlushToFile, FlushGivesUp, FlushLock, FlushCopy, FlushWrite
  <2>1. CASE LastFlush
    BY <1>0, <2>0, <2>1 DEF LastFlush, ThreadJoined, Saving
  <2>2. CASE FlushGivesUp("owner")
    <3>1. flusher["thread"] = "ended" /\ flusher["owner"] = "flush"
      BY <2>2 DEF FlushGivesUp
    <3>2. \A t \in Threads : inserting[t] = 0
      BY <2>0, NobodyCalls DEF Filing
    <3>3. holder = "nobody"
      BY <1>0, <3>1, <3>2 DEF LockIsExact, Flushers
    <3>4. ~writable
      BY <2>2, <3>3 DEF FlushGivesUp
    <3> QED BY <1>0, <2>0, <2>2, <3>1, <3>4 DEF FlushGivesUp, FlushEnd, Saving
  <2>3. CASE FlushLock("owner")
    BY <1>0, <2>0, <2>3 DEF FlushLock, Saving
  <2>4. CASE FlushCopy("owner")
    BY <1>0, <2>0, <2>4 DEF FlushCopy, Saving
  <2>5. CASE FlushWrite("owner")
    BY <1>0, <2>0, <2>5 DEF FlushWrite, FlushEnd, Saving
  <2> QED BY <1>6, <2>1, <2>2, <2>3, <2>4, <2>5 DEF FileTheRest, FlushToFile
<1>7. CASE FinalSave
  BY <1>7 DEF FinalSave, ForensicsIdle, forensicVars, Saving, Filing
<1>8. CASE LogThread \/ LeaveLoop \/ (\E t \in Others : Leave(t)) \/ FlushLog \/ LogFlushed
           \/ Complain \/ StopLog \/ LogJoined
  BY <1>1, <1>8
  DEF LogThread, LeaveLoop, Leave, FlushLog, LogFlushed, Complain, StopLog, LogJoined,
      NothingElse, ForensicsIdle, Saving, Filing
<1>9. CASE UNCHANGED exitVars
  BY <1>1, <1>9 DEF exitVars
<1> QED BY <1>2, <1>3, <1>4, <1>5, <1>6, <1>7, <1>8, <1>9 DEF ExitNext, CleanUp

\* marco.ini.
LEMMA SavedKept ==
  ASSUME PartsInv, EndInv, [ExitNext]_exitVars
  PROVE  Saved'
<1> USE OneOwner DEF EndInv, Saved
<1>0. /\ save \in [Threads -> [pc : SavePlaces, value : Nat, ok : BOOLEAN]]
      /\ TempIsTheSavers
  BY DEF PartsInv, FilesInv, FilesTypeOK
<1>1. ASSUME UNCHANGED fileVars, stage' = stage \/ stage' \notin Saving
             \/ (stage \in Saving /\ save[Owner].pc = "idle")
      PROVE  Saved'
  BY <1>1 DEF fileVars
<1>2. ASSUME NEW t \in Threads, Call(t) PROVE Saved'
  <2>1. stage \notin Filing /\ stage' = stage
    BY <1>2, NobodyCalls DEF Call
  <2> QED BY <2>1 DEF Saving
<1>3. ASSUME NEW t \in Threads, Continue(t) PROVE Saved'
  <2>1. CASE UNCHANGED fileVars
    BY <1>1, <1>3, <2>1 DEF Continue
  <2>2. CASE SaveStep(t) /\ stage \notin Saving
    BY <1>3, <2>2 DEF Continue
  <2>3. CASE SaveStep(t) /\ stage \in Saving
    <3>1. ~Idle(t)
      BY <2>3
      DEF SaveStep, SaveBegin, SaveKey, SaveFlush, Replace, ReplaceFails, SaveClean, Idle
    <3>2. t = Owner
      BY <2>3, <3>1, NobodyCalls DEF Saving
    <3>3. save[Owner].pc # "idle" /\ stage = "save" /\ stage' = "save"
      BY <1>3, <2>3, <3>2
      DEF Continue, SaveStep, SaveBegin, SaveKey, SaveFlush, Replace, ReplaceFails, SaveClean
    <3>4. CASE Replace(Owner)
      <4>1. save[Owner].pc = "replace" /\ ~writeFailed /\ ini' = temp
            /\ save' = [save EXCEPT ![Owner].pc = "idle", ![Owner].ok = TRUE]
        BY <3>4 DEF Replace, MayReplace, Return
      <4>2. temp = Whole(save[Owner].value)
        BY <1>0, <4>1 DEF TempIsTheSavers
      <4>3. save'[Owner].value = save[Owner].value
        BY <1>0, <4>1
      <4> QED BY <3>3, <4>1, <4>2, <4>3 DEF Whole
    <3>5. CASE SaveClean(Owner)
      <4>1. ~save'[Owner].ok
        BY <1>0, <3>5 DEF SaveClean, Return
      <4> QED BY <3>3, <4>1
    <3>6. CASE SaveBegin(Owner) \/ SaveKey(Owner) \/ SaveFlush(Owner) \/ ReplaceFails(Owner)
      <4>1. save'[Owner].pc # "idle"
        BY <1>0, <3>3, <3>6 DEF SaveBegin, SaveKey, SaveFlush, ReplaceFails
      <4> QED BY <3>3, <4>1
    <3> QED BY <2>3, <3>2, <3>4, <3>5, <3>6 DEF SaveStep
  <2> QED BY <1>3, <2>1, <2>2, <2>3 DEF Continue, FilesIdle
<1>4. CASE FinalSave
  <2>1. save'[Owner].pc = "lock" /\ stage' = "save"
    BY <1>0, <1>4 DEF FinalSave, SaveCalled
  <2> QED BY <2>1
<1>5. CASE LogThread \/ ForensicsThread \/ LeaveLoop \/ (\E t \in Others : Leave(t))
           \/ StopFiling \/ FileTheRest
  BY <1>1, <1>5
  DEF LogThread, ForensicsThread, LeaveLoop, Leave, StopFiling, FileTheRest, NothingElse,
      FilesIdle, Saving, Filing
<1>6. CASE FlushLog \/ LogFlushed \/ Complain \/ StopLog \/ LogJoined
  BY <1>1, <1>6
  DEF FlushLog, LogFlushed, Complain, StopLog, LogJoined, FilesIdle, Saving, Filing, Idle
<1>7. CASE UNCHANGED exitVars
  BY <1>1, <1>7 DEF exitVars
<1> QED BY <1>2, <1>3, <1>4, <1>5, <1>6, <1>7 DEF ExitNext, CleanUp

\* The log.
LEMMA LoggedKept ==
  ASSUME PartsInv, EndInv, [ExitNext]_exitVars
  PROVE  Logged'
<1> USE DEF EndInv, Logged
<1>1. ASSUME UNCHANGED logVars, stage' = stage \/ stage' # "exit" PROVE Logged'
  BY <1>1 DEF logVars
<1>2. ASSUME NEW t \in Threads, Write(t), stage' = stage \/ stage' # "exit" PROVE Logged'
  BY <1>2 DEF Write
<1>3. ASSUME NEW t \in Threads, NotifyOne(t), UNCHANGED stage PROVE Logged'
  BY <1>3 DEF NotifyOne, Notified
<1>4. CASE LogThread
  BY <1>4 DEF LogThread, LogWorker, Sleep, Take, WriteOut, Complete, WorkerExit
<1>5. CASE FlushLog \/ LogFlushed
  BY <1>5 DEF FlushLog, FlushBegin, LogFlushed, FlushReturn, Notified
<1>6. CASE StopLog \/ LogJoined
  BY <1>6
  DEF StopLog, LogJoined, ShutdownBegin, ShutdownNotify, ShutdownJoin, WokenByShutdown,
      Notified
<1>7. CASE Complain
  BY <1>2, <1>7, OneOwner DEF Complain
<1>8. CASE \E t \in Threads : Call(t) \/ Continue(t)
  BY <1>1, <1>2, <1>3, <1>8 DEF Call, Continue, LogIdle
<1>9. CASE ForensicsThread \/ LeaveLoop \/ (\E t \in Others : Leave(t)) \/ StopFiling
           \/ FileTheRest \/ FinalSave
  BY <1>1, <1>9
  DEF ForensicsThread, LeaveLoop, Leave, StopFiling, FileTheRest, FinalSave, NothingElse,
      LogIdle
<1>10. CASE UNCHANGED exitVars
  BY <1>1, <1>10 DEF exitVars
<1> QED BY <1>4, <1>5, <1>6, <1>7, <1>8, <1>9, <1>10 DEF ExitNext, CleanUp

\* Nobody has left, and no call of the clean-up has been made.
LEMMA EndStart == ExitInit => EndInv
<1> SUFFICES ASSUME ExitInit PROVE EndInv
  OBVIOUS
<1>1. Silent
  BY OneOwner DEF ExitInit, ForensicsInit, Silent, Filing
<1>2. Filed
  BY DEF ExitInit, ForensicsInit, Filed, Saving, Filing, Flushers
<1>3. Saved /\ Logged
  BY DEF ExitInit, LogInit, Saved, Logged, Saving, Filing
<1> QED BY <1>1, <1>2, <1>3 DEF EndInv

\* An empty queue and idle hands: the file has every number up to the last accepted.
LEMMA LogIsComplete ==
  ASSUME LogInv, logger = "exit", queue = <<>>
  PROVE  Len(logfile) = accepted
<1>1. logfile \in Seq(Nat) /\ accepted \in Nat /\ InHand = <<>>
  BY DEF LogInv, LogTypeOK, InHand
<1>2. logfile \o <<>> \o <<>> = logfile
  BY <1>1, ConcatEmptySeq
<1>3. logfile = [i \in 1..accepted |-> i]
  BY <1>1, <1>2 DEF LogInv, LogInOrder
<1>4. [i \in 1..accepted |-> i] \in Seq(Nat) /\ Len([i \in 1..accepted |-> i]) = accepted
  BY <1>1
<1> QED BY <1>3, <1>4

\* Ring, counter, lock and copies are empty: every push is in the file.
LEMMA ReportIsComplete ==
  ASSUME ForensicInv, Silent, Filed, stage = "exit", writable
  PROVE  pushes = Len(report) + reported
<1>1. /\ flusher["owner"] = "done" /\ flusher["thread"] = "ended"
      /\ head = flushed /\ lost = 0
  BY DEF Filed, Saving, Filing
<1>2. copy["owner"] = NoCopy /\ copy["thread"] = NoCopy
  BY <1>1 DEF ForensicInv, CopyIsFresh, Flushers
<1>3. \A t \in Pushers : inserting[t] = 0
  BY NobodyCalls, OneOwner DEF Filing
<1>4. BeingStored = 0
  BY <1>3 DEF BeingStored
<1>5. Copied("thread") = 0 /\ Copied("owner") = 0
  BY <1>2 DEF Copied, NoCopy
<1>6. Underway = 0
  BY <1>1, <1>4, <1>5 DEF Underway, ForensicInv, ForensicTypeOK
<1>7. Len(report) \in Nat
  BY LenProperties DEF ForensicInv, ForensicTypeOK
<1> QED BY <1>6, <1>7 DEF ForensicInv, ForensicTypeOK, EveryEventCounted

(* main.cpp, the clean-up: NothingLeftBehind for any other threads, any    *)
(* sizes of queue and ring and any number of calls, without any fairness.  *)
THEOREM ExitLosesNothing == ExitSpec => []NothingLeftBehind
<1>1. ExitSpec => []PartsInv
  BY ExitComposes, LogKept, ForensicsKept, FilesKept, PTL DEF PartsInv
<1>2. PartsInv /\ EndInv /\ [ExitNext]_exitVars => EndInv'
  BY SilentKept, FiledKept, SavedKept, LoggedKept DEF EndInv
<1>3. PartsInv /\ EndInv => NothingLeftBehind
  <2> SUFFICES ASSUME PartsInv, EndInv, stage = "exit" PROVE NothingLeftBehind
    BY DEF NothingLeftBehind
  <2>1. Len(logfile) = accepted
    BY LogIsComplete DEF PartsInv, EndInv, Logged
  <2>2. writable => pushes = Len(report) + reported
    BY ReportIsComplete DEF PartsInv, EndInv
  <2>3. save[Owner].ok => ini = Whole(save[Owner].value)
    BY DEF EndInv, Saved, Saving, Filing
  <2> QED BY <2>1, <2>2, <2>3 DEF NothingLeftBehind
<1> QED BY <1>1, <1>2, <1>3, EndStart, PTL DEF ExitSpec
================================================================================
