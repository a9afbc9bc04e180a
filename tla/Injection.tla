------------------------------ MODULE Injection -------------------------------
(***************************************************************************)
(* The injection boundary as a state machine.  Callers name a slot and a   *)
(* target; the window manager moves the foreground; the resolver thread    *)
(* publishes the foreground it resolved, some time later; the system       *)
(* accepts or rejects what is sent.                                        *)
(*                                                                         *)
(* A call holds g_mutex from its check of the target to its last input.    *)
(* The check is made once, the inputs follow one by one, and the           *)
(* foreground may move at any point in between: "sending" is the call that *)
(* has passed its check and still has inputs to send.                      *)
(***************************************************************************)
EXTENDS InjectionSlots, Naturals

VARIABLES
  table,       \* the slot table
  systemDown,  \* slots whose last input accepted by the system is a down
  sending,     \* the call under g_mutex whose inputs are still to be sent
  foreground,  \* what SampleStableForegroundIdentity returns
  published    \* what GetCurrentIdentity returns

boundaryVars == <<table, systemDown, sending>>

vars == <<table, systemDown, sending, foreground, published>>

TypeOK ==
  /\ table \in SlotTable
  /\ systemDown \in SUBSET Slots
  /\ sending \in [down : BOOLEAN, target : Identity, slots : SUBSET Slots]
  /\ foreground \in Identity
  /\ published \in Identity

NothingToSend == [down |-> FALSE, target |-> NoTarget, slots |-> {}]

Init ==
  /\ table = EmptyTable
  /\ systemDown = {}
  /\ sending = NothingToSend
  /\ foreground = NoTarget
  /\ published = NoTarget

\* IsExpectedTargetActive: a valid target, in the foreground and published.
\* (It samples the foreground before and after the publication; here at once.)
Active(t) == t \in Targets /\ foreground = t /\ published = t

\* g_mutex is free.
Free == sending.slots = {}

Downs(t, S) == IF S = {} THEN NothingToSend ELSE [down |-> TRUE, target |-> t, slots |-> S]
Ups(t, S) == IF S = {} THEN NothingToSend ELSE [down |-> FALSE, target |-> t, slots |-> S]

-----------------------------------------------------------------------------
(* The environment.                                                        *)

Focus(t) ==
  /\ foreground # t
  /\ foreground' = t
  /\ UNCHANGED <<boundaryVars, published>>

Publish ==
  /\ published # foreground
  /\ published' = foreground
  /\ UNCHANGED <<boundaryVars, foreground>>

-----------------------------------------------------------------------------
(* Target-bound calls, up to and with their check of the target.           *)

Press(s, t) ==
  /\ Free
  /\ table' = KeyDownForTarget(table, s, t, Active(t), FALSE)
  /\ sending' = Downs(t, IF PressReachesBackend(table, s, t, Active(t)) THEN {s} ELSE {})
  /\ UNCHANGED <<systemDown, foreground, published>>

Release(s, t) ==
  /\ Free
  /\ IF ReleaseReachesBackend(table, s, t, Active(t))
     THEN sending' = Ups(t, {s}) /\ UNCHANGED table
     ELSE table' = KeyUpForTarget(table, s, t, Active(t), FALSE) /\ UNCHANGED sending
  /\ UNCHANGED <<systemDown, foreground, published>>


\* The releases a reconciliation for t sends.
Settles(tab, t) == IF Active(t) THEN OwedTo(tab, t) ELSE {}

Reconcile(t) ==
  /\ Free
  /\ sending' = Ups(t, Settles(table, t))
  /\ UNCHANGED <<table, systemDown, foreground, published>>

Shutdown(t) ==
  /\ Free
  /\ table' = OweAllHeld(table)
  /\ sending' = Ups(t, Settles(OweAllHeld(table), t))
  /\ UNCHANGED <<systemDown, foreground, published>>

\* The message pump: at least every 50 ms, when a release is owed, it asks for
\* the releases bound to the published target.
Pump ==
  /\ table.pending # {}
  /\ published \in Targets
  /\ Reconcile(published)

-----------------------------------------------------------------------------
(* The inputs of a call that has passed its check.  Nothing asks for the   *)
(* target again.                                                           *)

DownSent(s, ok) ==
  /\ sending.down /\ s \in sending.slots
  /\ IF ok
     THEN /\ table' = [TrackDown(table, s) EXCEPT !.owner[s] = sending.target]
          /\ systemDown' = systemDown \union {s}
     ELSE UNCHANGED <<table, systemDown>>
  /\ sending' = NothingToSend
  /\ UNCHANGED <<foreground, published>>

\* ReleaseSlotLocked: one of the kMaxReleaseAttempts attempts was accepted (ok)
\* or none, and the release stays owed to the target the call named.
UpSent(s, ok) ==
  /\ ~sending.down /\ s \in sending.slots
  /\ table' = IF ok THEN ReleaseSlot(table, s, ok)
              ELSE [ReleaseSlot(table, s, ok) EXCEPT !.pendingTarget[s] = sending.target]
  /\ systemDown' = IF ok THEN systemDown \ {s} ELSE systemDown
  /\ sending' = Ups(sending.target, sending.slots \ {s})
  /\ UNCHANGED <<foreground, published>>

Sent(s, ok) == DownSent(s, ok) \/ UpSent(s, ok)

Environment == (\E t \in Identity : Focus(t)) \/ Publish

Next ==
  \/ Environment
  \/ \E s \in Slots, t \in Identity : Press(s, t) \/ Release(s, t)
  \/ \E t \in Identity : Reconcile(t) \/ Shutdown(t)
  \/ Pump
  \/ \E s \in Slots, ok \in BOOLEAN : Sent(s, ok)

Spec == Init /\ [][Next]_vars

(***************************************************************************)
(* A call that holds the lock goes on to its end; the pump runs as long as *)
(* the process does; the resolver publishes what the foreground stays at;  *)
(* a system that is asked again and again for the release of a slot does   *)
(* not reject it for ever.                                                 *)
(***************************************************************************)
Fairness ==
  /\ WF_vars(Publish)
  /\ WF_vars(\E s \in Slots, ok \in BOOLEAN : Sent(s, ok))
  /\ SF_vars(Pump)
  /\ \A s \in Slots : SF_vars(UpSent(s, TRUE))

FairSpec == Spec /\ Fairness

-----------------------------------------------------------------------------
(* The calls that name no target, added to the ones that do: no check of   *)
(* theirs is about the foreground, so each is one step.                    *)

PressIf(s, valid, ok) ==
  /\ Free
  /\ table' = KeyDownIf(table, s, valid, ok)
  /\ systemDown' = IF MayDispatch(table, valid) /\ ok
                   THEN systemDown \union {s} ELSE systemDown
  /\ UNCHANGED <<sending, foreground, published>>

ReleaseIf(s, valid, ok) ==
  /\ Free
  /\ table' = KeyUpIf(table, s, valid, ok)
  /\ systemDown' = IF valid /\ ok THEN systemDown \ {s} ELSE systemDown
  /\ UNCHANGED <<sending, foreground, published>>

Tap(s, sent, ok) ==
  /\ Free
  /\ table' = KeyDownUp(table, s, sent, ok)
  /\ systemDown' = IF ~MayDispatch(table, TRUE) \/ sent = 0 THEN systemDown
                   ELSE IF sent = 1 /\ ~ok THEN systemDown \union {s}
                                          ELSE systemDown \ {s}
  /\ UNCHANGED <<sending, foreground, published>>

ReconcileIf(valid, oks) ==
  /\ Free
  /\ table' = ReconcilePendingReleasesIf(table, valid, oks)
  /\ systemDown' = IF valid THEN systemDown \ (table.pending \intersect oks)
                            ELSE systemDown
  /\ UNCHANGED <<sending, foreground, published>>

ShutdownIf(valid, oks) ==
  /\ Free
  /\ table' = ShutdownAndReleaseIf(table, valid, oks)
  /\ systemDown' = IF valid THEN systemDown \ oks ELSE systemDown
  /\ UNCHANGED <<sending, foreground, published>>

UnboundNext ==
  \/ \E s \in Slots, valid, ok \in BOOLEAN : PressIf(s, valid, ok) \/ ReleaseIf(s, valid, ok)
  \/ \E s \in Slots, sent \in 0..2, ok \in BOOLEAN : Tap(s, sent, ok)
  \/ \E valid \in BOOLEAN, oks \in SUBSET Slots : ReconcileIf(valid, oks) \/ ShutdownIf(valid, oks)

FullSpec == Init /\ [][Next \/ UnboundNext]_vars

-----------------------------------------------------------------------------
(* Properties.                                                             *)

(* The cached release-only flag, which gates every down, says exactly that *)
(* some accepted down still lacks its up: RefreshReleaseOnlyLocked is      *)
(* never forgotten on a path that changes g_pendingRelease.                *)
ReleaseOnlyExact == ReleaseOnlyIsExact(table)

(* Every held slot remembers a real owner, and every owed release is the   *)
(* release of a held slot, bound to the target that accepted its down, so  *)
(* that target coming back is enough to settle it.                         *)
ReleasesBoundToOwner == HeldHasOwner(table) /\ PendingIsOwed(table)

(* The boundary's view of what is held is what the system accepted,        *)
(* whatever was rejected, retried or batched.                              *)
LedgerAgreesWithSystem == table.held = systemDown

(* No down reaches the system while a release is owed to any slot: the     *)
(* release-only promise of main.cpp:394-397.                               *)
NoPressWhileReleaseOwed ==
  [][systemDown' \ systemDown # {} => table.pending = {}]_vars

(* An up reaches the system only from a call that named the owner of the   *)
(* slot and, before its first input, found that owner to be the active     *)
(* target, whatever other calls did to the table before it.  (Where the    *)
(* foreground is by the time of the input, nothing asks.)                  *)
ReleaseCheckedAtOwner ==
  [][/\ \A s \in systemDown \ systemDown' :
          s \in sending.slots /\ sending.target = table.owner[s]
     /\ Free /\ sending' # sending => Active(sending'.target)]_vars

(* The stronger wish, that the owner still is the active target when its   *)
(* key goes up, does not hold: the foreground may move between the check   *)
(* and the input, or between two inputs of one call.                       *)
ReleaseOnlyAtOwner ==
  [][\A s \in systemDown \ systemDown' : Active(table.owner[s])]_vars


(* main.cpp:395-397: the pump's timer makes reconciliation independent of  *)
(* "focus traffic, or any further input request": once some target stays   *)
(* in the foreground no release stays owed, whoever it is owed to.         *)
OwedReleaseNeedsNoFocus ==
  (\E t \in Targets : <>[](foreground = t)) => []<>(table.pending = {})
=============================================================================
