------------------------------ MODULE BhopProofs ------------------------------
(***************************************************************************)
(* The bunny-hop worker, for any targets and any other slots: when         *)
(* Shutdown has returned, no Space is held whose release is not owed.      *)
(***************************************************************************)
EXTENDS Bhop, SlotProofs

Stages ==
  {"asleep", "evaluate", "woken", "loop", "abort", "airborne", "jump", "hold",
   "done", "submit", "post", "await", "exited"}

\* The stages in which Submit has put a request into the queue.
Waits == {"post", "await"}

WorkerType ==
  [pc : Stages, state : {"Idle", "JumpStart", "AirborneLock", "LandingScan"},
   scroll : BOOLEAN, target : Identity,
   call : {"none", "down", "up", "lastUp", "wheel1", "wheel2"}]

RequestType ==
  [kind : {"none", "SpaceDown", "SpaceUp", "WheelDown"}, target : Identity,
   status : {"none", "queued", "executed", "cancelled"}, value : BOOLEAN]

BhopTypeOK ==
  /\ Sound(table) /\ table.held \subseteq {Space}
  /\ focus \in Identity /\ injected \in Identity
  /\ worker \in WorkerType /\ request \in RequestType
  /\ owner = [pc |-> owner.pc, todo |-> owner.todo]
  /\ owner.pc \in {"run", "stop", "notify", "join", "off"}
  /\ owner.pc # "run" => owner.todo = <<>>

\* The queue holds the request of a waiting worker and no other.
OneRequest ==
  /\ worker.pc \notin Waits => request = NoRequest
  /\ worker.pc \in Waits =>
       request.target = worker.target /\ request.kind = Kind(worker.call)
  /\ worker.pc \in Waits \union {"submit"} => worker.call # "none"

LetsGo(tab) == tab.held \subseteq tab.pending

Executed(kind) == request.kind = kind /\ request.status = "executed"
AcceptedDown == Executed("SpaceDown") /\ request.value

(* Space that is held and not owed is known to the worker, or about to be  *)
(* told to it; what the worker forgets is let go.                          *)
SpaceIsKnown ==
  /\ LetsGo(table) \/ injected # NoTarget \/ AcceptedDown
  /\ Executed("SpaceUp") => LetsGo(table)
  /\ AcceptedDown => request.target # NoTarget
  /\ owner.pc = "off" => LetsGo(table)

BInv == BhopTypeOK /\ OneRequest /\ SpaceIsKnown

-----------------------------------------------------------------------------
(* The calls of the boundary.                                              *)

\* Active is a truth value, and an active target is valid.
LEMMA ActiveIsValid ==
  ASSUME NEW t PROVE Active(t) \in BOOLEAN /\ (Active(t) => t \in Targets)
BY DEF Active

\* A press that leaves a new hold is accepted; one that is accepted has a target.
LEMMA PressIsAccounted ==
  ASSUME NEW tab, Sound(tab), NEW t \in Identity, NEW active \in BOOLEAN, NEW ok \in BOOLEAN
  PROVE  LET after == KeyDownForTarget(tab, Space, t, active, ok)
         IN  LetsGo(tab) =>
               \/ LetsGo(after)
               \/ MayPress(tab, t, active) /\ Space \notin tab.held /\ ok
BY SpaceAssumption
DEF KeyDownForTarget, MayPress, PressReachesBackend, OweToOwner, RefreshReleaseOnly,
    LetsGo, Sound, SlotTable

\* After a release Space is up or owed.
LEMMA ReleaseLetsGo ==
  ASSUME NEW tab, Sound(tab), tab.held \subseteq {Space}, NEW t \in Identity,
         NEW active \in BOOLEAN, NEW ok \in BOOLEAN
  PROVE  LetsGo(KeyUpForTarget(tab, Space, t, active, ok))
<1>1. CASE Space \notin tab.held \union tab.pending
  BY <1>1 DEF KeyUpForTarget, LetsGo
<1>2. CASE Space \in tab.held \union tab.pending /\ (t = NoTarget \/ tab.owner[Space] # t)
  BY <1>2, SpaceAssumption
  DEF KeyUpForTarget, LetsGo, OweToOwner, RefreshReleaseOnly, Sound, SlotTable
<1>3. CASE /\ Space \in tab.held \union tab.pending
           /\ t # NoTarget /\ tab.owner[Space] = t /\ ~active
  BY <1>3, SpaceAssumption
  DEF KeyUpForTarget, LetsGo, RefreshReleaseOnly, Sound, SlotTable
<1>4. CASE /\ Space \in tab.held \union tab.pending
           /\ t # NoTarget /\ tab.owner[Space] = t /\ active
  BY <1>4, SpaceAssumption
  DEF KeyUpForTarget, LetsGo, ReleaseSlot, TrackUp, RefreshReleaseOnly, Sound, SlotTable
<1> QED BY <1>1, <1>2, <1>3, <1>4

\* Reconciliation lets go of no less.
LEMMA ReconcileLetsGo ==
  ASSUME NEW tab, Sound(tab), NEW t \in Identity, NEW oks \in SUBSET Slots, LetsGo(tab)
  PROVE  LetsGo(ReconcilePendingReleasesForTarget(tab, t, TRUE, oks))
BY DEF LetsGo, ReconcilePendingReleasesForTarget, ReleaseEach, OwedTo,
       RefreshReleaseOnly, Sound, SlotTable

-----------------------------------------------------------------------------
(* The worker.                                                             *)

\* A stage is all that changes.
LEMMA AtType ==
  ASSUME worker \in WorkerType, NEW pc \in Stages
  PROVE  /\ At(pc) \in WorkerType /\ At(pc).pc = pc
         /\ At(pc).target = worker.target /\ At(pc).call = worker.call
BY DEF At, WorkerType

\* Before and after a call to the boundary the worker has no request.
LEMMA AfterType ==
  ASSUME worker \in WorkerType, NEW executed \in BOOLEAN, NEW accepted \in BOOLEAN,
         NEW after \in After(executed, accepted)
  PROVE  /\ after \in WorkerType /\ after.pc \notin Waits
         /\ after.pc = "submit" => after.call # "none"
<1>1. /\ Submits("wheel2") \in WorkerType /\ Submits("wheel2").pc = "submit"
      /\ Submits("wheel2").call = "wheel2"
  BY DEF Submits, WorkerType, Stages
<1>2. /\ [worker EXCEPT !.pc = "hold", !.call = "none"] \in WorkerType
      /\ [worker EXCEPT !.pc = "hold", !.call = "none"].pc = "hold"
  BY DEF WorkerType, Stages
<1>3. [Asleep EXCEPT !.pc = "evaluate"] \in WorkerType
      /\ [Asleep EXCEPT !.pc = "evaluate"].pc = "evaluate"
  BY DEF Asleep, WorkerType, Stages, Identity
<1>4. \A w \in JumpReturns : w \in WorkerType /\ w.pc = "loop"
  BY DEF JumpReturns, WorkerType, Stages
<1>5. \/ after = [worker EXCEPT !.pc = "hold", !.call = "none"]
      \/ after = Submits("wheel2") \/ after = [Asleep EXCEPT !.pc = "evaluate"]
      \/ after \in JumpReturns
  BY DEF After
<1> QED BY <1>1, <1>2, <1>3, <1>4, <1>5 DEF Waits

\* A step of the worker between two requests.
LEMMA WorkerMoves ==
  ASSUME BInv, worker.pc \notin Waits,
         worker' \in WorkerType, worker'.pc \notin Waits,
         worker'.pc = "submit" => worker'.call # "none",
         UNCHANGED <<table, focus, owner, request, injected>>
  PROVE  BInv'
BY DEF BInv, BhopTypeOK, OneRequest, SpaceIsKnown, AcceptedDown, Executed, Waits

\* The steps of the worker that ask for nothing.
LEMMA WorkerAlone ==
  ASSUME BInv,
         \/ SpuriousWakeup \/ Evaluate \/ Woken \/ Loop \/ Abort \/ AirborneWait
         \/ DispatchJump \/ HoldEnds \/ Done \/ Refused
  PROVE  BInv'
<1> USE DEF WorkerGoes, WorkerOnly
<1>0. worker \in WorkerType /\ focus \in Identity
  BY DEF BInv, BhopTypeOK
<1>a. \A pc \in Stages \ (Waits \union {"submit"}) :
        At(pc) \in WorkerType /\ At(pc).pc \notin Waits /\ At(pc).pc # "submit"
  BY <1>0, AtType
<1>b. \A call \in {"down", "up", "lastUp", "wheel1"} :
        /\ Submits(call) \in WorkerType /\ Submits(call).pc = "submit"
        /\ Submits(call).call = call
  BY <1>0 DEF Submits, WorkerType, Stages
<1>c. /\ [Asleep EXCEPT !.pc = "evaluate"] \in WorkerType
      /\ [Asleep EXCEPT !.pc = "evaluate"].pc = "evaluate"
  BY DEF Asleep, WorkerType, Stages, Identity
<1>1. CASE SpuriousWakeup
  BY <1>1, <1>a, WorkerMoves DEF SpuriousWakeup, Stages, Waits
<1>2. CASE Evaluate
  BY <1>2, <1>a, WorkerMoves DEF Evaluate, Stages, Waits
<1>3. CASE Woken
  <2>1. ASSUME NEW scroll \in BOOLEAN
        PROVE  /\ [worker EXCEPT !.pc = "loop", !.state = "JumpStart", !.scroll = scroll,
                                 !.target = focus] \in WorkerType
               /\ [worker EXCEPT !.pc = "loop", !.state = "JumpStart", !.scroll = scroll,
                                 !.target = focus].pc = "loop"
    BY <1>0 DEF WorkerType, Stages
  <2> QED BY <1>3, <1>a, <2>1, WorkerMoves DEF Woken, Stages, Waits
<1>4. CASE Loop
  BY <1>4, <1>a, WorkerMoves DEF Loop, Stages, Waits
<1>5. CASE Abort
  BY <1>5, <1>a, WorkerMoves DEF Abort, Stages, Waits
<1>6. CASE AirborneWait
  <2>1. /\ [worker EXCEPT !.pc = "loop", !.state = "LandingScan"] \in WorkerType
        /\ [worker EXCEPT !.pc = "loop", !.state = "LandingScan"].pc = "loop"
    BY <1>0 DEF WorkerType, Stages
  <2> QED BY <1>6, <1>a, <2>1, WorkerMoves DEF AirborneWait, Stages, Waits
<1>7. CASE DispatchJump
  <2>1. \A w \in JumpReturns : w \in WorkerType /\ w.pc = "loop"
    BY <1>0 DEF JumpReturns, WorkerType, Stages
  <2> QED BY <1>7, <1>a, <1>b, <2>1, WorkerMoves DEF DispatchJump, Stages, Waits
<1>8. CASE HoldEnds
  BY <1>8, <1>b, WorkerMoves DEF HoldEnds, Waits
<1>9. CASE Done
  BY <1>9, <1>b, <1>c, WorkerMoves DEF Done, Waits
<1>10. CASE Refused
  BY <1>0, <1>10, AfterType, WorkerMoves DEF Refused, Waits
<1> QED BY <1>1, <1>2, <1>3, <1>4, <1>5, <1>6, <1>7, <1>8, <1>9, <1>10

\* Submit: the request goes into the queue, and the worker waits.
LEMMA WorkerAsks ==
  ASSUME BInv, Push \/ Post \/ PostNoMore
  PROVE  BInv'
<1> USE DEF WorkerGoes, WorkerOnly
<1>0. worker \in WorkerType
  BY DEF BInv, BhopTypeOK
<1>a. \A pc \in Waits :
        /\ At(pc) \in WorkerType /\ At(pc).pc = pc
        /\ At(pc).target = worker.target /\ At(pc).call = worker.call
  BY <1>0, AtType DEF Waits, Stages
<1>1. CASE Push
  <2>1. worker.call # "none" /\ worker.target \in Identity /\ request = NoRequest
    BY <1>0, <1>1 DEF Push, BInv, OneRequest, WorkerType, Waits
  <2>2. Kind(worker.call) \in {"SpaceDown", "SpaceUp", "WheelDown"}
    BY <1>0, <2>1 DEF Kind, WorkerType
  <2>3. request' \in RequestType /\ request'.status = "queued"
        /\ request'.target = worker.target /\ request'.kind = Kind(worker.call)
    BY <1>1, <2>1, <2>2 DEF Push, RequestType
  <2>4. worker' = At("post") /\ UNCHANGED <<table, focus, owner, injected>>
    BY <1>1 DEF Push
  <2>5. worker' \in WorkerType /\ worker'.pc \in Waits
        /\ worker'.target = worker.target /\ worker'.call = worker.call
    BY <1>a, <2>4 DEF Waits
  <2>6. LetsGo(table) \/ injected # NoTarget
    BY <2>1 DEF BInv, SpaceIsKnown, AcceptedDown, Executed, NoRequest
  <2> HIDE DEF WorkerGoes
  <2> QED BY <2>1, <2>3, <2>4, <2>5, <2>6
          DEF BInv, BhopTypeOK, OneRequest, SpaceIsKnown, AcceptedDown, Executed
<1>2. CASE Post \/ PostNoMore
  <2>1. /\ worker.pc \in Waits /\ worker' = At("await")
        /\ UNCHANGED <<table, focus, owner, injected, request>>
    BY <1>2 DEF Post, PostNoMore, Waits
  <2>2. /\ worker' \in WorkerType /\ worker'.pc \in Waits
        /\ worker'.target = worker.target /\ worker'.call = worker.call
    BY <1>a, <2>1 DEF Waits
  <2> HIDE DEF WorkerGoes
  <2> QED BY <2>1, <2>2
          DEF BInv, BhopTypeOK, OneRequest, SpaceIsKnown, AcceptedDown, Executed
<1> QED BY <1>1, <1>2

\* The answer: what is executed and accepted the worker knows from now on.
LEMMA WorkerHears ==
  ASSUME BInv, Await
  PROVE  BInv'
<1> DEFINE executed == request.status = "executed"
<1>1. /\ worker.pc = "await" /\ worker' \in After(executed, request.value)
      /\ injected' = InjectedAfter(executed, request.value) /\ request' = NoRequest
      /\ UNCHANGED <<table, focus, owner>>
  BY DEF Await, WorkerGoes
<1>2. /\ worker \in WorkerType /\ request \in RequestType /\ injected \in Identity
      /\ request.value \in BOOLEAN /\ worker.target \in Identity
      /\ request.kind = Kind(worker.call) /\ request.target = worker.target
      /\ worker.call # "none"
  BY <1>1 DEF BInv, BhopTypeOK, OneRequest, Waits, RequestType, WorkerType
<1>3. /\ worker' \in WorkerType /\ worker'.pc \notin Waits
      /\ worker'.pc = "submit" => worker'.call # "none"
  BY <1>1, <1>2, AfterType
<1>4. NoRequest \in RequestType
  BY DEF NoRequest, RequestType, Identity
<1>5. injected' \in Identity
  BY <1>1, <1>2 DEF InjectedAfter, Identity
<1>6. /\ worker.call = "down" <=> request.kind = "SpaceDown"
      /\ worker.call \in {"up", "lastUp"} <=> request.kind = "SpaceUp"
  BY <1>2 DEF Kind, WorkerType
<1>7. LetsGo(table) \/ injected' # NoTarget
  BY <1>1, <1>2, <1>6
  DEF InjectedAfter, BInv, SpaceIsKnown, AcceptedDown, Executed
<1>8. ~Executed("SpaceUp")' /\ ~AcceptedDown'
  BY <1>1 DEF NoRequest, AcceptedDown, Executed
<1> QED BY <1>1, <1>3, <1>4, <1>5, <1>7, <1>8
        DEF BInv, BhopTypeOK, OneRequest, SpaceIsKnown, Waits

-----------------------------------------------------------------------------
(* The owner.                                                              *)

\* The owner takes the request and calls the boundary.
LEMMA OwnerExecutes ==
  ASSUME BInv, NEW ok \in BOOLEAN, DrainInjectionRequests(ok)
  PROVE  BInv'
<1>0. /\ Sound(table) /\ table.held \subseteq {Space} /\ request \in RequestType
      /\ owner.pc = "run" /\ UNCHANGED <<focus, worker, injected, owner>>
  BY DEF BInv, BhopTypeOK, DrainInjectionRequests, OwnerRests
<1>1. CASE request.status # "queued"
  BY <1>0, <1>1
  DEF DrainInjectionRequests, BInv, BhopTypeOK, OneRequest, SpaceIsKnown, AcceptedDown,
      Executed
<1>2. CASE request.status = "queued"
  <2> DEFINE r == [request EXCEPT !.status = "executed", !.value = Accepted(request, ok)]
             t == request.target
  <2>0. t \in Identity /\ request.kind \in {"none", "SpaceDown", "SpaceUp", "WheelDown"}
    BY <1>0 DEF RequestType
  <2>1. Accepted(request, ok) \in BOOLEAN
    BY DEF Accepted
  <2>2. /\ table' = Execute(request, ok) /\ request' = r
    BY <1>2 DEF DrainInjectionRequests
  <2>3. /\ r \in RequestType /\ r.kind = request.kind /\ r.target = t
        /\ r.status = "executed" /\ r.value = Accepted(request, ok)
    BY <1>0, <2>1 DEF RequestType
  <2>4. worker.pc \in Waits /\ worker.call # "none" /\ request.kind = Kind(worker.call)
        /\ request.target = worker.target
    BY <1>2 DEF BInv, OneRequest, NoRequest
  <2>5. request.kind # "none"
    BY <2>4 DEF Kind, BInv, BhopTypeOK, WorkerType
  <2>6. LetsGo(table) \/ injected # NoTarget
    BY <1>2 DEF BInv, SpaceIsKnown, AcceptedDown, Executed
  <2>7. Active(t) \in BOOLEAN /\ (Active(t) => t \in Targets)
    BY ActiveIsValid
  <2>8. SUFFICES /\ Sound(table') /\ table'.held \subseteq {Space}
                 /\ \/ LetsGo(table') \/ injected # NoTarget
                    \/ request.kind = "SpaceDown" /\ Accepted(request, ok)
                 /\ request.kind = "SpaceUp" => LetsGo(table')
                 /\ Accepted(request, ok) => t # NoTarget
    <3>1. OneRequest'
      BY <1>0, <2>2, <2>3, <2>4 DEF OneRequest
    <3>2. BhopTypeOK'
      BY <1>0, <2>2, <2>3, <2>8 DEF BInv, BhopTypeOK
    <3>3. SpaceIsKnown'
      BY <1>0, <2>2, <2>3, <2>8 DEF SpaceIsKnown, AcceptedDown, Executed
    <3> QED BY <3>1, <3>2, <3>3 DEF BInv
  <2>9. Accepted(request, ok) => t # NoTarget
    BY NoTargetAssumption DEF Accepted, MayPress
  <2>10. CASE request.kind = "SpaceDown"
    <3>1. table' = KeyDownForTarget(table, Space, t, Active(t), ok)
      BY <2>2, <2>10 DEF Execute
    <3>2. \A active \in BOOLEAN :
            SoundWith(KeyDownForTarget(table, Space, t, active, ok),
                      IF PressReachesBackend(table, Space, t, active) /\ ok
                      THEN table.held \union {Space} ELSE table.held)
      BY <1>0, <2>0, PressSound, SpaceAssumption
    <3>4. LetsGo(table) =>
            \/ LetsGo(KeyDownForTarget(table, Space, t, Active(t), ok))
            \/ MayPress(table, t, Active(t)) /\ Space \notin table.held /\ ok
      BY <1>0, <2>0, <2>7, PressIsAccounted, SpaceAssumption
    <3>3. /\ Sound(table') /\ table'.held \subseteq {Space}
          /\ LetsGo(table) =>
               \/ LetsGo(table')
               \/ MayPress(table, t, Active(t)) /\ Space \notin table.held /\ ok
      BY <1>0, <2>7, <3>1, <3>2, <3>4 DEF SoundWith
    <3> QED BY <2>6, <2>9, <2>10, <3>3 DEF Accepted
  <2>11. CASE request.kind = "SpaceUp"
    <3>1. table' = KeyUpForTarget(table, Space, t, Active(t), ok)
      BY <2>2, <2>11 DEF Execute
    <3>2. \A active \in BOOLEAN :
            /\ SoundWith(KeyUpForTarget(table, Space, t, active, ok),
                         IF ReleaseReachesBackend(table, Space, t, active) /\ ok
                         THEN table.held \ {Space} ELSE table.held)
            /\ LetsGo(KeyUpForTarget(table, Space, t, active, ok))
      BY <1>0, <2>0, ReleaseSound, ReleaseLetsGo, SpaceAssumption
    <3>3. Sound(table') /\ table'.held \subseteq {Space} /\ LetsGo(table')
      BY <1>0, <2>7, <3>1, <3>2 DEF SoundWith
    <3> QED BY <2>9, <3>3
  <2>12. CASE request.kind = "WheelDown"
    BY <1>0, <2>2, <2>6, <2>9, <2>12 DEF Execute
  <2> QED BY <2>0, <2>5, <2>10, <2>11, <2>12
<1> QED BY <1>1, <1>2

\* The pump settles what is owed.
LEMMA OwnerReconciles ==
  ASSUME BInv, NEW ok \in BOOLEAN, Reconcile(ok)
  PROVE  BInv'
<1> DEFINE oks == IF ok THEN Slots ELSE {}
<1>0. /\ Sound(table) /\ table.held \subseteq {Space} /\ focus \in Identity
      /\ focus \in Targets /\ oks \in SUBSET Slots
      /\ table' = ReconcilePendingReleasesForTarget(table, focus, TRUE, oks)
      /\ UNCHANGED <<focus, worker, injected, owner, request>>
  BY DEF BInv, BhopTypeOK, Reconcile, queue
<1>1. SoundWith(ReconcilePendingReleasesForTarget(table, focus, TRUE, oks),
                table.held \ (OwedTo(table, focus) \intersect oks))
  <2> HIDE DEF oks
  <2> QED BY <1>0, ReconcileSound
<1>2. LetsGo(table) => LetsGo(table')
  <2> HIDE DEF oks
  <2> QED BY <1>0, ReconcileLetsGo
<1>3. Sound(table') /\ table'.held \subseteq {Space}
  BY <1>0, <1>1 DEF SoundWith
<1> HIDE DEF oks
<1> QED BY <1>0, <1>2, <1>3
        DEF BInv, BhopTypeOK, OneRequest, SpaceIsKnown, AcceptedDown, Executed

\* The rest of Shutdown: the worker has ended and waits for no answer.
LEMMA OwnerJoins ==
  ASSUME BInv, NEW ok \in BOOLEAN, Joined(ok)
  PROVE  BInv'
<1>0. /\ Sound(table) /\ table.held \subseteq {Space} /\ injected \in Identity
      /\ worker.pc = "exited" /\ owner.pc = "join" /\ injected' = NoTarget
      /\ owner' = [owner EXCEPT !.pc = "off"]
      /\ UNCHANGED <<focus, worker, request>>
  BY DEF BInv, BhopTypeOK, Joined, queue
<1>1. request = NoRequest
  BY <1>0 DEF BInv, OneRequest, Waits
<1>2. Sound(table') /\ table'.held \subseteq {Space} /\ LetsGo(table')
  <2>1. CASE injected = NoTarget
    BY <1>0, <1>1, <2>1
    DEF Joined, BInv, SpaceIsKnown, AcceptedDown, Executed, NoRequest
  <2>2. CASE injected # NoTarget
    <3>1. \A active \in BOOLEAN :
            /\ SoundWith(KeyUpForTarget(table, Space, injected, active, ok),
                         IF ReleaseReachesBackend(table, Space, injected, active) /\ ok
                         THEN table.held \ {Space} ELSE table.held)
            /\ LetsGo(KeyUpForTarget(table, Space, injected, active, ok))
      BY <1>0, ReleaseSound, ReleaseLetsGo, SpaceAssumption
    <3>2. table' = KeyUpForTarget(table, Space, injected, Active(injected), ok)
      BY <2>2 DEF Joined
    <3> QED BY <1>0, <3>1, <3>2, ActiveIsValid DEF SoundWith
  <2> QED BY <2>1, <2>2
<1>3. owner.todo = <<>> /\ owner'.todo = owner.todo
  BY <1>0 DEF BInv, BhopTypeOK
<1>4. BhopTypeOK'
  BY <1>0, <1>2, <1>3 DEF BInv, BhopTypeOK, Identity
<1> QED BY <1>0, <1>1, <1>2, <1>4
        DEF BInv, OneRequest, SpaceIsKnown, AcceptedDown, Executed, NoRequest

\* The owner's other steps, and what happens around it.
LEMMA OwnerElse ==
  ASSUME BInv,
         \/ Store \/ ShutdownBegin \/ Stop \/ NotifyAll \/ ClientToggles
         \/ (\E stores \in Handlers : Handle(stores)) \/ (\E t \in Identity : Focus(t))
  PROVE  BInv'
<1>0. worker \in WorkerType /\ request \in RequestType
  BY DEF BInv, BhopTypeOK
<1>a. /\ Notified \in WorkerType /\ (Notified.pc \in Waits <=> worker.pc \in Waits)
      /\ Notified.target = worker.target /\ Notified.call = worker.call
      /\ Notified.pc = "submit" <=> worker.pc = "submit"
      /\ Notified.pc = "exited" <=> worker.pc = "exited"
  BY <1>0 DEF Notified, WorkerType, Stages, Waits
<1>1. ASSUME /\ worker' = worker \/ worker' = Notified
             /\ owner' = [pc |-> owner'.pc, todo |-> owner'.todo]
             /\ owner'.pc \in {"run", "stop", "notify", "join", "off"}
             /\ owner'.pc # "run" => owner'.todo = <<>>
             /\ owner'.pc = "off" => owner.pc = "off"
             /\ focus' \in Identity
             /\ UNCHANGED <<table, request, injected>>
      PROVE  BInv'
  BY <1>a, <1>1
  DEF BInv, BhopTypeOK, OneRequest, SpaceIsKnown, AcceptedDown, Executed
<1> USE DEF BInv, BhopTypeOK, flags, queue
<1>2. CASE Store
  <2>1. owner.pc = "run" /\ owner'.pc = owner.pc
    BY <1>2 DEF Store
  <2> QED BY <1>1, <1>2, <2>1 DEF Store
<1>3. CASE ShutdownBegin \/ NotifyAll
  BY <1>1, <1>3 DEF ShutdownBegin, NotifyAll, OwnerRests
<1>4. CASE Stop
  <2>1. /\ Cancelled(request) \in RequestType
        /\ Cancelled(request).kind = request.kind /\ Cancelled(request).value = request.value
        /\ Cancelled(request).target = request.target
        /\ Cancelled(request).status = "executed" <=> request.status = "executed"
    BY <1>0 DEF Cancelled, RequestType
  <2>3. request = NoRequest => Cancelled(request) = NoRequest
    BY DEF Cancelled, NoRequest
  <2>2. /\ request' = Cancelled(request) /\ owner.pc = "stop"
        /\ owner' = [pc |-> "notify", todo |-> owner.todo]
        /\ UNCHANGED <<table, focus, worker, injected>>
    BY <1>4 DEF Stop
  <2> QED BY <2>1, <2>2, <2>3 DEF OneRequest, SpaceIsKnown, AcceptedDown, Executed
<1>5. CASE ClientToggles
  BY <1>1, <1>5 DEF ClientToggles
<1>6. ASSUME NEW stores \in Handlers, Handle(stores) PROVE BInv'
  BY <1>1, <1>6 DEF Handle, OwnerRests
<1>7. ASSUME NEW t \in Identity, Focus(t) PROVE BInv'
  BY <1>1, <1>7 DEF Focus
<1> QED BY <1>2, <1>3, <1>4, <1>5, <1>6, <1>7

-----------------------------------------------------------------------------
\* Nothing is held, asked for or owed.
LEMMA BhopStart == Init => BInv
<1> SUFFICES ASSUME Init PROVE BInv
  OBVIOUS
<1>1. Sound(table) /\ table.held = {}
  BY NoTargetAssumption
  DEF Init, Sound, EmptyTable, SlotTable, Identity, SlotInv, ReleaseOnlyIsExact,
      HeldHasOwner, PendingIsOwed
<1>2. worker \in WorkerType /\ worker.pc = "asleep" /\ worker.call = "none"
  BY DEF Init, Asleep, WorkerType, Stages, Identity
<1>3. request = NoRequest /\ NoRequest \in RequestType
  BY DEF Init, NoRequest, RequestType, Identity
<1> QED BY <1>1, <1>2, <1>3
        DEF Init, BInv, BhopTypeOK, OneRequest, SpaceIsKnown, LetsGo, AcceptedDown,
            Executed, NoRequest, Waits, Identity

\* Every step of the worker, the owner and their surroundings keeps the invariant.
LEMMA BhopStep == BInv /\ [Next]_vars => BInv'
<1> SUFFICES ASSUME BInv, [Next]_vars PROVE BInv'
  OBVIOUS
<1>1. CASE UNCHANGED vars
  BY <1>1
  DEF vars, flags, queue, BInv, BhopTypeOK, OneRequest, SpaceIsKnown, AcceptedDown, Executed
<1> QED BY <1>1, WorkerAlone, WorkerAsks, WorkerHears, OwnerExecutes, OwnerReconciles,
           OwnerJoins, OwnerElse
        DEF Next, WorkerStep, OwnerMustStep

(* The worker's state, the queue's request and the boundary's table always *)
(* have the shape bhop.cpp gives them.                                     *)
THEOREM BhopTypeCorrect == Spec => []BhopTypeOK
<1>1. BInv => BhopTypeOK
  BY DEF BInv
<1> QED BY BhopStart, BhopStep, <1>1, PTL DEF Spec

(* bhop.cpp, Shutdown: when it has returned, no Space is held whose        *)
(* release is not owed, wherever the stop meets the worker's request.      *)
THEOREM ShutdownForgetsNothing == Spec => []ShutdownLetsGo
<1>1. BInv => ShutdownLetsGo
  BY DEF BInv, SpaceIsKnown, LetsGo, ShutdownLetsGo
<1> QED BY BhopStart, BhopStep, <1>1, PTL DEF Spec
=============================================================================
