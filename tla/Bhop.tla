---------------------------------- MODULE Bhop ---------------------------------
(***************************************************************************)
(* The bunny-hop worker (bhop.cpp) and the queue that carries its requests *)
(* to the thread that owns the hooks (bhop_injection_queue.h).             *)
(*                                                                         *)
(* The worker sleeps on a condition variable until Space is held, then     *)
(* jumps: it asks for Space to be pressed, waits and asks for it to be     *)
(* released, or asks for two clicks of the wheel.  It never injects; the   *)
(* owner does, when it handles the message of a request.  Shutdown runs on *)
(* the owner and joins the worker, which may be waiting for the owner.     *)
(*                                                                         *)
(* The flags the two threads share are atomics: every store is a step.     *)
(* The waits of a jump are steps of any length.  "focus" is the target     *)
(* that is both in the foreground and published, NoTarget if none is.      *)
(***************************************************************************)
EXTENDS InjectionSlots, Sequences

CONSTANT Space
ASSUME SpaceAssumption == Space \in Slots

VARIABLES
  table,        \* the boundary's slots
  focus,        \* the active target
  held,         \* s_spaceHeld
  waiting,      \* s_waitingForSpaceRepress
  enabled,      \* bhopEnabled of the configuration
  running,      \* s_running
  queueRunning, \* m_running
  request,      \* the worker's request; the queue holds it while "queued"
  ready,        \* WM_BHOP_INJECTION_READY is in the owner's message queue
  worker,
  injected,     \* s_injectedSpaceTarget, NoTarget when s_injectedSpaceState is false
  owner         \* the owner thread: its stage, and the stores its handler has left

flags == <<held, waiting, enabled>>
queue == <<queueRunning, request, ready>>
vars == <<table, focus, flags, running, queue, worker, injected, owner>>

NoRequest == [kind |-> "none", target |-> NoTarget, status |-> "none", value |-> FALSE]

Asleep ==
  [pc |-> "asleep", state |-> "Idle", scroll |-> FALSE, target |-> NoTarget,
   call |-> "none"]

Init ==
  /\ table = EmptyTable /\ focus = NoTarget
  /\ held = FALSE /\ waiting = FALSE /\ enabled \in BOOLEAN
  /\ running = TRUE /\ queueRunning = TRUE /\ request = NoRequest /\ ready = FALSE
  /\ worker = Asleep /\ injected = NoTarget
  /\ owner = [pc |-> "run", todo |-> <<>>]

-----------------------------------------------------------------------------
(* Outside: the window manager, and /api/bhop and /api/config, which set   *)
(* bhopEnabled and notify nobody.                                          *)

Focus(t) ==
  /\ focus # t
  /\ focus' = t
  /\ UNCHANGED <<table, flags, running, queue, worker, injected, owner>>

ClientToggles ==
  /\ enabled' = ~enabled
  /\ UNCHANGED <<table, focus, held, waiting, running, queue, worker, injected, owner>>

-----------------------------------------------------------------------------
(* The owner's handlers, each as the stores it makes.                      *)

OnSpaceDown == << <<"waiting", FALSE>>, <<"held", TRUE>>, <<"notify">> >>

OnSpaceUp == << <<"waiting", FALSE>>, <<"held", FALSE>> >>

ForceSpaceSync(down) ==
  IF down THEN << <<"held", TRUE>>, <<"notify">> >>
          ELSE << <<"held", FALSE>>, <<"waiting", FALSE>>, <<"notify">> >>

OnSuspendChanged(down) == << <<"waiting", down>>, <<"notify">> >>

\* Turning on asks for a repress only if Space is held.
ToggleEnabled ==
  << <<"enabled", ~enabled>>, <<IF enabled THEN "repress" ELSE "repressIfHeld">>,
     <<"notify">> >>

\* A routed edge may have been queued while bunny-hopping was still enabled.
\* "down" is what the engine or GetAsyncKeyState says of Space, which may be
\* the key the boundary itself holds.
Handlers ==
  {OnSpaceUp, ToggleEnabled}
  \union (IF focus # NoTarget THEN {OnSpaceDown} ELSE {})
  \union {OnSpaceUp \o OnSuspendChanged(down) : down \in BOOLEAN}
  \union {ForceSpaceSync(down) \o OnSuspendChanged(down) : down \in BOOLEAN}
  \union {ForceSpaceSync(down) \o (IF down /\ enabled THEN OnSpaceDown ELSE <<>>) :
            down \in BOOLEAN}

OwnerRests == owner.pc = "run" /\ owner.todo = <<>>

Handle(stores) ==
  /\ OwnerRests
  /\ owner' = [owner EXCEPT !.todo = stores]
  /\ UNCHANGED <<table, focus, flags, running, queue, worker, injected>>

Notified == IF worker.pc = "asleep" THEN [worker EXCEPT !.pc = "evaluate"] ELSE worker

Store ==
  /\ owner.todo # <<>>
  /\ LET s == Head(owner.todo)
     IN  /\ held' = IF s[1] = "held" THEN s[2] ELSE held
         /\ waiting' = CASE s[1] = "waiting"       -> s[2]
                         [] s[1] = "repress"       -> TRUE
                         [] s[1] = "repressIfHeld" -> waiting \/ held
                         [] OTHER                  -> waiting
         /\ enabled' = IF s[1] = "enabled" THEN s[2] ELSE enabled
         /\ worker' = IF s[1] = "notify" THEN Notified ELSE worker
  /\ owner' = [owner EXCEPT !.todo = Tail(@)]
  /\ UNCHANGED <<table, focus, running, queue, injected>>

Active(t) == t \in Targets /\ focus = t

\* ExecuteInjectionOnOwnerThread, and what it returns of a request to press.
Execute(r, ok) ==
  CASE r.kind = "SpaceDown" -> KeyDownForTarget(table, Space, r.target, Active(r.target), ok)
    [] r.kind = "SpaceUp"   -> KeyUpForTarget(table, Space, r.target, Active(r.target), ok)
    [] r.kind = "WheelDown" -> table

Accepted(r, ok) ==
  /\ MayPress(table, r.target, Active(r.target))
  /\ IF r.kind = "SpaceDown" /\ Space \in table.held
     THEN table.owner[Space] = r.target ELSE ok

DrainInjectionRequests(ok) ==
  /\ OwnerRests /\ ready
  /\ ready' = FALSE
  /\ IF request.status = "queued"
     THEN /\ table' = Execute(request, ok)
          /\ request' = [request EXCEPT !.status = "executed",
                                        !.value = Accepted(request, ok)]
     ELSE UNCHANGED <<table, request>>
  /\ UNCHANGED <<focus, flags, running, queueRunning, worker, injected, owner>>

\* The pump's reconciliation of owed releases.
Reconcile(ok) ==
  /\ owner.pc \in {"run", "off"} /\ owner.todo = <<>>
  /\ table.pending # {} /\ focus \in Targets
  /\ table' = ReconcilePendingReleasesForTarget(table, focus, TRUE, IF ok THEN Slots ELSE {})
  /\ UNCHANGED <<focus, flags, running, queue, worker, injected, owner>>

(* Shutdown.                                                               *)

ShutdownBegin ==
  /\ OwnerRests
  /\ running' = FALSE
  /\ owner' = [owner EXCEPT !.pc = "stop"]
  /\ UNCHANGED <<table, focus, flags, queue, worker, injected>>

\* Faults: a cancelled request is left as it is, or reported as executed.
CancelledForgets(r) == r
CancelledExecuted(r) == IF r.status = "queued" THEN [r EXCEPT !.status = "executed"] ELSE r

Cancelled(r) == IF r.status = "queued" THEN [r EXCEPT !.status = "cancelled"] ELSE r

Stop ==
  /\ owner.pc = "stop"
  /\ queueRunning' = FALSE
  /\ request' = Cancelled(request)
  /\ owner' = [owner EXCEPT !.pc = "notify"]
  /\ UNCHANGED <<table, focus, flags, running, ready, worker, injected>>

NotifyAll ==
  /\ owner.pc = "notify"
  /\ worker' = Notified
  /\ owner' = [owner EXCEPT !.pc = "join"]
  /\ UNCHANGED <<table, focus, flags, running, queue, injected>>

\* The rest of Shutdown, after the join: Space the worker still holds goes up.
Joined(ok) ==
  /\ owner.pc = "join" /\ worker.pc = "exited"
  /\ table' = IF injected # NoTarget
              THEN KeyUpForTarget(table, Space, injected, Active(injected), ok) ELSE table
  /\ injected' = NoTarget
  /\ owner' = [owner EXCEPT !.pc = "off"]
  /\ UNCHANGED <<focus, flags, running, queue, worker>>

-----------------------------------------------------------------------------
(* The worker.                                                             *)

WorkerGoes(from, to) ==
  /\ worker.pc = from
  /\ worker' = to
  /\ UNCHANGED <<table, focus, enabled, waiting, running, queueRunning, owner>>

WorkerOnly == UNCHANGED <<held, request, ready, injected>>

At(pc) == [worker EXCEPT !.pc = pc]

Wanted == held /\ enabled /\ ~waiting

SpuriousWakeup == WorkerGoes("asleep", At("evaluate")) /\ WorkerOnly

Evaluate ==
  /\ WorkerGoes("evaluate", At(IF Wanted \/ ~running THEN "woken" ELSE "asleep"))
  /\ WorkerOnly

\* The target and the mode of the sequence are read once.
Woken ==
  /\ \E scroll \in BOOLEAN :
       WorkerGoes("woken",
         CASE ~running                               -> At("exited")
           [] running /\ ~(Wanted /\ Active(focus))  -> At("evaluate")
           [] running /\ Wanted /\ Active(focus)     ->
                [worker EXCEPT !.pc = "loop", !.state = "JumpStart", !.scroll = scroll,
                               !.target = focus])
  /\ WorkerOnly

Loop ==
  /\ WorkerGoes("loop",
       CASE ~(held /\ running /\ ~waiting) -> At("done")
         [] held /\ running /\ ~waiting    ->
              At(IF ~Active(worker.target) THEN "abort"
                 ELSE IF worker.state = "AirborneLock" THEN "airborne" ELSE "jump"))
  /\ WorkerOnly

\* The focus was lost: the worker itself clears s_spaceHeld.
Abort ==
  /\ WorkerGoes("abort", At("done"))
  /\ held' = FALSE
  /\ UNCHANGED <<request, ready, injected>>

AirborneWait ==
  /\ WorkerGoes("airborne",
       IF held /\ ~waiting /\ Active(worker.target)
       THEN [worker EXCEPT !.pc = "loop", !.state = "LandingScan"] ELSE At("done"))
  /\ WorkerOnly

\* DispatchJump returns; a landing scan ends when its time is over.
JumpReturns ==
  {[worker EXCEPT !.pc = "loop", !.call = "none", !.state = s] :
     s \in {"AirborneLock"} \union
           (IF worker.state = "LandingScan" THEN {"LandingScan"} ELSE {})}

Submits(call) == [worker EXCEPT !.pc = "submit", !.call = call]

DispatchJump ==
  /\ IF held /\ Active(worker.target)
     THEN WorkerGoes("jump", IF worker.scroll THEN Submits("wheel1")
                             ELSE IF injected # NoTarget THEN At("hold")
                             ELSE Submits("down"))
     ELSE \E after \in JumpReturns : WorkerGoes("jump", after)
  /\ WorkerOnly

\* Whether the target is still active or not, Space is let go.
HoldEnds == WorkerGoes("hold", Submits("up")) /\ WorkerOnly

Done ==
  /\ WorkerGoes("done", IF injected # NoTarget THEN Submits("lastUp")
                        ELSE [Asleep EXCEPT !.pc = "evaluate"])
  /\ WorkerOnly

(* BhopInjectionQueue::Submit.                                             *)

Kind(call) ==
  CASE call = "down"               -> "SpaceDown"
    [] call \in {"up", "lastUp"}   -> "SpaceUp"
    [] call \in {"wheel1", "wheel2"} -> "WheelDown"

\* What the worker does with the answer to its call.
After(executed, accepted) ==
  CASE worker.call = "down" /\ executed /\ accepted ->
         {[worker EXCEPT !.pc = "hold", !.call = "none"]}
    [] worker.call = "wheel1" /\ executed /\ accepted -> {Submits("wheel2")}
    [] worker.call = "lastUp" -> {[Asleep EXCEPT !.pc = "evaluate"]}
    [] OTHER -> JumpReturns

\* An executed release is the boundary's to finish, a cancelled one is not.
InjectedAfter(executed, accepted) ==
  CASE worker.call = "down" /\ executed /\ accepted -> worker.target
    [] worker.call \in {"up", "lastUp"} /\ executed  -> NoTarget
    [] OTHER -> injected

\* The one place of the queue is free: no other thread submits.
Push ==
  /\ worker.pc = "submit" /\ queueRunning
  /\ request' = [kind |-> Kind(worker.call), target |-> worker.target,
                 status |-> "queued", value |-> FALSE]
  /\ WorkerGoes("submit", At("post"))
  /\ UNCHANGED <<held, ready, injected>>

Refused ==
  /\ ~queueRunning
  /\ \E after \in After(FALSE, FALSE) : WorkerGoes("submit", after)
  /\ WorkerOnly

\* Fault: one attempt to post, successful or not.
EnoughAnyway(posted) == TRUE

\* A post that fails is tried again until the queue is stopped.
Enough(posted) == posted

Post ==
  /\ queueRunning
  /\ \E posted \in BOOLEAN : Enough(posted) /\ ready' = (ready \/ posted)
  /\ WorkerGoes("post", At("await"))
  /\ UNCHANGED <<held, request, injected>>

PostNoMore == ~queueRunning /\ WorkerGoes("post", At("await")) /\ WorkerOnly

Await ==
  /\ request.status \in {"executed", "cancelled"}
  /\ LET executed == request.status = "executed"
     IN  /\ \E after \in After(executed, request.value) : WorkerGoes("await", after)
         /\ injected' = InjectedAfter(executed, request.value)
  /\ request' = NoRequest
  /\ UNCHANGED <<held, ready>>

-----------------------------------------------------------------------------
WorkerStep ==
  \/ Evaluate \/ Woken \/ Loop \/ Abort \/ AirborneWait \/ DispatchJump \/ HoldEnds
  \/ Done \/ Push \/ Refused \/ PostNoMore \/ Await

OwnerMustStep ==
  \/ Store \/ Stop \/ NotifyAll
  \/ \E ok \in BOOLEAN : DrainInjectionRequests(ok) \/ Joined(ok)

Next ==
  \/ WorkerStep \/ Post \/ SpuriousWakeup
  \/ OwnerMustStep \/ ShutdownBegin
  \/ \E stores \in Handlers : Handle(stores)
  \/ \E ok \in BOOLEAN : Reconcile(ok)
  \/ \E t \in Identity : Focus(t)
  \/ ClientToggles

Spec == Init /\ [][Next]_vars

(***************************************************************************)
(* Both threads run, and the owner handles its messages however many keys  *)
(* come in between; a post that may fail does not fail for ever.  Nothing  *)
(* is assumed of the user, the focus or the answers of the system.         *)
(***************************************************************************)
Drain == \E ok \in BOOLEAN : DrainInjectionRequests(ok)

FairSpec ==
  Spec /\ WF_vars(WorkerStep) /\ WF_vars(OwnerMustStep) /\ SF_vars(Drain) /\ SF_vars(Post)

-----------------------------------------------------------------------------
(* Properties.                                                             *)

(* When Shutdown has returned, the boundary holds no Space but one whose   *)
(* release it owes: a down executed for the worker is never forgotten,     *)
(* wherever the stop meets the worker's request.                           *)
ShutdownLetsGo == owner.pc = "off" => table.held \subseteq table.pending

(* Shutdown returns: the worker it joins does not wait for ever for an     *)
(* answer only the joining thread could give, nor sleep through the stop.  *)
ShutdownReturns == (owner.pc = "stop") ~> (owner.pc = "off")

(* Space injected for a jump goes up again or its release is owed, though  *)
(* the focus leaves, posts fail, and the user, a pause or the stop end the *)
(* jump in the middle.                                                     *)
SpaceIsLetGo == (Space \in table.held) ~> (table.held \subseteq table.pending)
=============================================================================
