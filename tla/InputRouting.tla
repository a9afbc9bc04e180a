------------------------------ MODULE InputRouting -----------------------------
(***************************************************************************)
(* From the keyboard hook to the game: the hook and its queue              *)
(* (input_capture.cpp, routed_input_queue.h), the window messages of the   *)
(* owner thread (main.cpp), and under them the engine and the injection    *)
(* boundary of module Engine.                                              *)
(*                                                                         *)
(* The owner thread runs one message at a time, to its end; the hook runs  *)
(* on it too, between two messages.  Other threads move underneath: the    *)
(* user moves the focus, the focus thread reports it, the resolver answers *)
(* what it was asked for, timers expire, a client of the IPC server sends  *)
(* a message that overtakes the posted ones.  What the focus thread stores *)
(* and posts for one event is one step, and so is what the resolver looks  *)
(* up, publishes and posts for one request: TargetResolver takes them      *)
(* apart.                                                                  *)
(*                                                                         *)
(* Every window that matches no profile is NoTarget.  Not modelled here:   *)
(* Space and its swallowing, the modifier keys, the mouse hook (it passes  *)
(* everything on), a hook that cannot be had, and the failure of           *)
(* PostMessage.                                                            *)
(***************************************************************************)
EXTENDS Engine, RequestQueue

CONSTANTS
  PlayerKeys,  \* the keys the player uses
  Capacity,    \* kRoutedEventCapacity
  MaxMessages, \* bound: posted messages before the environment pauses
  MaxEvents,   \* bound: foreground events under way
  MayUnhook,   \* may the routed queue overflow, which ends in an unhook?
  BrakeModes   \* the modes in which key releases start brakes

ASSUME RoutingAssumption ==
  /\ PlayerKeys \subseteq Keys /\ Capacity \in Nat \ {0}
  /\ MaxMessages \in Nat /\ MaxEvents \in Nat
  /\ MayUnhook \in BOOLEAN /\ BrakeModes \subseteq Modes

VARIABLES
  down,       \* keys the player holds
  systemDown, \* keys that are down for the system: native edges and injected
  ledger,     \* s_wasdPhysDown
  swallowed,  \* s_wasdSwallowed
  routed,     \* s_routedEvents
  gate,       \* s_routedWakeGate's pending
  messages,   \* messages posted to the owner's window
  seen,       \* s_foregroundPublication
  requests,   \* s_resolverQueue
  wasActive,  \* s_wasTargetActive
  events,     \* foreground events the focus thread has yet to see
  hooked,     \* the hooks are installed
  timers,     \* the timer thread runs
  todo        \* rest of the message being handled

hookVars == <<down, systemDown, ledger, swallowed, routed, gate>>
focusVars == <<seen, requests, wasActive, events, hooked, timers>>
allVars == <<vars, hookVars, messages, focusVars, todo>>

RoutedEvent == [key : Keys, down : BOOLEAN, route : BOOLEAN, target : Identity]
Messages == {"routed", "refresh", "toggle", "unhook"}
Rests == {"none", "drain", "drained", "hook", "poll", "rebuild", "mode", "switch"}

RoutingTypeOK ==
  /\ TypeOK
  /\ down \subseteq PlayerKeys /\ systemDown \subseteq Slots
  /\ ledger \subseteq Keys /\ swallowed \subseteq Keys
  /\ routed \in Seq(RoutedEvent) /\ Len(routed) <= Capacity
  /\ gate \in BOOLEAN /\ messages \in Seq(Messages)
  /\ seen \in Identity /\ wasActive \in BOOLEAN /\ events \in Seq(Identity)
  /\ requests \in Seq(Identity) /\ Len(requests) <= QueueSize
  /\ hooked \in BOOLEAN /\ timers \in BOOLEAN /\ todo \in Rests

RoutingInit ==
  /\ Init
  /\ down = {} /\ systemDown = {} /\ ledger = {} /\ swallowed = {}
  /\ routed = <<>> /\ gate = FALSE /\ messages = <<>>
  /\ seen = foreground /\ requests = <<>> /\ wasActive = TRUE /\ events = <<>>
  /\ hooked = TRUE /\ timers = TRUE /\ todo = "none"

\* The owner thread is between two messages.
OwnerFree == Idle /\ todo = "none"
Room == Len(messages) < MaxMessages

\* What the injections of a step do to the system's view of the keys.
Injected(before, after) ==
  systemDown' = (systemDown \ (before.held \ after.held)) \union (after.held \ before.held)

-----------------------------------------------------------------------------
(* The keyboard hook, on a physical edge of k.                             *)

\* IsTargetActiveFast compares with the publication, not with the foreground.
SeenActive == seen \in Targets /\ seen = published
HookRoutes == SeenActive /\ ~eng.suspended

\* Fault: a key the engine knows to be physically down is not a brake.
HoldsUntouchedBrake(k) ==
  k \in table.held /\ table.owner[k] = seen /\ k \notin eng.phys

\* IsCounterStrafeHoldingKey: the held mask of the last commit, and the target
\* of k's last brake.  What is held in OFF was pressed as a brake.
HoldsBrake(k) == k \in table.held /\ table.owner[k] = seen

\* QueueRoutedEvent, after the refresh IsTargetActiveFast may ask for.
Posted(queued) ==
  LET refresh == IF SeenActive # wasActive THEN <<"refresh">> ELSE <<>>
      wake    == CASE ~queued -> <<"unhook">> [] queued /\ ~gate -> <<"routed">>
                   [] queued /\ gate -> <<>>
  IN  messages \o refresh \o wake

(* RoutedInputQueue::TryPush: is there room, and the queue afterwards.      *)
\* Fault: edges the engine will only record are not queued.
PushRouted(event) == IF event.route THEN Append(routed, event) ELSE routed

HasRoom == Len(routed) < Capacity
Push(event) == Append(routed, event)

HookKey(k) ==
  LET isDown == k \notin down
      queued == HasRoom
      native == config.mode = "OFF"
      taken  == IF isDown THEN HookRoutes /\ queued /\ ~native
                ELSE k \in swallowed \/ (native /\ HookRoutes /\ HoldsBrake(k))
  IN  /\ OwnerFree /\ hooked /\ Room /\ (queued \/ MayUnhook)
      /\ isDown # (k \in ledger)
      /\ down' = IF isDown THEN down \union {k} ELSE down \ {k}
      /\ ledger' = IF isDown THEN ledger \union {k} ELSE ledger \ {k}
      /\ routed' = IF queued THEN Push([key |-> k, down |-> isDown,
                                        route |-> HookRoutes, target |-> seen])
                   ELSE routed
      /\ gate' = (gate \/ queued)
      /\ messages' = Posted(queued)
      /\ swallowed' = IF isDown /\ taken THEN swallowed \union {k} ELSE swallowed \ {k}
      /\ systemDown' = IF taken THEN systemDown
                       ELSE IF isDown THEN systemDown \union {k} ELSE systemDown \ {k}
      /\ UNCHANGED <<vars, focusVars, todo>>

\* Windows repeats the down of a held key; the hook sees no edge.
RepeatKey(k) ==
  /\ OwnerFree /\ hooked /\ k \in down /\ k \in ledger /\ k \notin swallowed
  /\ systemDown' = systemDown \union {k}
  /\ UNCHANGED <<vars, down, ledger, swallowed, routed, gate, messages, focusVars, todo>>

\* An edge the ledger has already: no event, but a down that is swallowed or not.
StaleEdge(k) ==
  LET isDown == k \notin down
  IN  /\ OwnerFree /\ hooked /\ isDown = (k \in ledger)
      /\ down' = IF isDown THEN down \union {k} ELSE down \ {k}
      /\ swallowed' = IF isDown THEN swallowed ELSE swallowed \ {k}
      /\ systemDown' = IF k \in swallowed THEN systemDown
                       ELSE IF isDown THEN systemDown \union {k} ELSE systemDown \ {k}
      /\ UNCHANGED <<vars, ledger, routed, gate, messages, focusVars, todo>>

\* Without hooks every edge is native.
NativeKey(k) ==
  /\ ~hooked
  /\ down' = IF k \in down THEN down \ {k} ELSE down \union {k}
  /\ systemDown' = IF k \in down THEN systemDown \ {k} ELSE systemDown \union {k}
  /\ UNCHANGED <<vars, ledger, swallowed, routed, gate, messages, focusVars, todo>>

-----------------------------------------------------------------------------
(* Focus: the window manager, the focus thread, the resolver.              *)

\* The focus thread has its hook (before the owner has the keyboard's).
Listening == hooked \/ todo = "poll"

Focus(t) ==
  /\ foreground # t /\ Len(events) < MaxEvents
  /\ foreground' = t
  /\ events' = IF Listening THEN Append(events, t) ELSE events
  /\ UNCHANGED <<eng, table, batchTarget, config, published, hookVars, messages,
                 seen, requests, wasActive, hooked, timers, todo>>

\* WinEventProc: events arrive in order and late.
WinEvent ==
  /\ events # <<>> /\ Room
  /\ seen' = Head(events) /\ events' = Tail(events)
  /\ requests' = Enqueue(requests, Head(events))
  /\ messages' = Append(messages, "refresh")
  /\ UNCHANGED <<vars, hookVars, wasActive, hooked, timers, todo>>

\* Fault: a publication notifies nobody.
PublishQuietly ==
  /\ Head(requests) = foreground /\ Room
  /\ published' = foreground
  /\ UNCHANGED messages

\* The window asked for is in the foreground.
Publish ==
  /\ Head(requests) = foreground /\ Room
  /\ published' = foreground
  /\ messages' = Append(messages, "refresh")

\* Another one is; two windows without a profile are both NoTarget.
Drop ==
  /\ Head(requests) # foreground \/ foreground = NoTarget
  /\ UNCHANGED <<published, messages>>

\* One turn of ResolverWorker.
Resolve ==
  /\ requests # <<>>
  /\ requests' = Tail(requests)
  /\ Publish \/ Drop
  /\ UNCHANGED <<eng, table, batchTarget, config, foreground, hookVars, seen, wasActive,
                 events, hooked, timers, todo>>

-----------------------------------------------------------------------------
(* The owner thread's messages.                                            *)

NextMessage(m) ==
  OwnerFree /\ messages # <<>> /\ Head(messages) = m /\ messages' = Tail(messages)

\* WM_ROUTED_INPUT_READY.
RoutedInputReady ==
  /\ NextMessage("routed")
  /\ todo' = "drain"
  /\ UNCHANGED <<vars, hookVars, focusVars>>

\* One event of DrainRoutedInputEvents; the target is looked at once more.
RouteNext(refused, travel) ==
  LET event == Head(routed)
      route == event.route /\ Active(event.target)
      stale == event.down /\ event.key \in eng.phys
  IN  /\ todo # "none" /\ Idle /\ routed # <<>>
      /\ IF stale THEN UNCHANGED vars
         ELSE IF event.down THEN KeyDown(event.key, route, event.target, refused)
              ELSE KeyUp(event.key, route, event.target, travel, refused)
      /\ routed' = Tail(routed)
      /\ todo' = IF todo = "drain" THEN "drained" ELSE todo
      /\ UNCHANGED <<down, systemDown, ledger, swallowed, gate, messages, focusVars>>

\* The budget of the pass is not used up.
RouteMore ==
  /\ todo = "drained" /\ Idle /\ routed # <<>> /\ todo' = "drain"
  /\ UNCHANGED <<vars, hookVars, messages, focusVars>>

\* Fault: the gate is opened without a look at the queue.
CompleteDrainBlind == gate' = FALSE /\ UNCHANGED messages

\* RoutedInputWakeGate::CompleteDrain: post the next wake-up, or open the gate.
CompleteDrain ==
  /\ gate' = (routed # <<>>)
  /\ messages' = IF routed # <<>> THEN Append(messages, "routed") ELSE messages

EndDrain ==
  /\ Idle /\ (todo = "drained" \/ (todo = "drain" /\ routed = <<>>))
  /\ todo' = "none" /\ CompleteDrain
  /\ UNCHANGED <<vars, down, systemDown, ledger, swallowed, routed, focusVars>>

\* PhysicalMovementMask has drained the queue; RebuildState does the rest.
Rebuild ==
  /\ todo = "rebuild" /\ Idle /\ routed = <<>>
  /\ Submit(RebuildState(eng, ledger, Situation(published, NoKey, {})), published)
  /\ gate' = FALSE /\ todo' = "none"
  /\ UNCHANGED <<down, systemDown, ledger, swallowed, routed, messages, focusVars>>

\* WM_TARGET_REFRESH_REQUEST: ReconcileTargetFocusNow.
LoseFocus ==
  /\ NextMessage("refresh") /\ wasActive /\ ~SeenActive
  /\ wasActive' = FALSE /\ swallowed' = {}
  /\ ClearHeldKeys(published)
  /\ UNCHANGED <<down, systemDown, ledger, routed, gate, seen, requests, events, hooked,
                 timers, todo>>

RegainFocus ==
  /\ NextMessage("refresh") /\ ~wasActive /\ SeenActive
  /\ wasActive' = TRUE /\ todo' = "rebuild"
  /\ UNCHANGED <<vars, hookVars, seen, requests, events, hooked, timers>>

KeepFocus ==
  /\ NextMessage("refresh") /\ wasActive = SeenActive
  /\ UNCHANGED <<vars, hookVars, focusVars, todo>>

(* capture::Reinstall, if there are no hooks: empty the queue and sample   *)
(* the foreground; wait for the focus thread's hook; have PollTarget ask   *)
(* the resolver for what was seen last.  It posts nothing: a refresh comes *)
(* with the resolver's answer, if that answer is not dropped.              *)
Reinstall ==
  IF hooked THEN todo' = "rebuild" /\ UNCHANGED <<routed, gate, seen, wasActive>>
  ELSE /\ todo' = "hook"
       /\ routed' = <<>> /\ gate' = FALSE
       /\ seen' = foreground /\ wasActive' = FALSE

InstallHook ==
  /\ todo = "hook" /\ Idle /\ todo' = "poll"
  /\ UNCHANGED <<vars, hookVars, messages, focusVars>>

InstallPoll ==
  /\ todo = "poll" /\ Idle /\ todo' = "rebuild"
  /\ requests' = Enqueue(requests, seen)
  /\ hooked' = TRUE
  /\ UNCHANGED <<vars, hookVars, messages, seen, wasActive, events, timers>>

\* engine::ToggleSuspend; posted are the messages behind it.
ToggleEngine(posted) ==
  IF ~eng.suspended
  THEN /\ Submit(Suspend(eng), published)
       /\ messages' = posted
       /\ UNCHANGED <<hookVars, focusVars, todo>>
  ELSE /\ eng' = Commit(Resume(eng), table.held)
       /\ messages' = posted
       /\ Reinstall
       /\ UNCHANGED <<table, batchTarget, config, foreground, published, down,
                      systemDown, ledger, swallowed, requests, events, hooked, timers>>

\* F6 posts the message, the tray and the IPC server send it.
PressF6 ==
  /\ OwnerFree /\ hooked /\ Room
  /\ messages' = Append(messages, "toggle")
  /\ UNCHANGED <<vars, hookVars, focusVars, todo>>

ToggleSuspendPosted ==
  OwnerFree /\ messages # <<>> /\ Head(messages) = "toggle" /\ ToggleEngine(Tail(messages))
ToggleSuspendSent == OwnerFree /\ ToggleEngine(messages)

\* WM_EMERGENCY_UNHOOK.  ShutdownAndReleaseForTarget finds nothing held that
\* ClearHeldKeys has not asked to release, and reconciles like the pump.
EmergencyUnhook ==
  LET stopped == [eng EXCEPT !.armed = [k \in Keys |-> NoTimer], !.expired = <<>>]
  IN  /\ NextMessage("unhook")
      /\ hooked' = FALSE /\ timers' = FALSE /\ seen' = NoTarget /\ wasActive' = FALSE
      /\ events' = <<>> /\ routed' = <<>> /\ gate' = FALSE
      /\ Submit(LetGoOfAll(stopped), published)
      /\ UNCHANGED <<down, systemDown, ledger, swallowed, requests, todo>>

-----------------------------------------------------------------------------
(* The engine's own steps, in this larger state.                           *)

Elsewhere == UNCHANGED <<down, ledger, swallowed, routed, gate, messages, focusVars, todo>>

SendOne(ok) == FlushOne(ok) /\ Injected(table, table') /\ Elsewhere
FireTimer(k) == timers /\ TimerFire(k) /\ UNCHANGED systemDown /\ Elsewhere
DrainExpired == todo = "none" /\ DrainTimer /\ UNCHANGED systemDown /\ Elsewhere

PumpReleases ==
  todo = "none" /\ PumpSomething /\ Injected(table, table') /\ Elsewhere

\* WM_CONFIG_REQUEST that may change the mode; a client sends it.  First
\* PrepareSocdModeChange drains the queue and lets go of every key ...
ModeRequest ==
  /\ OwnerFree /\ todo' = "mode"
  /\ UNCHANGED <<vars, hookVars, messages, focusVars>>

PrepareModeChange ==
  /\ todo = "mode" /\ Idle /\ routed = <<>> /\ gate' = FALSE
  /\ IF ledger = {} /\ eng.phys = {} THEN ClearHeldKeys(published) /\ todo' = "switch"
                                     ELSE UNCHANGED vars /\ todo' = "none"
  /\ UNCHANGED <<down, systemDown, ledger, swallowed, routed, messages, focusVars>>

\* ... then it refuses if the boundary still holds or owes one.
SwitchMode(mode) ==
  /\ todo = "switch" /\ Idle /\ todo' = "none"
  /\ IF table.held \intersect Keys = {} /\ table.pending = {}
     THEN config' = [config EXCEPT !.mode = mode] /\ swallowed' = {}
     ELSE UNCHANGED <<config, swallowed>>
  /\ UNCHANGED <<eng, table, batchTarget, foreground, published, down, systemDown,
                 ledger, routed, gate, messages, focusVars>>

TimerRefusals == IF timers THEN Refusals ELSE {Keys}

Route ==
  \E refused \in TimerRefusals, travel \in Keys \union {NoKey} :
    /\ routed # <<>>
    /\ travel \in (IF config.mode \in BrakeModes THEN AxisOf(Head(routed).key) ELSE {}) \union {NoKey}
    /\ RouteNext(refused, travel)

OwnerStep ==
  \/ RoutedInputReady \/ Route \/ RouteMore \/ EndDrain \/ Rebuild
  \/ LoseFocus \/ RegainFocus \/ KeepFocus
  \/ ToggleSuspendPosted \/ InstallHook \/ InstallPoll \/ EmergencyUnhook
  \/ PrepareModeChange \/ \E mode \in ModesAllowed : SwitchMode(mode)
  \/ \E ok \in Outcomes : SendOne(ok)

RoutingNext ==
  \/ \E k \in PlayerKeys : HookKey(k) \/ RepeatKey(k) \/ StaleEdge(k) \/ NativeKey(k)
  \/ \E t \in Identity : Focus(t)
  \/ WinEvent \/ Resolve \/ PressF6 \/ ToggleSuspendSent \/ ModeRequest
  \/ OwnerStep
  \/ \E k \in Keys : FireTimer(k)
  \/ DrainExpired \/ PumpReleases

RoutingSpec == RoutingInit /\ [][RoutingNext]_allVars

-----------------------------------------------------------------------------
(* Properties.                                                             *)

(* No physical edge is lost, reordered or invented between the hook and    *)
(* the engine: the engine's physical keys, with the queued edges applied,  *)
(* are the hook's ledger, through drains cut short, focus changes, suspend *)
(* and rebuilds.  An overflow breaks this until it is handled, which ends  *)
(* in an unhook and the next resume's rebuild.                             *)
LastEdgeIsDown(k, q) ==
  \E i \in DOMAIN q : /\ q[i].key = k /\ q[i].down
                      /\ \A j \in DOMAIN q : j > i => q[j].key # k

Applied(keys, q) ==
  {k \in Keys : \/ LastEdgeIsDown(k, q)
                \/ k \in keys /\ \A i \in DOMAIN q : q[i].key # k}

Posts(m) == Contains(messages, m)

NoEdgeLost ==
  hooked /\ todo # "rebuild" /\ ~Posts("unhook") => Applied(eng.phys, routed) = ledger

(* The queue never waits for a wake-up nobody has posted: a lost wake-up   *)
(* would freeze the game's input until the next emergency.                 *)
QueueIsWoken ==
  routed # <<>> => todo # "none" \/ Posts("routed")

(* The owner's idea of whether the target is active does not stay wrong    *)
(* unnoticed.  A loss of focus is never without a refresh on its way,      *)
(* however hook, focus thread, resolver and resumes interleave.  A target  *)
(* not yet noticed can be without one only after a resume has reinstalled  *)
(* the hooks: then the resolver has yet to answer for it, or an event is   *)
(* under way, or it is not in the foreground.                              *)
FocusCatchesUp ==
  hooked /\ wasActive # SeenActive =>
    \/ Posts("refresh")
    \/ ~wasActive /\ (Contains(requests, seen) \/ events # <<>> \/ seen # foreground)

(* The emergency unhook lets go: once handled, nothing queued, armed or    *)
(* expired before it can press a key again until a resume reinstalls the   *)
(* hooks; what is still down is owed.                                      *)
UnhookedHoldsNothing == OwnerFree /\ ~hooked => table.held \subseteq table.pending

\* Nothing is under way: what the game sees now is what it goes on seeing.
Settled ==
  /\ OwnerFree /\ messages = <<>> /\ events = <<>> /\ requests = <<>> /\ routed = <<>>
  /\ published = foreground /\ seen = foreground

\* A key is down in the game only because the player holds it, a timer will
\* end it, or its release is owed.
NothingStuck ==
  Settled /\ Active(foreground) /\ ~eng.suspended =>
    \A k \in systemDown \intersect Keys : k \in down \/ Live(k) \/ k \in table.pending

(* MARCO_KNOWLEDGE_BASE.md:52, reconcile on focus regain cleans stuck      *)
(* keys: once everything has settled with the game in front and the engine *)
(* running, no key is stuck.  FULL and HUMANIZED.                          *)
SettledNothingStuck == config.mode # "OFF" => NothingStuck

(* The same in OFF, where a resume re-syncs "using the exact physical      *)
(* truth" (state_reconciliation.cpp:142).                                  *)
SettledNothingStuckInOff == config.mode = "OFF" => NothingStuck

(* README.md:17, a physical counter-key release cannot truncate an armed   *)
(* burst: a key the boundary holds stays down for the system, whatever     *)
(* native edges of the same key the hook sees and the queue still holds.   *)
BurstIsNotCut == config.mode = "OFF" => table.held \subseteq systemDown

(* README.md:17, OFF tracks native physical output separately: the keys    *)
(* the engine records as native are down for the system.                   *)
NativeIsDown ==
  Settled /\ Active(foreground) /\ ~eng.suspended /\ config.mode = "OFF" =>
    eng.native \subseteq systemDown

(* FULL and HUMANIZED: while nothing is rejected and nothing owed, a       *)
(* player who holds a key of an axis has a key of that axis down in the    *)
(* game.                                                                   *)
SettledKeyIsDown ==
  Settled /\ Active(foreground) /\ ~eng.suspended /\ config.mode # "OFF"
    /\ ~RejectsAllowed /\ table.pending = {} =>
    \A ax \in Axes : down \intersect ax # {} => systemDown \intersect ax # {}

(* Between two messages the boundary's keys follow the engine's physical   *)
(* keys, newest first, also behind the queue, pauses and mode changes.     *)
NewestKeyWinsRouted == OwnerFree => NewestKeyWins

(* README.md:13, FULL: of two keys held together the game sees the newest  *)
(* one only.                                                               *)
SettledNewestOnly ==
  Settled /\ Active(foreground) /\ ~eng.suspended /\ config.mode = "FULL" =>
    \A ax \in Axes : ax \subseteq down => systemDown \intersect ax = {eng.last[ax]}

(* README.md:162-168, pausing the engine: while it is paused the engine    *)
(* holds no key it does not owe a release for.                             *)
PausedHoldsNothing == OwnerFree /\ eng.suspended => table.held \subseteq table.pending

(* The same for a focus that comes back while the engine is paused: the    *)
(* refresh restores no key.                                                *)
PausedFocusPressesNothing ==
  [][Rebuild /\ eng.suspended => \A i \in DOMAIN eng'.out : ~eng'.out[i].down]_allVars

(* input_capture.cpp:250: the ledger is the physical truth.                *)
LedgerIsPhysical == hooked => ledger = down
=============================================================================
