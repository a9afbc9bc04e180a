---------------------------- MODULE TargetResolver ----------------------------
(***************************************************************************)
(* Which window is the game: the focus thread queues a request for every   *)
(* foreground event, the resolver thread looks the window up and publishes *)
(* what it found through the sequence lock, and the owner thread compares  *)
(* the publication with the last event when it is asked to refresh         *)
(* (target_platform.cpp; WinEventProc and ReconcileTargetFocusNow of       *)
(* input_capture.cpp).                                                     *)
(*                                                                         *)
(* A window that no profile matches is published like no window at all.    *)
(* Refresh messages are counted as one: the handler reads what is there    *)
(* when it runs.  The scanner thread only feeds the dashboard.             *)
(***************************************************************************)
EXTENDS SeqLock, RequestQueue

CONSTANTS
  Games,       \* windows that match a profile
  OtherWindows,
  NoTarget,    \* the identity of no window
  Owner,       \* the owner thread, one of Readers
  MaxMoves     \* bound: foreground changes and installations

Identity == Games \union OtherWindows \union {NoTarget}

ASSUME ResolverAssumption ==
  /\ Games \union {NoTarget} \subseteq Values /\ InitialValue = NoTarget
  /\ NoTarget \notin Games \union OtherWindows /\ Games \intersect OtherWindows = {}
  /\ Owner \in Readers /\ MaxMoves \in Nat

VARIABLES
  foreground,    \* the foreground window
  moves,         \* foreground changes and installations so far
  hooked,        \* the WinEvent hook is installed
  events,        \* foreground events not yet delivered to the focus thread
  seen,          \* s_foregroundPublication
  queue,         \* s_resolverQueue
  resolver,      \* the resolver thread: where it is, the request it took
  running,       \* s_resolverRunning
  refresh,       \* a WM_TARGET_REFRESH_REQUEST is in the owner's queue
  owner,         \* the owner thread: what it does, the event it compares with
  wasActive      \* s_wasTargetActive

desk == <<foreground, moves, hooked, events>>
vars == <<lockVars, desk, seen, queue, resolver, running, refresh, owner, wasActive>>

ResolverTypeOK ==
  /\ LockTypeOK
  /\ foreground \in Identity /\ moves \in 0..MaxMoves /\ hooked \in BOOLEAN
  /\ events \in Seq(Identity) /\ seen \in Identity
  /\ queue \in Seq(Identity) /\ Len(queue) <= QueueSize
  /\ resolver \in [pc : {"wait", "first", "lookup", "second", "running", "store",
                         "storing", "notify", "exited"},
                   id : Identity]
  /\ running \in BOOLEAN /\ refresh \in BOOLEAN /\ wasActive \in BOOLEAN
  /\ owner \in [pc : {"pump", "hook", "poll", "load", "join", "clear", "clearing", "down"},
                event : Identity]

-----------------------------------------------------------------------------
(* Requests.                                                               *)

Request(id) == queue' = IF running THEN Enqueue(queue, id) ELSE queue

\* target_platform::Init has run, capture::Install has not.
Init ==
  /\ LockInit
  /\ foreground \in Identity /\ moves = 0 /\ hooked = FALSE /\ events = <<>>
  /\ seen = NoTarget
  /\ queue = <<>>
  /\ resolver = [pc |-> "wait", id |-> NoTarget]
  /\ running = TRUE
  /\ refresh = FALSE /\ wasActive = FALSE
  /\ owner = [pc |-> "pump", event |-> NoTarget]

\* Without the hook nobody hears of a change.
Focus(w) ==
  /\ w # foreground /\ moves < MaxMoves
  /\ foreground' = w
  /\ moves' = moves + 1
  /\ events' = IF hooked THEN Append(events, w) ELSE events
  /\ UNCHANGED <<lockVars, hooked, seen, queue, resolver, running, refresh, owner,
                 wasActive>>

WinEventProc ==
  /\ events # <<>>
  /\ seen' = Head(events)
  /\ Request(Head(events))
  /\ events' = Tail(events)
  /\ refresh' = TRUE
  /\ UNCHANGED <<lockVars, foreground, moves, hooked, resolver, running, owner, wasActive>>

\* Uninstall stops the focus thread and forgets what it reported.
Unhook ==
  /\ hooked /\ owner.pc = "pump"
  /\ hooked' = FALSE
  /\ events' = <<>>
  /\ seen' = NoTarget /\ wasActive' = FALSE
  /\ UNCHANGED <<lockVars, foreground, moves, queue, resolver, running, refresh, owner>>

(* capture::Install: the owner samples the foreground, waits for the focus *)
(* thread to set its hook, and polls.  Between the sample and the hook     *)
(* nobody hears of a change, after the hook the focus thread may be faster *)
(* than the poll.                                                          *)
InstallSample ==
  /\ ~hooked /\ owner.pc = "pump" /\ moves < MaxMoves
  /\ moves' = moves + 1
  /\ seen' = foreground
  /\ owner' = [owner EXCEPT !.pc = "hook"]
  /\ UNCHANGED <<lockVars, foreground, hooked, events, queue, resolver, running, refresh,
                 wasActive>>

\* The hook may not be had (s_focusHookReady): then Install returns false.
InstallHook(ready) ==
  /\ owner.pc = "hook"
  /\ hooked' = ready
  /\ owner' = [owner EXCEPT !.pc = IF ready THEN "poll" ELSE "pump"]
  /\ UNCHANGED <<lockVars, foreground, moves, events, seen, queue, resolver, running,
                 refresh, wasActive>>

\* PollTarget asks for what was seen last; it posts nothing to the owner.
InstallPoll ==
  /\ owner.pc = "poll"
  /\ Request(seen)
  /\ owner' = [owner EXCEPT !.pc = "pump"]
  /\ UNCHANGED <<lockVars, desk, seen, resolver, running, refresh, wasActive>>

-----------------------------------------------------------------------------
(* ResolverWorker.                                                         *)

ResolverGoes(pc) == resolver' = [resolver EXCEPT !.pc = pc]
ResolverOnly == UNCHANGED <<desk, seen, queue, running, refresh, owner, wasActive>>

ShouldPublishResolution(requested, front) == requested = front

Take ==
  /\ resolver.pc = "wait"
  /\ queue # <<>> /\ running
  /\ resolver' = [pc |-> "first", id |-> Head(queue)]
  /\ queue' = Tail(queue)
  /\ UNCHANGED <<lockVars, desk, seen, running, refresh, owner, wasActive>>

\* The loop's condition and the break after the wait.
Exit ==
  /\ resolver.pc = "wait" /\ ~running
  /\ ResolverGoes("exited") /\ ResolverOnly /\ UNCHANGED lockVars

FirstCheck ==
  /\ resolver.pc = "first"
  /\ ResolverGoes(IF ~ShouldPublishResolution(resolver.id, foreground) THEN "wait"
                  ELSE IF resolver.id = NoTarget THEN "store" ELSE "lookup")
  /\ ResolverOnly /\ UNCHANGED lockVars

\* The window's class, process and path; it fails only if the window went.
Lookup ==
  /\ resolver.pc = "lookup"
  /\ \/ ResolverGoes("second")
     \/ resolver.id # foreground /\ ResolverGoes("wait")
  /\ ResolverOnly /\ UNCHANGED lockVars

SecondCheck ==
  /\ resolver.pc = "second"
  /\ ResolverGoes(IF ShouldPublishResolution(resolver.id, foreground) THEN "running"
                                                                    ELSE "wait")
  /\ ResolverOnly /\ UNCHANGED lockVars

RunningCheck ==
  /\ resolver.pc = "running"
  /\ ResolverGoes(IF running THEN "store" ELSE "wait")
  /\ ResolverOnly /\ UNCHANGED lockVars

Profile(w) == IF w \in Games THEN w ELSE NoTarget

PublishBegin ==
  /\ resolver.pc = "store"
  /\ StoreBegin(Profile(resolver.id))
  /\ ResolverGoes("storing") /\ ResolverOnly

PublishWord ==
  /\ resolver.pc = "storing"
  /\ \E w \in Words : StoreWord(w)
  /\ ResolverOnly /\ UNCHANGED resolver

PublishEnd ==
  /\ resolver.pc = "storing"
  /\ StoreEnd
  /\ ResolverGoes("notify") /\ ResolverOnly

Notify ==
  /\ resolver.pc = "notify"
  /\ refresh' = TRUE
  /\ ResolverGoes("wait")
  /\ UNCHANGED <<lockVars, desk, seen, queue, running, owner, wasActive>>

Resolve ==
  \/ Take \/ Exit \/ FirstCheck \/ Lookup \/ SecondCheck \/ RunningCheck
  \/ PublishBegin \/ PublishWord \/ PublishEnd \/ Notify

-----------------------------------------------------------------------------
(* The owner thread.                                                       *)

OwnerOnly == UNCHANGED <<desk, seen, resolver, running, wasActive>>

\* ReconcileTargetFocusNow reads the event first and the publication then.
RefreshBegin ==
  /\ owner.pc = "pump" /\ refresh
  /\ refresh' = FALSE
  /\ owner' = [pc |-> "load", event |-> seen]
  /\ LoadBegin(Owner)
  /\ OwnerOnly /\ UNCHANGED queue

Load(r) ==
  \/ LoadSequence(r) \/ LoadEnd(r)
  \/ \E w \in Words : LoadWord(r, w)

RefreshLoad ==
  /\ owner.pc = "load"
  /\ Load(Owner)
  /\ OwnerOnly /\ UNCHANGED <<queue, refresh, owner>>

\* foreground.IsValid() && foreground == pub.
RefreshEnd ==
  /\ owner.pc = "load" /\ load[Owner].pc = "idle"
  /\ wasActive' = (owner.event # NoTarget /\ \A w \in Words : load[Owner].copy[w] = owner.event)
  /\ owner' = [owner EXCEPT !.pc = "pump"]
  /\ UNCHANGED <<lockVars, desk, seen, queue, resolver, running, refresh>>

\* Shutdown, after capture::Uninstall: stop the resolver, join it, publish none.
ShutdownBegin ==
  /\ owner.pc = "pump" /\ ~hooked
  /\ running' = FALSE
  /\ queue' = <<>>
  /\ owner' = [owner EXCEPT !.pc = "join"]
  /\ UNCHANGED <<lockVars, desk, seen, resolver, refresh, wasActive>>

\* Fault: the resolver is not waited for.
JoinNobody ==
  /\ owner.pc = "join"
  /\ owner' = [owner EXCEPT !.pc = "clear"]
  /\ OwnerOnly /\ UNCHANGED <<lockVars, queue, refresh>>

Join ==
  /\ owner.pc = "join" /\ resolver.pc = "exited"
  /\ owner' = [owner EXCEPT !.pc = "clear"]
  /\ OwnerOnly /\ UNCHANGED <<lockVars, queue, refresh>>

ClearBegin ==
  /\ owner.pc = "clear"
  /\ StoreBegin(NoTarget)
  /\ owner' = [owner EXCEPT !.pc = "clearing"]
  /\ OwnerOnly /\ UNCHANGED <<queue, refresh>>

ClearWord ==
  /\ owner.pc = "clearing"
  /\ \E w \in Words : StoreWord(w)
  /\ OwnerOnly /\ UNCHANGED <<queue, refresh, owner>>

ClearEnd ==
  /\ owner.pc = "clearing"
  /\ StoreEnd
  /\ owner' = [owner EXCEPT !.pc = "down"]
  /\ OwnerOnly /\ UNCHANGED <<queue, refresh>>

OwnerStep ==
  \/ \E ready \in BOOLEAN : InstallHook(ready)
  \/ InstallPoll
  \/ RefreshBegin \/ RefreshLoad \/ RefreshEnd
  \/ Join \/ ClearBegin \/ ClearWord \/ ClearEnd

-----------------------------------------------------------------------------
Next ==
  \/ \E w \in Identity : Focus(w)
  \/ WinEventProc \/ Unhook \/ InstallSample
  \/ Resolve
  \/ OwnerStep \/ ShutdownBegin

Spec == Init /\ [][Next]_vars

(***************************************************************************)
(* Every thread that can go on does: the system delivers events and wakes  *)
(* the threads.  Nothing makes the foreground, the hooks or a shutdown     *)
(* move.                                                                   *)
(***************************************************************************)
FairSpec ==
  /\ Spec
  /\ WF_vars(WinEventProc) /\ WF_vars(Resolve) /\ WF_vars(OwnerStep)

-----------------------------------------------------------------------------
(* Where a foreground that is known comes to rest the owner's verdict does *)
(* too: active in a game, inactive elsewhere, however many requests the    *)
(* queue lost, whatever was published in between and however often the     *)
(* hooks were installed anew.                                              *)
ReportedFocusReachesOwner ==
  \A w \in Identity :
    <>[](foreground = w /\ hooked /\ seen = w) => <>[](wasActive <=> w \in Games)

(* MARCO_KNOWLEDGE_BASE.md:52, the target is resolved anew whenever the    *)
(* foreground changes: where the foreground comes to rest under an         *)
(* installed hook, the owner's verdict does too.  It does not: a change    *)
(* between InstallSample and InstallHook is reported by nobody.            *)
FocusReachesOwner ==
  \A w \in Identity :
    <>[](foreground = w /\ hooked) => <>[](wasActive <=> w \in Games)

(* Once Shutdown has returned no target is published, and none will be: a *)
(* resolution that was under way when it began cannot end after it.        *)
StoppedPublishesNothing == owner.pc = "down" => current = NoTarget /\ ~store.busy
=============================================================================
