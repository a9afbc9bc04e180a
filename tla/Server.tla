---------------------------------- MODULE Server -------------------------------
(***************************************************************************)
(* The HTTP server around the runtime configuration (ipc_server.cpp).      *)
(*                                                                         *)
(* A listener thread accepts connections and gives each a handler of its   *)
(* own.  s_apiMutex lets one handler at a time read, apply and save.  Two  *)
(* routes wait for the owner thread, at most two seconds.  The handler of  *)
(* an event stream registers its socket and ends; the SSE worker then      *)
(* writes to all registered sockets thirty times a second, and names the   *)
(* event state_changed when somebody has called NotifyStateChanged.        *)
(*                                                                         *)
(* StopServer, called by the owner thread, which no longer pumps, joins    *)
(* the listener, which joins the handlers and the SSE worker and closes    *)
(* what is left.  Then the configuration is saved for the last time.       *)
(*                                                                         *)
(* A handler's stage after "lock" names its route, and every stage that    *)
(* waits for a peer ends, as the sockets have time-outs of five seconds.   *)
(***************************************************************************)
EXTENDS RuntimeConfig, FiniteSets

CONSTANT Conns  \* the connections made in one run

ASSUME ServerAssumption == "nobody" \notin Conns

VARIABLES
  running,   \* s_running
  listener,  \* the thread of ServerWorker
  stage,     \* connection -> its place in HandleClient, or "stream" or "closed"
  serving,   \* the connection whose handler has s_apiMutex
  changed,   \* s_stateChanged
  sse,       \* the place of the SSE worker
  owed,      \* history: streams not told of a change notified while they were open
  telling,   \* history: those the state_changed event in the making is for
  stop       \* the owner's place in StopServer

serverVars == <<running, listener, stage, serving, changed, sse, owed, telling, stop>>

allVars == <<vars, serverVars>>

Streams == {c \in Conns : stage[c] = "stream"}

\* The stages of a handler that has s_apiMutex.
Serving ==
  {"apply", "safemode", "revert", "edit", "suspend", "upgrade", "notify", "respond"}

ServerTypeOK ==
  /\ running \in BOOLEAN /\ changed \in BOOLEAN
  /\ listener \in {"accept", "handlers", "worker", "streams", "ended"}
  /\ stage \in [Conns -> {"free", "receive", "lock", "stream", "closed"} \union Serving]
  /\ serving \in Conns \union {"nobody"}
  /\ sse \in {"loop", "snapshot", "label", "send", "ended"}
  /\ owed \subseteq Conns /\ telling \subseteq Conns
  /\ stop \in {"no", "listener", "worker", "done"}

\* The server is started when the configuration is loaded; its socket may not be had.
ServerInit ==
  /\ Init
  /\ running = TRUE /\ listener \in {"accept", "ended"}
  /\ stage = [c \in Conns |-> "free"] /\ serving = "nobody"
  /\ changed = FALSE /\ sse = "loop" /\ owed = {} /\ telling = {}
  /\ stop = "no"

ConfigIdle == UNCHANGED vars

NotifyStateChanged == changed' = TRUE /\ owed' = owed \union Streams

NoNotice == UNCHANGED <<changed, owed>>

-----------------------------------------------------------------------------
(* A handler.                                                              *)

Go(c, to) == stage' = [stage EXCEPT ![c] = to]

Accept(c) ==
  /\ listener = "accept" /\ stage[c] = "free"
  /\ Go(c, "receive")
  /\ UNCHANGED <<running, listener, serving, sse, telling, stop>> /\ NoNotice /\ ConfigIdle

\* The request may be cut off, malformed or without a token; it may be one for the token.
Receive(c) ==
  /\ stage[c] = "receive"
  /\ Go(c, "closed") \/ (running /\ Go(c, "lock"))
  /\ UNCHANGED <<running, listener, serving, sse, telling, stop>> /\ NoNotice /\ ConfigIdle

\* With s_apiMutex, and s_running read once more.
Lock(c) ==
  /\ stage[c] = "lock" /\ serving = "nobody"
  /\ serving' = c
  /\ IF ~running
     THEN Go(c, "respond") /\ ConfigIdle
     ELSE \/ (\E to \in {"upgrade", "suspend", "respond"} : Go(c, to)) /\ ConfigIdle
          \/ \E action \in {"apply", "safemode", "revert"}, t \in Tunings, safe \in BOOLEAN :
               Go(c, action) /\ ClientReads(action, t, safe)
          \/ \E p \in Profiles : Go(c, "edit") /\ ClientCopies(p)
  /\ UNCHANGED <<running, listener, sse, telling, stop>> /\ NoNotice

\* A step of the configuration's transaction.
Transact(c) ==
  /\ serving = c /\ stage[c] \in {"apply", "safemode", "revert", "edit"}
  /\ Submit \/ ClientApply \/ ClientReread \/ ClientSave
  /\ IF stage[c] = "apply" /\ client.pc = "save" THEN Go(c, "notify") ELSE UNCHANGED stage
  /\ UNCHANGED <<running, listener, serving, sse, telling, stop>> /\ NoNotice

\* Fault: SendMessage in place of SendMessageTimeout.
NeverGivesUp == FALSE

GivesUp == TRUE

TransactTimeout(c) ==
  /\ serving = c /\ GivesUp
  /\ Timeout
  /\ UNCHANGED <<running, listener, stage, serving, sse, telling, stop>> /\ NoNotice

\* The transaction is over: Safe Mode and revert are announced whatever came of them.
Transacted(c) ==
  /\ serving = c /\ stage[c] \in {"apply", "safemode", "revert", "edit"} /\ client.pc = "idle"
  /\ Go(c, IF stage[c] \in {"safemode", "revert"} THEN "notify" ELSE "respond")
  /\ UNCHANGED <<running, listener, serving, sse, telling, stop>> /\ NoNotice /\ ConfigIdle

\* The message window did not answer within two seconds.
SuspendTimeout(c) ==
  /\ stage[c] = "suspend" /\ GivesUp
  /\ Go(c, "respond")
  /\ UNCHANGED <<running, listener, serving, sse, telling, stop>> /\ NoNotice /\ ConfigIdle

Announce(c) ==
  /\ stage[c] = "notify"
  /\ NotifyStateChanged
  /\ Go(c, "respond")
  /\ UNCHANGED <<running, listener, serving, sse, telling, stop>> /\ ConfigIdle

\* The answer is sent, the socket closed and the mutex given back; quit closes the
\* window, which any other way to end the program does too.
Respond(c) ==
  /\ stage[c] = "respond"
  /\ Go(c, "closed") /\ serving' = "nobody"
  /\ UNCHANGED <<running, listener, sse, telling, stop>> /\ NoNotice /\ ConfigIdle

\* The head and a first event have been sent; the socket joins s_sseClients.
Upgrade(c) ==
  /\ stage[c] = "upgrade"
  /\ Go(c, "stream") /\ serving' = "nobody"
  /\ UNCHANGED <<running, listener, sse, telling, stop>> /\ NoNotice /\ ConfigIdle

HandleClient(c) ==
  \/ Receive(c) \/ Lock(c) \/ Transact(c) \/ TransactTimeout(c) \/ Transacted(c)
  \/ SuspendTimeout(c) \/ Announce(c) \/ Respond(c) \/ Upgrade(c)

-----------------------------------------------------------------------------
(* The SSE worker.                                                         *)

\* Fault: one stream is not enough.
HasSeveral == Cardinality(Streams) > 1

HasClients == Streams # {}

SseLoop ==
  /\ sse = "loop"
  /\ sse' = CASE ~running -> "ended" [] running /\ HasClients -> "snapshot"
              [] running /\ ~HasClients -> "loop"
  /\ UNCHANGED <<running, listener, stage, serving, telling, stop>> /\ NoNotice /\ ConfigIdle

SseSnapshot ==
  /\ sse = "snapshot"
  /\ sse' = "label"
  /\ UNCHANGED <<running, listener, stage, serving, telling, stop>> /\ NoNotice /\ ConfigIdle

\* s_stateChanged.exchange(false)
SseLabel ==
  /\ sse = "label"
  /\ sse' = "send"
  /\ changed' = FALSE
  /\ IF changed THEN telling' = owed /\ owed' = {} ELSE UNCHANGED <<telling, owed>>
  /\ UNCHANGED <<running, listener, stage, serving, stop>> /\ ConfigIdle

\* Fault: the flag is cleared once the event is out.
ClearedAfterSend == FALSE

FlagAfterSend == changed

\* Under s_sseClientsMutex; any of the sends may fail.
SseSend ==
  /\ sse = "send"
  /\ sse' = "loop"
  /\ \E broken \in SUBSET Streams :
       /\ stage' = [c \in Conns |-> IF c \in broken THEN "closed" ELSE stage[c]]
       /\ owed' = owed \ broken
  /\ telling' = {} /\ changed' = FlagAfterSend
  /\ UNCHANGED <<running, listener, serving, stop>> /\ ConfigIdle

SseWorker == SseLoop \/ SseSnapshot \/ SseLabel \/ SseSend

-----------------------------------------------------------------------------
(* The listener.                                                           *)

\* Fault: the futures are dropped.
NobodyJoined == TRUE

HandlersEnded == \A c \in Conns : stage[c] \in {"free", "stream", "closed"}

ListenerStops ==
  /\ listener = "accept" /\ ~running
  /\ listener' = "handlers"
  /\ UNCHANGED <<running, stage, serving, sse, telling, stop>> /\ NoNotice /\ ConfigIdle

JoinHandlers ==
  /\ listener = "handlers" /\ HandlersEnded
  /\ listener' = "worker"
  /\ UNCHANGED <<running, stage, serving, sse, telling, stop>> /\ NoNotice /\ ConfigIdle

JoinWorker ==
  /\ listener = "worker" /\ sse = "ended"
  /\ listener' = "streams"
  /\ UNCHANGED <<running, stage, serving, sse, telling, stop>> /\ NoNotice /\ ConfigIdle

CloseStreams ==
  /\ listener = "streams"
  /\ stage' = [c \in Conns |-> IF c \in Streams THEN "closed" ELSE stage[c]]
  /\ owed' = {} /\ telling' = {}
  /\ listener' = "ended"
  /\ UNCHANGED <<running, serving, changed, sse, stop>> /\ ConfigIdle

Listener ==
  ListenerStops \/ JoinHandlers \/ JoinWorker \/ CloseStreams

-----------------------------------------------------------------------------
(* The owner thread.                                                       *)

\* Dispatching messages.  It notifies after each hotkey, toggle, focus change and
\* change of the engine's state, that is at any time.
Pump ==
  /\ stop = "no"
  /\ \/ DispatchBegin \/ DispatchRefused \/ DispatchDone \/ HotkeyApply \/ HotkeySave
     \/ \E p \in Profiles, saves \in BOOLEAN : Hotkey(p, saves)
  /\ UNCHANGED <<running, listener, stage, serving, sse, telling, stop>> /\ NoNotice

OwnerNotifies ==
  /\ stop = "no" /\ owner.pc = "pump"
  /\ NotifyStateChanged
  /\ UNCHANGED <<running, listener, stage, serving, sse, telling, stop>> /\ ConfigIdle

\* WM_TOGGLE_SUSPEND, sent by a handler.
Toggle(c) ==
  /\ stop = "no" /\ owner.pc = "pump" /\ stage[c] = "suspend"
  /\ Go(c, "respond")
  /\ NotifyStateChanged
  /\ UNCHANGED <<running, listener, serving, sse, telling, stop>> /\ ConfigIdle

\* The message loop has ended, whoever asked for it.
StopServer ==
  /\ stop = "no" /\ owner.pc = "pump"
  /\ running' = FALSE /\ stop' = "listener"
  /\ UNCHANGED <<listener, stage, serving, sse, telling>> /\ NoNotice /\ ConfigIdle

\* The listener's thread, then the worker's if the listener did not join it.
StopJoins ==
  /\ \/ stop = "listener" /\ listener = "ended" /\ stop' = "worker"
     \/ stop = "worker" /\ sse = "ended" /\ stop' = "done"
  /\ UNCHANGED <<running, listener, stage, serving, sse, telling>> /\ NoNotice /\ ConfigIdle

LastSave ==
  /\ stop = "done"
  /\ SaveAtTheEnd
  /\ UNCHANGED serverVars

ServerNext ==
  \/ \E c \in Conns : Accept(c) \/ HandleClient(c) \/ Toggle(c)
  \/ SseWorker \/ Listener
  \/ Pump \/ OwnerNotifies \/ StopServer \/ StopJoins \/ LastSave

\* The threads run, and the sockets and SendMessageTimeout time out.
ServerFairness ==
  /\ \A c \in Conns : WF_allVars(HandleClient(c))
  /\ WF_allVars(SseWorker) /\ WF_allVars(Listener) /\ WF_allVars(StopJoins)

ServerSpec == ServerInit /\ [][ServerNext]_allVars /\ ServerFairness

-----------------------------------------------------------------------------
(* Properties.                                                             *)

(* The server is a client of the runtime configuration as that module has  *)
(* it: one transaction at a time, and none when the owner saves for the    *)
(* last time, however the stop comes between the steps of the handlers.    *)
ImplementsConfig == Spec

(* A notice is not lost: while a stream is owed one, the flag that makes   *)
(* the SSE worker tell is set, though the worker clears it between its     *)
(* snapshot and its sends.                                                 *)
AnnouncementPending == owed # {} => changed

(* test_ipc_dashboard.py:99: each open stream is told of each notified     *)
(* change by an event made after it, or is closed.                         *)
EveryStreamHears == \A c \in Conns :
  /\ c \in owed ~> (c \in telling \/ stage[c] # "stream")
  /\ c \in telling ~> c \notin telling

(* StopServer returns, although the handlers it waits for may wait for the *)
(* thread that calls it.                                                   *)
StopReturns == stop = "listener" ~> stop = "done"

(* When it has returned every socket that was accepted has been closed, by *)
(* its handler, the SSE worker or the listener.                            *)
NothingLeftOpen == stop = "done" => \A c \in Conns : stage[c] \in {"free", "closed"}
=============================================================================
