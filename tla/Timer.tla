--------------------------------- MODULE Timer --------------------------------
(***************************************************************************)
(* The timer service (src/core/timing.cpp): a slot per key, a thread that  *)
(* sleeps, then spins until the nearest slot is due, and an expiry queue   *)
(* the owner thread drains when WM_TIMER_EXPIRED reaches it.               *)
(*                                                                         *)
(* Time is relative: every deadline is kept as the ticks left until it,    *)
(* and Tick lowers them all.  Of two overdue deadlines the order is        *)
(* forgotten, so the thread may then pick either.                          *)
(*                                                                         *)
(* One action per critical section or shared access.  s_lifecycleMutex is  *)
(* held over a whole ScheduleTimerUs, whose write of the slot (under       *)
(* s_spinlock), write of s_dirty and SetEvent are three steps the thread   *)
(* can come between.                                                       *)
(***************************************************************************)
EXTENDS Naturals, Sequences, FiniteSets

CONSTANTS
  TimerKeys,  \* keys with a slot
  Ids,        \* timer ids; large enough that one is always unused
  MaxDelay,   \* bound of a timer's duration, in ticks
  MaxQueue,   \* bound: no timer is set while this many callbacks are queued
  Margin,     \* wake margin and spin tail (always equal): closer deadlines are spun for
  Prompt,     \* TRUE: no tick passes while some thread has something to do
  MaxCalls,   \* bound: the client's calls within one tick, when Prompt
  NoSlot, NoId

ASSUME TimerConstants ==
  /\ MaxDelay \in Nat /\ MaxQueue \in Nat /\ Margin \in Nat /\ MaxCalls \in Nat /\ Prompt \in BOOLEAN
  /\ NoSlot \notin TimerKeys /\ NoId \notin Ids

VARIABLES
  slots,    \* s_slots; what an inactive slot keeps is never read
  dirty,    \* s_dirty
  event,    \* the auto-reset wake event is signalled
  running,  \* s_running
  stopping, \* s_stopping
  thread,   \* where the timer thread is
  wakeIn,   \* ticks until its waitable timer is signalled
  spin,     \* its local copy of the slot it spins for, and that slot's key
  queue,    \* s_expiryQueue
  message,  \* a WM_TIMER_EXPIRED is in the owner's message queue
  draining, \* the owner is inside DrainExpiredTimers
  client,   \* the steps left of a ScheduleTimerUs in progress
  calls     \* the client's calls since the last tick, counted when Prompt

vars == <<slots, dirty, event, running, stopping, thread, wakeIn, spin, queue,
          message, draining, client, calls>>

Slot == [active : BOOLEAN, left : 0..MaxDelay, id : Ids \union {NoId}]
Empty == [active |-> FALSE, left |-> 0, id |-> NoId]

ThreadStates == {"none", "scan", "idle", "sleep", "spin", "push", "post", "exit"}

TypeOK ==
  /\ slots \in [TimerKeys -> Slot]
  /\ dirty \in BOOLEAN /\ event \in BOOLEAN /\ running \in BOOLEAN /\ stopping \in BOOLEAN
  /\ thread \in ThreadStates
  /\ wakeIn \in 0..MaxDelay
  /\ spin \in [key : TimerKeys \union {NoSlot}, left : 0..MaxDelay, id : Ids \union {NoId}]
  /\ queue \in Seq(TimerKeys \X Ids)
  /\ message \in BOOLEAN /\ draining \in BOOLEAN
  /\ client \in [at : {"idle", "dirty", "signal"}, wake : BOOLEAN]
  /\ calls \in 0..MaxCalls

NoSpin == [key |-> NoSlot, left |-> 0, id |-> NoId]
ClientIdle == client.at = "idle"

Init ==
  /\ slots = [k \in TimerKeys |-> Empty]
  /\ dirty = FALSE /\ event = FALSE /\ running = FALSE /\ stopping = FALSE
  /\ thread = "none" /\ wakeIn = 0 /\ spin = NoSpin
  /\ queue = <<>> /\ message = FALSE /\ draining = FALSE
  /\ client = [at |-> "idle", wake |-> FALSE] /\ calls = 0

ActiveKeys == {k \in TimerKeys : slots[k].active}

-----------------------------------------------------------------------------
(* Callers: the engine's handlers, and the program's start and end.        *)

\* s_nextTimerId counts up; an id nothing refers to any more may stand for a
\* new one, since ids are only compared.
UnusedIds == Ids \ ({slots[k].id : k \in ActiveKeys} \union {spin.id} \union
                    {queue[i][2] : i \in DOMAIN queue})

\* A client calls from the owner thread, between two of its other calls, and
\* at a finite rate.
Call ==
  /\ ClientIdle
  /\ Prompt => calls < MaxCalls
  /\ calls' = IF Prompt THEN calls + 1 ELSE calls

\* Fault: the sleeping thread is not told of a nearer deadline.
ScheduleWithoutWake(k, delay) ==
  /\ Call /\ running /\ ~stopping /\ Len(queue) < MaxQueue
  /\ \E id \in UnusedIds :
       slots' = [slots EXCEPT ![k] = [active |-> TRUE, left |-> delay, id |-> id]]
  /\ client' = [at |-> "dirty", wake |-> FALSE]
  /\ UNCHANGED <<dirty, event, running, stopping, thread, wakeIn, spin, queue,
                 message, draining>>

\* A call while the service is stopped or stopping returns 0 and does nothing.
ScheduleTimerUs(k, delay) ==
  /\ Call /\ running /\ ~stopping /\ Len(queue) < MaxQueue
  /\ \E id \in UnusedIds :
       slots' = [slots EXCEPT ![k] = [active |-> TRUE, left |-> delay, id |-> id]]
  /\ client' = [at |-> "dirty", wake |-> \A o \in ActiveKeys : delay < slots[o].left]
  /\ UNCHANGED <<dirty, event, running, stopping, thread, wakeIn, spin, queue,
                 message, draining>>

MarkDirty ==
  /\ client.at = "dirty"
  /\ dirty' = TRUE
  /\ client' = [client EXCEPT !.at = "signal"]
  /\ UNCHANGED <<slots, event, running, stopping, thread, wakeIn, spin, queue,
                 message, draining, calls>>

Signal ==
  /\ client.at = "signal"
  /\ event' = (event \/ client.wake)
  /\ client' = [at |-> "idle", wake |-> FALSE]
  /\ UNCHANGED <<slots, dirty, running, stopping, thread, wakeIn, spin, queue,
                 message, draining, calls>>

CancelTimer(k) ==
  /\ Call /\ running /\ ~stopping
  /\ slots' = [slots EXCEPT ![k] = Empty]
  /\ dirty' = TRUE
  /\ UNCHANGED <<event, running, stopping, thread, wakeIn, spin, queue, message,
                 draining, client>>

StartTimerThread ==
  /\ Call /\ ~stopping /\ ~running /\ thread = "none"
  /\ slots' = [k \in TimerKeys |-> Empty]
  /\ dirty' = FALSE /\ queue' = <<>> /\ event' = FALSE
  /\ running' = TRUE /\ thread' = "scan"
  /\ UNCHANGED <<stopping, wakeIn, spin, message, draining, client>>

StopTimerThread ==
  /\ Call /\ ~stopping /\ running /\ ~draining
  /\ stopping' = TRUE /\ running' = FALSE /\ event' = TRUE
  /\ UNCHANGED <<slots, dirty, thread, wakeIn, spin, queue, message, draining, client>>

JoinTimerThread ==
  /\ stopping /\ thread = "exit"
  /\ thread' = "none" /\ queue' = <<>> /\ stopping' = FALSE /\ event' = FALSE
  /\ UNCHANGED <<slots, dirty, running, wakeIn, spin, message, draining, client, calls>>

\* The owner dispatches the message, then takes entries until none is left.
DrainExpiredTimers ==
  /\ message /\ ~draining /\ ~stopping /\ ClientIdle
  /\ message' = FALSE /\ draining' = TRUE
  /\ UNCHANGED <<slots, dirty, event, running, stopping, thread, wakeIn, spin,
                 queue, client, calls>>

TakeExpired ==
  /\ draining /\ ClientIdle
  /\ IF queue = <<>> THEN draining' = FALSE /\ UNCHANGED queue
                     ELSE queue' = Tail(queue) /\ UNCHANGED draining
  /\ UNCHANGED <<slots, dirty, event, running, stopping, thread, wakeIn, spin,
                 message, client, calls>>

-----------------------------------------------------------------------------
(* The timer thread.                                                       *)

Nearest(k) == k \in ActiveKeys /\ \A o \in ActiveKeys : slots[k].left <= slots[o].left

\* Top of the loop, one critical section: forget dirty, pick the nearest slot.
Scan ==
  /\ thread = "scan"
  /\ dirty' = FALSE
  /\ \/ ~running /\ thread' = "exit" /\ UNCHANGED <<wakeIn, spin>>
     \/ running /\ ActiveKeys = {} /\ thread' = "idle" /\ UNCHANGED <<wakeIn, spin>>
     \/ \E k \in TimerKeys :
          /\ running /\ Nearest(k)
          /\ IF slots[k].left > Margin
             THEN thread' = "sleep" /\ wakeIn' = slots[k].left - Margin /\ UNCHANGED spin
             ELSE /\ thread' = "spin" /\ UNCHANGED wakeIn
                  /\ spin' = [key |-> k, left |-> slots[k].left, id |-> slots[k].id]
  /\ UNCHANGED <<slots, event, running, stopping, queue, message, draining, client, calls>>

\* The idle wait ends by the event or after 250 ms, whichever is first.
IdleWake ==
  /\ thread = "idle"
  /\ event' = FALSE
  /\ thread' = IF running THEN "scan" ELSE "exit"
  /\ UNCHANGED <<slots, dirty, running, stopping, wakeIn, spin, queue, message,
                 draining, client, calls>>

\* The waitable timer comes first in the handle array: when both are signalled
\* the event stays signalled.
SleepWake ==
  /\ thread = "sleep"
  /\ \/ wakeIn = 0 /\ UNCHANGED event
     \/ wakeIn # 0 /\ event /\ event' = FALSE
  /\ thread' = "scan" /\ wakeIn' = 0
  /\ UNCHANGED <<slots, dirty, running, stopping, spin, queue, message, draining, client, calls>>

\* Fault: a slot that was set again counts as the one spun for.
DueWithoutId == slots[spin.key].active /\ spin.left = 0

\* The slot spun for is still the one that was copied, and its time has come.
StillDue ==
  /\ slots[spin.key].active /\ slots[spin.key].id = spin.id
  /\ spin.left = 0

\* The spin ends when the time is over or the slots changed; then, in one
\* critical section, the slot fires or the loop starts again.
SpinEnd ==
  /\ thread = "spin" /\ (spin.left = 0 \/ dirty)
  /\ thread' = CASE ~running -> "exit" [] running /\ StillDue -> "push"
                 [] running /\ ~StillDue -> "scan"
  /\ slots' = IF running /\ StillDue THEN [slots EXCEPT ![spin.key] = Empty]
                                     ELSE slots
  /\ spin' = IF running /\ StillDue THEN spin ELSE NoSpin
  /\ UNCHANGED <<dirty, event, running, stopping, wakeIn, queue, message, draining, client, calls>>

Push ==
  /\ thread = "push" /\ thread' = "post"
  /\ queue' = Append(queue, <<spin.key, spin.id>>)
  /\ spin' = NoSpin
  /\ UNCHANGED <<slots, dirty, event, running, stopping, wakeIn, message, draining, client, calls>>

\* Faults: a failed post is not retried; the retry does not look at s_running.
PostLost ==
  /\ thread = "post" /\ thread' = "scan"
  /\ UNCHANGED <<slots, dirty, event, running, stopping, wakeIn, spin, queue,
                 message, draining, client, calls>>
PostForever ==
  /\ thread = "post"
  /\ IF running THEN thread' = "scan" /\ message' = TRUE
                ELSE UNCHANGED <<thread, message>>
  /\ UNCHANGED <<slots, dirty, event, running, stopping, wakeIn, spin, queue,
                 draining, client, calls>>

\* The post is retried until it succeeds or the service is stopped.
Post ==
  /\ thread = "post" /\ thread' = "scan"
  /\ message' = (message \/ running)
  /\ UNCHANGED <<slots, dirty, event, running, stopping, wakeIn, spin, queue,
                 draining, client, calls>>

-----------------------------------------------------------------------------
\* Nobody is between two steps and the thread waits for time to pass.
Quiet ==
  /\ ClientIdle /\ ~draining /\ (message => stopping)
  /\ \/ thread = "none"
     \/ thread = "idle" /\ ~event
     \/ thread = "sleep" /\ ~event /\ wakeIn # 0
     \/ thread = "spin" /\ ~dirty /\ spin.left # 0

Minus1(n) == IF n = 0 THEN 0 ELSE n - 1

Tick ==
  /\ Prompt => Quiet
  /\ slots' = [k \in TimerKeys |-> [slots[k] EXCEPT !.left = Minus1(@)]]
  /\ wakeIn' = Minus1(wakeIn)
  /\ spin' = [spin EXCEPT !.left = Minus1(@)]
  /\ calls' = 0
  /\ UNCHANGED <<dirty, event, running, stopping, thread, queue, message, draining, client>>

ThreadStep == Scan \/ IdleWake \/ SleepWake \/ SpinEnd \/ Push \/ Post
OwnerStep == MarkDirty \/ Signal \/ DrainExpiredTimers \/ TakeExpired \/ JoinTimerThread

Next ==
  \/ \E k \in TimerKeys :
       CancelTimer(k) \/ \E delay \in 1..MaxDelay : ScheduleTimerUs(k, delay)
  \/ StartTimerThread \/ StopTimerThread
  \/ OwnerStep \/ ThreadStep \/ Tick

Spec == Init /\ [][Next]_vars

\* The threads are scheduled, and time does not stand still while it may
\* pass again and again.
Fairness == WF_vars(ThreadStep) /\ WF_vars(OwnerStep) /\ SF_vars(Tick)

FairSpec == Spec /\ Fairness

-----------------------------------------------------------------------------
(* Properties.                                                             *)

InFlight == IF thread = "push" THEN <<<<spin.key, spin.id>>>> ELSE <<>>

\* The timers set: what the slots of a running service hold.
Armed ==
  [k \in TimerKeys |-> IF running /\ slots[k].active
                       THEN {[id |-> slots[k].id, left |-> slots[k].left]} ELSE {}]

\* What went off, in the queue or still in the thread's hands.
Due == queue \o InFlight

OST == INSTANCE OneShotTimers WITH armed <- Armed, due <- Due

(* The service implements one-shot timers: a timer that was cancelled or   *)
(* replaced never goes off, though the thread spins on a copy of its slot. *)
ImplementsOneShotTimers == OST!Spec

(* While every thread runs promptly, time never passes over a timer that   *)
(* is due: the wake event, s_dirty and the sleep's early end leave no gap. *)
OnTime == [][Tick => \A k \in ActiveKeys : running => slots[k].left # 0]_vars

(* What went off reaches the engine, or the service is stopped.            *)
Delivered ==
  \A k \in TimerKeys, id \in Ids :
    LET Queued == \E i \in DOMAIN queue : queue[i] = <<k, id>> IN Queued ~> ~Queued

(* Stopping the service ends: the thread leaves from wherever it is.       *)
StopEnds == stopping ~> ~stopping
=============================================================================
