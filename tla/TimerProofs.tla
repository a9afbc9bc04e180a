------------------------------- MODULE TimerProofs ----------------------------
(***************************************************************************)
(* For any keys, ids, delays and speeds of the threads: the timer service  *)
(* implements one-shot timers, and with prompt threads it oversleeps none. *)
(***************************************************************************)
EXTENDS Timer, SequenceTheorems, TLAPS

\* TypeOK, in parts that are proved one by one.
SlotsType == slots \in [TimerKeys -> Slot]
FlagsType ==
  /\ dirty \in BOOLEAN /\ event \in BOOLEAN /\ running \in BOOLEAN /\ stopping \in BOOLEAN
  /\ message \in BOOLEAN /\ draining \in BOOLEAN
SpinType ==
  spin \in [key : TimerKeys \union {NoSlot}, left : 0..MaxDelay, id : Ids \union {NoId}]
QueueType == queue \in Seq(TimerKeys \X Ids)
ClientType == client \in [at : {"idle", "dirty", "signal"}, wake : BOOLEAN]
CountType == wakeIn \in 0..MaxDelay /\ calls \in 0..MaxCalls /\ thread \in ThreadStates

\* An active slot has the id of a timer.
ActiveHasId == \A k \in TimerKeys : slots[k].active => slots[k].id \in Ids

\* The thread's copy is of a real slot.
CopyIsReal == thread \in {"spin", "push"} => spin.key \in TimerKeys /\ spin.id \in Ids

\* While the slot spun for has the id of the copy it is the slot that was copied, and
\* both have the same time left: what a cancellation or a new timer must break.
CopyIsSlot ==
  thread = "spin" /\ slots[spin.key].active /\ slots[spin.key].id = spin.id =>
    slots[spin.key].left = spin.left

TypesApart ==
  SlotsType /\ FlagsType /\ SpinType /\ QueueType /\ ClientType /\ CountType

TimerInv == TypesApart /\ ActiveHasId /\ CopyIsReal /\ CopyIsSlot

\* What the thread moves from its hands to the queue stays last.
LEMMA AppendIsJoin ==
  ASSUME NEW S, NEW q \in Seq(S), NEW x \in S
  PROVE  Append(q, x) \in Seq(S) /\ Append(q, x) = q \o <<x>> /\ q \o <<>> = q
  OBVIOUS

\* Taking the first entry does not touch what the thread has in its hands.
LEMMA TailOfConcat ==
  ASSUME NEW S, NEW q \in Seq(S), q # <<>>, NEW r \in Seq(S)
  PROVE  Tail(q) \in Seq(S) /\ q \o r # <<>> /\ Tail(q \o r) = Tail(q) \o r
  OBVIOUS

\* A tick lowers what is left, and keeps it in range.
LEMMA Minus1Type ==
  ASSUME NEW n \in 0..MaxDelay
  PROVE  Minus1(n) \in 0..MaxDelay
  BY TimerConstants DEF Minus1

\* What a new timer is: its id is not the one of the copy.
LEMMA NewTimer ==
  ASSUME NEW k \in TimerKeys, NEW delay \in 1..MaxDelay, ScheduleTimerUs(k, delay)
  PROVE  \E id \in Ids :
           /\ id # spin.id
           /\ slots' = [slots EXCEPT ![k] = [active |-> TRUE, left |-> delay, id |-> id]]
  BY DEF ScheduleTimerUs, UnusedIds

-----------------------------------------------------------------------------
(* Types.                                                                  *)

\* Which steps touch the queue, a client's call, the slots and the copy.
LEMMA Touched ==
  ASSUME [Next]_vars
  PROVE  /\ queue' = queue \/ Push \/ TakeExpired \/ StartTimerThread \/ JoinTimerThread
         /\ \/ client' = client \/ MarkDirty \/ Signal
            \/ \E k \in TimerKeys, delay \in 1..MaxDelay : ScheduleTimerUs(k, delay)
         /\ \/ slots' = slots \/ StartTimerThread \/ SpinEnd \/ Tick
            \/ \E k \in TimerKeys : CancelTimer(k)
            \/ \E k \in TimerKeys, delay \in 1..MaxDelay : ScheduleTimerUs(k, delay)
         /\ (spin' = spin /\ thread' = thread) \/ StartTimerThread \/ Scan \/ SpinEnd \/ Tick
            \/ Push \/ (spin' = spin /\ thread' \notin {"spin", "push"})
  BY DEF Next, OwnerStep, ThreadStep, CancelTimer, ScheduleTimerUs, StartTimerThread,
         StopTimerThread, MarkDirty, Signal, DrainExpiredTimers, TakeExpired,
         JoinTimerThread, Scan, IdleWake, SleepWake, SpinEnd, Push, Post, Tick, vars

\* The queue holds keys and ids.
LEMMA QueueTyped ==
  ASSUME TimerInv, [Next]_vars PROVE QueueType'
<1> USE DEF QueueType
<1>0. QueueType /\ CopyIsReal
  BY DEF TimerInv, TypesApart
<1>1. CASE Push
  <2>1. <<spin.key, spin.id>> \in TimerKeys \X Ids
    BY <1>0, <1>1 DEF Push, CopyIsReal
  <2> QED
    BY <1>0, <1>1, <2>1, AppendIsJoin DEF Push
<1>2. CASE TakeExpired
  <2> DEFINE S == TimerKeys \X Ids
  <2>1. queue' = queue \/ (queue # <<>> /\ queue' = Tail(queue))
    BY <1>2 DEF TakeExpired
  <2>2. queue \in Seq(S)
    BY <1>0
  <2> HIDE DEF S
  <2>3. queue' \in Seq(S)
    BY <2>1, <2>2
  <2> QED
    BY <2>3 DEF S
<1>3. CASE StartTimerThread \/ JoinTimerThread
  <2>1. queue' = <<>>
    BY <1>3 DEF StartTimerThread, JoinTimerThread
  <2> QED
    BY <2>1
<1> QED
  BY <1>0, <1>1, <1>2, <1>3, Touched

\* The call in progress is at one of its steps.
LEMMA ClientTyped ==
  ASSUME TimerInv, [Next]_vars PROVE ClientType'
<1> USE DEF ClientType
<1>0. ClientType
  BY DEF TimerInv, TypesApart
<1>1. CASE MarkDirty
  <2>1. client' = [client EXCEPT !.at = "signal"]
    BY <1>1 DEF MarkDirty
  <2> QED
    BY <1>0, <2>1
<1>3. CASE Signal
  <2>1. client' = [at |-> "idle", wake |-> FALSE]
    BY <1>3 DEF Signal
  <2> QED
    BY <2>1
<1>2. ASSUME NEW k \in TimerKeys, NEW delay \in 1..MaxDelay, ScheduleTimerUs(k, delay)
      PROVE  ClientType'
  <2>1. (\A o \in ActiveKeys : delay < slots[o].left) \in BOOLEAN
    OBVIOUS
  <2> HIDE DEF ActiveKeys
  <2> QED
    BY <1>2, <2>1 DEF ScheduleTimerUs
<1> QED
  BY <1>0, <1>1, <1>2, <1>3, Touched

\* A slot is empty or holds a timer.
LEMMA SlotsTyped ==
  ASSUME TimerInv, [Next]_vars PROVE SlotsType' /\ ActiveHasId'
<1> USE DEF TimerInv, TypesApart, SlotsType, ActiveHasId
<1>1. Empty \in Slot /\ ~Empty.active
  BY TimerConstants DEF Empty, Slot
<1>2. ASSUME NEW k \in TimerKeys, NEW delay \in 1..MaxDelay, ScheduleTimerUs(k, delay)
      PROVE  SlotsType' /\ ActiveHasId'
  <2>1. PICK id \in Ids :
          slots' = [slots EXCEPT ![k] = [active |-> TRUE, left |-> delay, id |-> id]]
    BY <1>2, NewTimer
  <2>2. [active |-> TRUE, left |-> delay, id |-> id] \in Slot
    BY TimerConstants DEF Slot
  <2> QED
    BY <2>1, <2>2
<1>3. ASSUME NEW k \in TimerKeys, CancelTimer(k) PROVE SlotsType' /\ ActiveHasId'
  BY <1>1, <1>3 DEF CancelTimer
<1>4. CASE StartTimerThread \/ SpinEnd
  BY <1>1, <1>4 DEF StartTimerThread, SpinEnd
<1>5. CASE Tick
  <2>1. ASSUME NEW k \in TimerKeys
        PROVE  /\ [slots[k] EXCEPT !.left = Minus1(@)] \in Slot
               /\ [slots[k] EXCEPT !.left = Minus1(@)].active = slots[k].active
               /\ [slots[k] EXCEPT !.left = Minus1(@)].id = slots[k].id
    BY Minus1Type DEF Slot
  <2> QED
    BY <1>5, <2>1 DEF Tick
<1> QED
  BY <1>2, <1>3, <1>4, <1>5, Touched

\* The flags, the copy and the counters keep their types.
LEMMA OthersTyped ==
  ASSUME TimerInv, [Next]_vars PROVE FlagsType' /\ SpinType' /\ CountType'
<1> USE DEF TimerInv, TypesApart
<1>1. FlagsType'
  BY DEF ClientType, FlagsType, Next, OwnerStep, ThreadStep, CancelTimer, ScheduleTimerUs,
         StartTimerThread, StopTimerThread, MarkDirty, Signal, DrainExpiredTimers,
         TakeExpired, JoinTimerThread, Scan, IdleWake, SleepWake, SpinEnd, Push, Post, Tick,
         vars
<1>2. SpinType'
  BY TimerConstants, Minus1Type
     DEF SpinType, SlotsType, Slot, NoSpin, Next, OwnerStep, ThreadStep, CancelTimer,
         ScheduleTimerUs, StartTimerThread, StopTimerThread, MarkDirty, Signal,
         DrainExpiredTimers, TakeExpired, JoinTimerThread, Scan, IdleWake, SleepWake,
         SpinEnd, Push, Post, Tick, vars
<1>3. CountType'
  BY TimerConstants, Minus1Type
     DEF CountType, ThreadStates, SlotsType, Slot, Call, Next, OwnerStep, ThreadStep,
         CancelTimer, ScheduleTimerUs, StartTimerThread, StopTimerThread, MarkDirty, Signal,
         DrainExpiredTimers, TakeExpired, JoinTimerThread, Scan, IdleWake, SleepWake,
         SpinEnd, Push, Post, Tick, vars
<1> QED
  BY <1>1, <1>2, <1>3

-----------------------------------------------------------------------------
(* The copy the thread spins for.                                          *)

\* What the thread spins for or pushes was a timer.
LEMMA CopyStaysReal ==
  ASSUME TimerInv, [Next]_vars PROVE CopyIsReal'
<1> USE DEF TimerInv, CopyIsReal
<1>1. CASE Scan
  BY <1>1 DEF Scan, Nearest, ActiveKeys, ActiveHasId
<1>2. CASE SpinEnd
  BY <1>2 DEF SpinEnd
<1>3. CASE StartTimerThread \/ Push
  BY <1>3 DEF StartTimerThread, Push
<1>4. CASE Tick
  BY <1>4 DEF Tick, TypesApart, SpinType
<1> QED
  BY <1>1, <1>2, <1>3, <1>4, Touched

\* Neither cancelling nor replacing leaves a slot that is mistaken for the copy.
LEMMA CopyStaysSlot ==
  ASSUME TimerInv, [Next]_vars PROVE CopyIsSlot'
<1> USE DEF TimerInv, CopyIsSlot
<1>1. CASE Scan
  BY <1>1 DEF Scan
<1>2. CASE StartTimerThread \/ SpinEnd \/ Push
  BY <1>2 DEF StartTimerThread, SpinEnd, Push
<1>3. CASE Tick
  <2> SUFFICES ASSUME thread = "spin", slots'[spin.key].active, slots'[spin.key].id = spin.id
               PROVE  slots'[spin.key].left = spin'.left
    BY <1>3 DEF Tick, TypesApart, SpinType
  <2>1. spin.key \in TimerKeys
    BY DEF CopyIsReal
  <2>2. slots'[spin.key] = [slots[spin.key] EXCEPT !.left = Minus1(@)]
    BY <1>3, <2>1 DEF Tick
  <2>3. slots[spin.key] \in Slot
    BY <2>1 DEF TypesApart, SlotsType
  <2>4. slots[spin.key].left = spin.left
    BY <2>2, <2>3 DEF Slot
  <2> QED
    BY <1>3, <2>2, <2>3, <2>4 DEF Tick, TypesApart, SpinType, Slot
<1>4. ASSUME NEW k \in TimerKeys, NEW delay \in 1..MaxDelay, ScheduleTimerUs(k, delay)
      PROVE  CopyIsSlot'
  <2>1. PICK id \in Ids :
          /\ id # spin.id
          /\ slots' = [slots EXCEPT ![k] = [active |-> TRUE, left |-> delay, id |-> id]]
    BY <1>4, NewTimer
  <2>2. thread' = thread /\ spin' = spin
    BY <1>4 DEF ScheduleTimerUs
  <2>3. CASE spin.key = k
    BY <2>1, <2>2, <2>3 DEF TypesApart, SlotsType
  <2>4. CASE spin.key # k
    BY <2>1, <2>2, <2>4 DEF TypesApart, SlotsType, CopyIsReal
  <2> QED
    BY <2>3, <2>4
<1>5. ASSUME NEW k \in TimerKeys, CancelTimer(k) PROVE CopyIsSlot'
  BY <1>5 DEF CancelTimer, Empty, TypesApart, SlotsType, CopyIsReal
<1> QED
  BY <1>1, <1>2, <1>3, <1>4, <1>5, Touched

\* The service starts idle.
LEMMA TimerStart == Init => TimerInv
<1> SUFFICES ASSUME Init PROVE TimerInv
  OBVIOUS
<1> USE TimerConstants DEF Init
<1>1. SlotsType /\ ActiveHasId
  BY DEF SlotsType, ActiveHasId, Slot, Empty
<1>2. FlagsType
  BY DEF FlagsType
<1>7. CountType
  BY DEF CountType, ThreadStates
<1>3. SpinType
  BY DEF SpinType, NoSpin
<1>4. QueueType
  BY DEF QueueType
<1>5. ClientType
  BY DEF ClientType
<1>6. CopyIsReal /\ CopyIsSlot
  BY DEF CopyIsReal, CopyIsSlot
<1> QED
  BY <1>1, <1>2, <1>3, <1>4, <1>5, <1>6, <1>7 DEF TimerInv, TypesApart

\* The types and what is known of the copy hold throughout.
THEOREM TimerKept == Spec => []TimerInv
<1>1. TimerInv /\ [Next]_vars => TimerInv'
  BY QueueTyped, ClientTyped, SlotsTyped, OthersTyped, CopyStaysReal, CopyStaysSlot
     DEF TimerInv, TypesApart
<1> QED
  BY <1>1, TimerStart, PTL DEF Spec

(* TypeOK, for any keys, ids and delays.                                   *)
THEOREM TimerTypeCorrect == Spec => []TypeOK
<1>1. TypesApart => TypeOK
  BY DEF TypeOK, TypesApart, SlotsType, FlagsType, SpinType, QueueType, ClientType, CountType
<1> QED
  BY <1>1, TimerKept, PTL DEF TimerInv

-----------------------------------------------------------------------------
(* Each step of the service, seen as a step of one-shot timers.            *)

\* Steps that touch neither slots, nor s_running, nor the queue.
LEMMA Stutters ==
  ASSUME TimerInv, UNCHANGED <<slots, running, queue>>, thread # "push", thread' # "push"
  PROVE  UNCHANGED OST!vars
  BY DEF OST!vars, Armed, Due, InFlight

\* Steps that do not move the thread either.
LEMMA StuttersInPlace ==
  ASSUME UNCHANGED <<slots, running, queue, thread, spin>>
  PROVE  UNCHANGED OST!vars
  BY DEF OST!vars, Armed, Due, InFlight

\* Setting a slot arms its timer under an id nothing in the service still has.
LEMMA ScheduleArms ==
  ASSUME TimerInv, NEW k \in TimerKeys, NEW delay \in 1..MaxDelay, ScheduleTimerUs(k, delay)
  PROVE  \E id \in Ids : OST!Arm(k, id, delay)
<1>1. PICK id \in UnusedIds :
        slots' = [slots EXCEPT ![k] = [active |-> TRUE, left |-> delay, id |-> id]]
  BY DEF ScheduleTimerUs
<1>2. Armed' = [Armed EXCEPT ![k] = {[id |-> id, left |-> delay]}]
  BY <1>1 DEF ScheduleTimerUs, Armed, TimerInv, TypesApart, SlotsType, QueueType
<1>3. Due' = Due
  BY DEF ScheduleTimerUs, Due, InFlight
<1>4. id \notin OST!Known
  <2>1. \A j \in TimerKeys : \A t \in Armed[j] : t.id # id
    BY <1>1 DEF Armed, UnusedIds, ActiveKeys
  <2>2. \A i \in DOMAIN Due : Due[i][2] # id
    BY <1>1 DEF Due, InFlight, UnusedIds, TimerInv, TypesApart, QueueType, CopyIsReal
  <2> QED
    BY <2>1, <2>2 DEF OST!Known
<1> QED
  BY <1>1, <1>2, <1>3, <1>4 DEF OST!Arm, UnusedIds

\* Cancelling disarms the timer.
LEMMA CancelDisarms ==
  ASSUME TimerInv, NEW k \in TimerKeys, CancelTimer(k)
  PROVE  OST!Disarm(k)
  BY DEF CancelTimer, OST!Disarm, Armed, Due, InFlight, Empty, TimerInv, TypesApart, SlotsType, QueueType

\* Starting the service finds no timer and drops what an earlier run left queued.
LEMMA StartDrops ==
  ASSUME TimerInv, StartTimerThread
  PROVE  OST!Drop
  BY DEF StartTimerThread, OST!Drop, Armed, Due, InFlight, Empty

\* Stopping the service disarms every timer.
LEMMA StopStops ==
  ASSUME TimerInv, StopTimerThread
  PROVE  OST!Stop
  BY DEF StopTimerThread, OST!Stop, Armed, Due, InFlight

\* Joining the thread drops what went off.
LEMMA JoinDrops ==
  ASSUME TimerInv, JoinTimerThread
  PROVE  OST!Drop
  BY DEF JoinTimerThread, OST!Drop, Armed, Due, InFlight

\* The owner takes the oldest expiry, or finds that there is none.
LEMMA TakeTakes ==
  ASSUME TimerInv, TakeExpired
  PROVE  OST!Take \/ UNCHANGED OST!vars
<1>1. CASE queue = <<>>
  BY <1>1 DEF TakeExpired, OST!vars, Armed, Due, InFlight
<1>2. CASE queue # <<>>
  <2>1. InFlight \in Seq(TimerKeys \X Ids) /\ InFlight' = InFlight
    BY DEF TakeExpired, InFlight, TimerInv, CopyIsReal
  <2>2. queue' = Tail(queue) /\ Armed' = Armed
    BY <1>2 DEF TakeExpired, Armed
  <2>3. Due # <<>> /\ Due' = Tail(Due)
    BY <1>2, <2>1, <2>2, TailOfConcat DEF Due, TimerInv, TypesApart, SlotsType, QueueType
  <2> QED
    BY <2>2, <2>3 DEF OST!Take
<1> QED
  BY <1>1, <1>2

\* The end of a spin is the going off of the timer that was copied, or nothing.
LEMMA SpinEndGoesOff ==
  ASSUME TimerInv, SpinEnd
  PROVE  (\E k \in TimerKeys : OST!GoOff(k)) \/ UNCHANGED OST!vars
<1>1. CASE running /\ StillDue
  <2> DEFINE t == [id |-> slots[spin.key].id, left |-> slots[spin.key].left]
  <2>1. spin.key \in TimerKeys /\ spin.id \in Ids /\ slots[spin.key].left = 0
    BY <1>1 DEF SpinEnd, StillDue, TimerInv, CopyIsReal, CopyIsSlot
  <2>2. Armed[spin.key] = {t} /\ t.left = 0 /\ t.id = spin.id
    BY <1>1, <2>1 DEF Armed, StillDue
  <2>3. Armed' = [Armed EXCEPT ![spin.key] = {}]
    BY <1>1, <2>1 DEF SpinEnd, Armed, Empty, TimerInv, TypesApart, SlotsType, QueueType
  <2>4. Due = queue /\ Due' = Append(queue, <<spin.key, spin.id>>)
    <3>1. thread = "spin" /\ thread' = "push" /\ queue' = queue /\ spin' = spin
      BY <1>1 DEF SpinEnd
    <3>2. queue \in Seq(TimerKeys \X Ids) /\ <<spin.key, spin.id>> \in TimerKeys \X Ids
      BY <2>1 DEF TimerInv, TypesApart, SlotsType, QueueType
    <3> QED
      BY <3>1, <3>2, AppendIsJoin DEF Due, InFlight
  <2> QED
    BY <2>1, <2>2, <2>3, <2>4 DEF OST!GoOff
<1>2. CASE ~(running /\ StillDue)
  BY <1>2, Stutters DEF SpinEnd
<1> QED
  BY <1>1, <1>2

\* What went off moves from the hands of the thread to the queue.
LEMMA PushStutters ==
  ASSUME TimerInv, Push
  PROVE  UNCHANGED OST!vars
<1> DEFINE S == TimerKeys \X Ids
           x == <<spin.key, spin.id>>
<1>1. queue \in Seq(S) /\ x \in S
  BY DEF Push, TimerInv, TypesApart, QueueType, CopyIsReal
<1>2. Due = queue \o <<x>> /\ Due' = queue' \o <<>>
  BY DEF Push, Due, InFlight
<1>3. queue' = Append(queue, x) /\ Armed' = Armed
  BY DEF Push, Armed
<1> HIDE DEF S, x
<1>4. queue' \in Seq(S) /\ queue' = queue \o <<x>>
  BY <1>1, <1>3, AppendIsJoin
<1>5. queue' \o <<>> = queue'
  BY <1>4
<1> QED
  BY <1>2, <1>3, <1>4, <1>5 DEF OST!vars

\* A tick makes every timer older by one.
LEMMA TickTicks ==
  ASSUME TimerInv, Tick
  PROVE  OST!Tick
<1>1. Due' = Due
  BY DEF Tick, Due, InFlight, TimerInv, TypesApart, SlotsType, QueueType
<1>2. ASSUME NEW k \in TimerKeys PROVE Armed'[k] = {OST!Older(t) : t \in Armed[k]}
  <2> DEFINE t == [id |-> slots[k].id, left |-> slots[k].left]
             u == [id |-> slots'[k].id, left |-> slots'[k].left]
  <2>1. slots[k] \in Slot /\ slots'[k] = [slots[k] EXCEPT !.left = Minus1(@)]
    BY DEF Tick, TimerInv, TypesApart, SlotsType
  <2>2. /\ slots'[k].active = slots[k].active /\ slots'[k].id = slots[k].id
        /\ slots'[k].left = Minus1(slots[k].left)
    BY <2>1 DEF Slot
  <2>3. u = OST!Older(t)
    BY <2>2 DEF OST!Older, Minus1
  <2>4. CASE running /\ slots[k].active
    <3>1. Armed[k] = {t} /\ Armed'[k] = {u}
      BY <2>2, <2>4 DEF Armed, Tick
    <3> HIDE DEF t, u
    <3> QED
      BY <2>3, <3>1
  <2>5. CASE ~(running /\ slots[k].active)
    BY <2>2, <2>5 DEF Armed, Tick
  <2> QED
    BY <2>4, <2>5
<1>3. Armed' = [k \in TimerKeys |-> {OST!Older(t) : t \in Armed[k]}]
  BY <1>2 DEF Armed
<1> QED
  BY <1>1, <1>3 DEF OST!Tick

(* ImplementsOneShotTimers, for any number of keys and ids, any delays and *)
(* any speed of the threads (Prompt or not).                               *)
THEOREM TimersAreOneShot == Spec => ImplementsOneShotTimers
<1>1. Init => OST!Init
  BY DEF Init, OST!Init, Armed, Due, InFlight
<1>2. ASSUME TimerInv, [Next]_vars PROVE [OST!Next]_OST!vars
  <2>1. ASSUME NEW k \in TimerKeys, NEW delay \in 1..MaxDelay, ScheduleTimerUs(k, delay)
        PROVE  OST!Next
    BY <1>2, <2>1, ScheduleArms DEF OST!Next
  <2>2. ASSUME NEW k \in TimerKeys, CancelTimer(k) PROVE OST!Next
    BY <1>2, <2>2, CancelDisarms DEF OST!Next
  <2>3. ASSUME StartTimerThread \/ StopTimerThread \/ JoinTimerThread \/ Tick PROVE OST!Next
    BY <1>2, <2>3, StartDrops, StopStops, JoinDrops, TickTicks DEF OST!Next
  <2>4. ASSUME TakeExpired PROVE [OST!Next]_OST!vars
    BY <1>2, <2>4, TakeTakes DEF OST!Next
  <2>5. ASSUME SpinEnd PROVE [OST!Next]_OST!vars
    BY <1>2, <2>5, SpinEndGoesOff DEF OST!Next
  <2>6. ASSUME Push PROVE [OST!Next]_OST!vars
    BY <1>2, <2>6, PushStutters
  <2>7. ASSUME Scan \/ IdleWake \/ SleepWake \/ Post PROVE [OST!Next]_OST!vars
    BY <1>2, <2>7, Stutters DEF Scan, IdleWake, SleepWake, Post
  <2>8. ASSUME MarkDirty \/ Signal \/ DrainExpiredTimers \/ UNCHANGED vars
        PROVE  [OST!Next]_OST!vars
    BY <2>8, StuttersInPlace DEF MarkDirty, Signal, DrainExpiredTimers, vars
  <2> QED
    BY <1>2, <2>1, <2>2, <2>3, <2>4, <2>5, <2>6, <2>7, <2>8 DEF Next, OwnerStep, ThreadStep
<1> QED
  BY <1>1, <1>2, TimerKept, PTL DEF Spec, ImplementsOneShotTimers, OST!Spec

-----------------------------------------------------------------------------
(* Nothing is overslept.                                                   *)

\* What is still to wake the thread, or to end its spin, when a nearer
\* deadline has been set.
WillWake == event \/ (client.at # "idle" /\ client.wake)
WillEndSpin == dirty \/ client.at = "dirty"

\* The thread of a running service waits for the nearest deadline, or it is
\* about to be told of a nearer one.
NotPast(left) == \A k \in ActiveKeys : left <= slots[k].left

WaitsForNearest ==
  /\ stopping => ~running
  /\ running =>
       /\ thread \notin {"none", "exit"}
       /\ thread = "idle" => ActiveKeys = {} \/ WillWake
       /\ thread = "sleep" => NotPast(wakeIn) \/ WillWake
       /\ thread = "spin" => NotPast(spin.left) \/ WillEndSpin

\* A new deadline that is nearer than all others comes with its wake-up.
LEMMA ScheduleWaits ==
  ASSUME TimerInv, WaitsForNearest, NEW k \in TimerKeys, NEW delay \in 1..MaxDelay,
         ScheduleTimerUs(k, delay)
  PROVE  WaitsForNearest'
<1> DEFINE wake == \A o \in ActiveKeys : delay < slots[o].left
<1>1. PICK id \in Ids :
        slots' = [slots EXCEPT ![k] = [active |-> TRUE, left |-> delay, id |-> id]]
  BY NewTimer
<1>2. /\ client.at = "idle" /\ client' = [at |-> "dirty", wake |-> wake]
      /\ UNCHANGED <<dirty, event, running, stopping, thread, wakeIn, spin>>
  BY DEF ScheduleTimerUs, Call, ClientIdle
<1>3. /\ \A o \in TimerKeys : slots[o].left \in Nat
      /\ wakeIn \in Nat /\ delay \in Nat /\ delay # 0 /\ ActiveKeys \subseteq TimerKeys
  BY TimerConstants DEF TimerInv, TypesApart, SlotsType, CountType, Slot, ActiveKeys
<1>4. \A o \in ActiveKeys' : o = k \/ (o \in ActiveKeys /\ slots'[o] = slots[o])
  BY <1>1 DEF ActiveKeys, TimerInv, TypesApart, SlotsType
<1>5. slots'[k].left = delay
  BY <1>1 DEF TimerInv, TypesApart, SlotsType
<1>6. client'.at = "dirty" /\ client'.wake = wake
  BY <1>2
<1>7. ASSUME running, thread = "idle"
      PROVE  WillWake'
  BY <1>2, <1>6, <1>7 DEF WaitsForNearest, WillWake
<1>8. ASSUME running, thread = "sleep"
      PROVE  NotPast(wakeIn)' \/ WillWake'
  <2>1. CASE WillWake \/ wake
    BY <1>2, <1>6, <2>1 DEF WillWake
  <2>2. CASE ~WillWake /\ ~wake
    <3>1. NotPast(wakeIn)
      BY <1>8, <2>2 DEF WaitsForNearest
    <3>2. PICK o \in ActiveKeys : ~(delay < slots[o].left)
      BY <2>2
    <3>3. wakeIn <= delay
      BY <1>3, <3>1, <3>2 DEF NotPast
    <3> QED BY <1>2, <1>4, <1>5, <3>1, <3>3 DEF NotPast
  <2> QED BY <2>1, <2>2
<1> QED BY <1>2, <1>6, <1>7, <1>8 DEF WaitsForNearest, WillEndSpin

\* Fewer timers, or none, leave the thread waiting for no later deadline.
LEMMA FewerWaits ==
  ASSUME WaitsForNearest, ActiveKeys' \subseteq ActiveKeys,
         \A k \in ActiveKeys' : slots'[k] = slots[k],
         UNCHANGED <<running, stopping, thread, wakeIn, spin>>,
         WillWake => WillWake', WillEndSpin => WillEndSpin'
  PROVE  WaitsForNearest'
BY DEF WaitsForNearest, NotPast

\* Time passes for the thread and for the slots alike.
LEMMA TickWaits ==
  ASSUME TimerInv, WaitsForNearest, Tick
  PROVE  WaitsForNearest'
<1>1. /\ \A k \in TimerKeys : slots[k].left \in Nat
      /\ wakeIn \in Nat /\ spin.left \in Nat
  BY TimerConstants DEF TimerInv, TypesApart, SlotsType, SpinType, CountType, Slot
<1>2. /\ wakeIn' = Minus1(wakeIn) /\ spin'.left = Minus1(spin.left)
      /\ UNCHANGED <<dirty, event, running, stopping, thread, client>>
  BY DEF Tick, TimerInv, TypesApart, SpinType
<1>3. \A k \in TimerKeys : slots'[k].left = Minus1(slots[k].left) /\ slots'[k].active = slots[k].active
  BY DEF Tick, TimerInv, TypesApart, SlotsType, Slot
<1>4. ActiveKeys' = ActiveKeys /\ ActiveKeys \subseteq TimerKeys
  BY <1>3 DEF ActiveKeys
<1>5. \A m, n \in Nat : m <= n => Minus1(m) <= Minus1(n)
  BY DEF Minus1
<1>6. /\ NotPast(wakeIn) => NotPast(wakeIn)'
      /\ NotPast(spin.left) => NotPast(spin.left)'
  BY <1>1, <1>2, <1>3, <1>4, <1>5 DEF NotPast
<1> QED BY <1>2, <1>4, <1>6 DEF WaitsForNearest, WillWake, WillEndSpin

\* The thread picks the nearest deadline.
LEMMA ScanWaits ==
  ASSUME TimerInv, WaitsForNearest, Scan
  PROVE  WaitsForNearest'
<1>1. UNCHANGED <<slots, event, running, stopping, client>> /\ ActiveKeys' = ActiveKeys
  BY DEF Scan, ActiveKeys
<1>2. CASE ~running \/ ActiveKeys = {}
  BY <1>1, <1>2 DEF Scan, WaitsForNearest, Nearest
<1>3. CASE running /\ ActiveKeys # {}
  <2>1. PICK k \in TimerKeys :
          /\ Nearest(k)
          /\ IF slots[k].left > Margin
             THEN thread' = "sleep" /\ wakeIn' = slots[k].left - Margin
             ELSE thread' = "spin" /\ spin'.left = slots[k].left
    BY <1>3 DEF Scan
  <2>2. slots[k].left \in Nat /\ Margin \in Nat /\ \A o \in ActiveKeys : slots[o].left \in Nat
    BY TimerConstants DEF TimerInv, TypesApart, SlotsType, Slot, ActiveKeys
  <2> QED BY <1>1, <1>3, <2>1, <2>2 DEF WaitsForNearest, NotPast, Nearest
<1> QED BY <1>2, <1>3

\* Every step keeps it.
LEMMA WaitsKept ==
  ASSUME TimerInv, WaitsForNearest, [Next]_vars
  PROVE  WaitsForNearest'
<1>1. ASSUME NEW k \in TimerKeys, CancelTimer(k)
      PROVE  WaitsForNearest'
  <2>1. \A o \in ActiveKeys' : o \in ActiveKeys /\ slots'[o] = slots[o]
    BY <1>1 DEF CancelTimer, Empty, ActiveKeys, TimerInv, TypesApart, SlotsType
  <2> QED BY <1>1, <2>1, FewerWaits DEF CancelTimer, WillWake, WillEndSpin
<1>2. ASSUME NEW k \in TimerKeys, NEW delay \in 1..MaxDelay, ScheduleTimerUs(k, delay)
      PROVE  WaitsForNearest'
  BY <1>2, ScheduleWaits
<1>3. CASE MarkDirty \/ Signal
  <2>1. client \in [at : {"idle", "dirty", "signal"}, wake : BOOLEAN]
    BY DEF TimerInv, TypesApart, ClientType
  <2>2. CASE MarkDirty
    <3>1. client' = [client EXCEPT !.at = "signal"] /\ dirty' = TRUE
          /\ UNCHANGED <<slots, event, running, stopping, thread, wakeIn, spin>>
      BY <2>2 DEF MarkDirty
    <3>2. client'.at = "signal" /\ client'.wake = client.wake
      BY <2>1, <3>1
    <3> QED BY <3>1, <3>2, FewerWaits DEF WillWake, WillEndSpin, ActiveKeys
  <2>3. CASE Signal
    <3>1. client.at = "signal" /\ event' = (event \/ client.wake)
          /\ UNCHANGED <<slots, dirty, running, stopping, thread, wakeIn, spin>>
      BY <2>3 DEF Signal
    <3>2. (WillWake => WillWake') /\ (WillEndSpin => WillEndSpin')
      BY <3>1 DEF WillWake, WillEndSpin
    <3> QED BY <3>1, <3>2, FewerWaits DEF ActiveKeys
  <2> QED BY <1>3, <2>2, <2>3
<1>4. CASE StartTimerThread \/ StopTimerThread \/ JoinTimerThread
  BY <1>4 DEF StartTimerThread, StopTimerThread, JoinTimerThread, WaitsForNearest
<1>5. CASE DrainExpiredTimers \/ TakeExpired \/ UNCHANGED vars
  <2>1. UNCHANGED <<slots, dirty, event, running, stopping, thread, wakeIn, spin, client>>
    BY <1>5 DEF DrainExpiredTimers, TakeExpired, vars
  <2> QED BY <2>1, FewerWaits DEF ActiveKeys, WillWake, WillEndSpin
<1>6. CASE Scan
  BY <1>6, ScanWaits
<1>7. CASE IdleWake \/ SleepWake \/ SpinEnd \/ Push \/ Post
  BY <1>7 DEF IdleWake, SleepWake, SpinEnd, Push, Post, WaitsForNearest
<1>8. CASE Tick
  BY <1>8, TickWaits
<1> QED
  BY <1>1, <1>2, <1>3, <1>4, <1>5, <1>6, <1>7, <1>8 DEF Next, OwnerStep, ThreadStep

(* timing.cpp, the loop of the timer thread: as long as every thread runs  *)
(* promptly, time never passes over a timer that is due, for any number of *)
(* keys, any delays and margin and any rate of calls.                      *)
THEOREM TimersAreOnTime ==
  ASSUME Prompt
  PROVE  Spec => OnTime
<1>1. Init => WaitsForNearest
  BY DEF Init, WaitsForNearest
<1>2. TimerInv /\ WaitsForNearest /\ [Next]_vars => WaitsForNearest'
  BY WaitsKept
<1>3. WaitsForNearest /\ TimerInv => [Tick => \A k \in ActiveKeys : running => slots[k].left # 0]_vars
  <2> SUFFICES ASSUME WaitsForNearest, TimerInv, Tick, NEW k \in ActiveKeys, running
               PROVE  slots[k].left # 0
    OBVIOUS
  <2>1. Quiet /\ client.at = "idle"
    BY DEF Tick, Quiet, ClientIdle
  <2>2. WillWake => event
    BY <2>1 DEF WillWake
  <2>3. slots[k].left \in Nat /\ wakeIn \in Nat /\ spin.left \in Nat
    BY TimerConstants
    DEF TimerInv, TypesApart, SlotsType, SpinType, CountType, Slot, ActiveKeys
  <2> QED BY <2>1, <2>2, <2>3 DEF Quiet, WaitsForNearest, NotPast, WillEndSpin
<1> QED
  BY <1>1, <1>2, <1>3, TimerKept, PTL DEF Spec, OnTime
=============================================================================
