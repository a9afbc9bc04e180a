----------------------- MODULE TargetResolverProofs -------------------------
(***************************************************************************)
(* No Load of the sequence lock returns half of one publication and half of*)
(* another, for any number of words, values and readers; the target resolver*)
(* uses its publication only through that lock, so what is proved of the   *)
(* lock holds of it; and after Shutdown nothing is published.              *)
(***************************************************************************)
EXTENDS TargetResolver, TLAPS

\* What the sequence says of the words: outside a Store they are all current,
\* inside one those it has written are its own.
StoreInv ==
  /\ Odd(sequence) <=> store.busy
  /\ ~store.busy => \A w \in Words : cell[w] = current
  /\ store.busy  => \A w \in Words \ store.left : cell[w] = store.value

\* A Load that began at the present sequence has copied current words only.
CopyInv(l) ==
  /\ l.pc # "idle" => current \in l.seen
  /\ l.pc = "compare" => l.left = {}
  /\ l.pc \in {"words", "compare"} =>
       /\ ~Odd(l.before) /\ l.before <= sequence
       /\ l.before = sequence => \A w \in Words \ l.left : l.copy[w] = current
  /\ l.pc = "idle" /\ l.seen # {} =>
       \E v \in l.seen : \A w \in Words : l.copy[w] = v

LInv == LockTypeOK /\ StoreInv /\ \A r \in Readers : CopyInv(load[r])

\* The parity of the sequence.
LEMMA Parity == \A n \in Nat : Odd(n + 1) <=> ~Odd(n)
BY DEF Odd

\* Nothing is published but the initial value, and nobody reads.
LEMMA InitLInv == LockInit => LInv
<1> SUFFICES ASSUME LockInit PROVE LInv
  OBVIOUS
<1>1. LockTypeOK
  BY SeqLockAssumption DEF LockInit, LockTypeOK, Store, Loads
<1>2. StoreInv
  BY DEF LockInit, StoreInv, Odd
<1>3. \A r \in Readers : CopyInv(load[r])
  BY DEF LockInit, CopyInv
<1> QED BY <1>1, <1>2, <1>3 DEF LInv

\* A Store moves the sequence past every Load that began before it.
LEMMA StoreBeginLInv ==
  ASSUME LInv, NEW v \in Values, StoreBegin(v) PROVE LInv'
<1> USE DEF LInv
<1>1. LockTypeOK'
  BY DEF StoreBegin, LockTypeOK, Store
<1>2. StoreInv'
  BY Parity DEF StoreBegin, StoreInv, LockTypeOK, Store
<1>3. ASSUME NEW r \in Readers PROVE CopyInv(load[r])'
  <2>1. CopyInv(load[r]) /\ load' = load /\ current' = current
    BY DEF StoreBegin
  <2>2. sequence \in Nat /\ sequence' = sequence + 1 /\ load[r].before \in Nat
    BY DEF StoreBegin, LockTypeOK, Loads
  <2> QED BY <2>1, <2>2 DEF CopyInv
<1> QED BY <1>1, <1>2, <1>3

\* A Load that began at the present, odd sequence does not exist.
LEMMA StoreWordLInv ==
  ASSUME LInv, NEW w \in Words, StoreWord(w) PROVE LInv'
<1> USE DEF LInv
<1>1. LockTypeOK'
  BY DEF StoreWord, LockTypeOK, Store
<1>2. StoreInv'
  BY DEF StoreWord, StoreInv, LockTypeOK, Store
<1>3. ASSUME NEW r \in Readers PROVE CopyInv(load[r])'
  BY DEF StoreWord, CopyInv
<1> QED BY <1>1, <1>2, <1>3

\* When a Store ends its value is current, in every word.
LEMMA StoreEndLInv ==
  ASSUME LInv, StoreEnd PROVE LInv'
<1> USE DEF LInv
<1>1. LockTypeOK'
  <2>0. /\ sequence' = sequence + 1 /\ cell' = cell /\ current' = store.value
        /\ store' = [store EXCEPT !.busy = FALSE]
    BY DEF StoreEnd
  <2>1. /\ sequence' \in Nat
        /\ cell' \in [Words -> Values]
        /\ current' \in Values
        /\ store' \in Store
    <3>1. sequence \in Nat /\ cell \in [Words -> Values] /\ store \in Store
      BY DEF LockTypeOK
    <3>2. store.value \in Values /\ [store EXCEPT !.busy = FALSE] \in Store
      BY <3>1 DEF Store
    <3> QED BY <2>0, <3>1, <3>2
  <2>2. ASSUME NEW r \in Readers
        PROVE  (IF load[r].pc = "idle" THEN load[r]
                ELSE [load[r] EXCEPT !.seen = @ \union {store.value}]) \in Loads
    BY DEF LockTypeOK, Store, Loads
  <2>3. load' \in [Readers -> Loads]
    BY <2>2 DEF StoreEnd
  <2> QED BY <2>1, <2>3 DEF LockTypeOK
<1>2. StoreInv'
  BY Parity DEF StoreEnd, StoreInv, LockTypeOK, Store
<1>3. ASSUME NEW r \in Readers PROVE CopyInv(load[r])'
  <2>1. /\ CopyInv(load[r]) /\ load[r] \in Loads
        /\ sequence \in Nat /\ sequence' = sequence + 1 /\ current' = store.value
    BY DEF StoreEnd, LockTypeOK
  <2>2. CASE load[r].pc = "idle"
    <3>1. load'[r] = load[r]
      BY <2>2 DEF StoreEnd
    <3> QED BY <2>1, <2>2, <3>1 DEF CopyInv
  <2>3. CASE load[r].pc # "idle"
    <3>1. load'[r] = [load[r] EXCEPT !.seen = @ \union {store.value}]
      BY <2>3 DEF StoreEnd
    <3> QED BY <2>1, <2>3, <3>1 DEF CopyInv, Loads
  <2> QED BY <2>2, <2>3
<1> QED BY <1>1, <1>2, <1>3

\* The steps of a Load.
LEMMA LoadLInv ==
  ASSUME LInv, NEW r \in Readers,
         LoadBegin(r) \/ LoadSequence(r) \/ LoadEnd(r) \/ \E w \in Words : LoadWord(r, w)
  PROVE  LInv'
<1> USE DEF LInv
<1>0. LockTypeOK /\ load[r] \in Loads /\ CopyInv(load[r])
  BY DEF LockTypeOK
<1>1. ASSUME NEW l \in Loads, UNCHANGED <<sequence, cell, store, current>>,
             load' = [load EXCEPT ![r] = l], CopyInv(l)
      PROVE  LInv'
  <2>1. LockTypeOK'
    BY <1>1 DEF LockTypeOK
  <2>2. StoreInv'
    BY <1>1 DEF StoreInv
  <2>3. ASSUME NEW q \in Readers PROVE CopyInv(load[q])'
    <3>1. load'[q] = IF q = r THEN l ELSE load[q]
      BY <1>1 DEF LockTypeOK
    <3>2. CopyInv(load'[q])
      BY <1>1, <3>1
    <3> QED BY <1>1, <3>2 DEF CopyInv
  <2> QED BY <2>1, <2>2, <2>3
<1>2. CASE LoadBegin(r)
  <2> DEFINE l == [load[r] EXCEPT !.pc = "sequence", !.before = 0, !.after = 0,
                                  !.seen = {current}]
  <2>1. l \in Loads /\ CopyInv(l)
    BY <1>0 DEF Loads, CopyInv, LockTypeOK
  <2>2. load' = [load EXCEPT ![r] = l] /\ UNCHANGED <<sequence, cell, store, current>>
    BY <1>2 DEF LoadBegin
  <2> QED BY <1>1, <2>1, <2>2
<1>3. CASE LoadSequence(r)
  <2> DEFINE l == [load[r] EXCEPT
                     !.before = sequence,
                     !.left   = IF Odd(sequence) THEN @ ELSE Words,
                     !.pc     = IF ~Odd(sequence) THEN "words"
                                ELSE IF Retry(sequence, load[r].after) THEN "sequence"
                                ELSE "idle"]
  <2>1. Odd(sequence) => Retry(sequence, load[r].after)
    BY DEF Retry
  <2>2. l \in Loads /\ CopyInv(l)
    <3>1. CASE Odd(sequence)
      <4>1. l = [load[r] EXCEPT !.before = sequence, !.pc = "sequence"]
        BY <1>0, <1>3, <2>1, <3>1 DEF LoadSequence, Loads
      <4> QED BY <1>0, <1>3, <4>1 DEF LoadSequence, Loads, CopyInv, LockTypeOK
    <3>2. CASE ~Odd(sequence)
      <4>1. l = [load[r] EXCEPT !.before = sequence, !.left = Words, !.pc = "words"]
        BY <3>2
      <4> QED BY <1>0, <1>3, <3>2, <4>1 DEF LoadSequence, Loads, CopyInv, LockTypeOK
    <3> QED BY <3>1, <3>2
  <2>3. load' = [load EXCEPT ![r] = l] /\ UNCHANGED <<sequence, cell, store, current>>
    BY <1>3 DEF LoadSequence
  <2> QED BY <1>1, <2>2, <2>3
<1>4. CASE LoadEnd(r)
  <2> DEFINE l == [load[r] EXCEPT
                     !.after = sequence,
                     !.pc = IF Retry(load[r].before, sequence) THEN "sequence" ELSE "idle"]
  <2>1. ~Retry(load[r].before, sequence) =>
          /\ load[r].before = sequence
          /\ current \in load[r].seen
          /\ \A w \in Words : load[r].copy[w] = current
    BY <1>0, <1>4 DEF LoadEnd, Retry, CopyInv
  <2>2. l \in Loads /\ CopyInv(l)
    BY <1>0, <1>4, <2>1 DEF LoadEnd, Loads, CopyInv, LockTypeOK
  <2>3. load' = [load EXCEPT ![r] = l] /\ UNCHANGED <<sequence, cell, store, current>>
    BY <1>4 DEF LoadEnd
  <2> QED BY <1>1, <2>2, <2>3
<1>5. ASSUME NEW w \in Words, LoadWord(r, w) PROVE LInv'
  <2> DEFINE l == [load[r] EXCEPT !.copy[w] = cell[w], !.left = @ \ {w},
                                  !.pc = IF load[r].left = {w} THEN "compare" ELSE @]
  <2>1. l \in Loads
    BY <1>0, <1>5 DEF LoadWord, Loads, LockTypeOK
  <2>2. load[r].before = sequence => cell[w] = current
    BY <1>0, <1>5 DEF LoadWord, CopyInv, StoreInv
  <2>3. CopyInv(l)
    BY <1>0, <1>5, <2>2 DEF LoadWord, Loads, CopyInv
  <2>4. load' = [load EXCEPT ![r] = l] /\ UNCHANGED <<sequence, cell, store, current>>
    BY <1>5 DEF LoadWord
  <2> QED BY <1>1, <2>1, <2>3, <2>4
<1> QED BY <1>2, <1>3, <1>4, <1>5

\* Any step of the lock, or none.
LEMMA LockInvariance == LockSpec => []LInv
<1>1. LInv /\ UNCHANGED lockVars => LInv'
  BY DEF LInv, lockVars, LockTypeOK, StoreInv, CopyInv
<1>2. LInv /\ [LockNext]_lockVars => LInv'
  BY <1>1, StoreBeginLInv, StoreWordLInv, StoreEndLInv, LoadLInv DEF LockNext
<1> QED BY InitLInv, <1>2, PTL DEF LockSpec

(* A Load returns one published value, whole, and one that was current     *)
(* while it ran.                                                           *)
THEOREM LockReadsWhole == LockSpec => []NoTornRead
<1>1. LInv => NoTornRead
  BY DEF LInv, CopyInv, NoTornRead, Returned
<1> QED BY LockInvariance, <1>1, PTL

-----------------------------------------------------------------------------
(* The resolver, the owner and Shutdown use the publication only through   *)
(* the sequence lock: every step of theirs is one of its steps or leaves   *)
(* it alone.                                                               *)
THEOREM ResolverUsesLock == Spec => LockSpec
<1>1. Init => LockInit
  BY DEF Init
<1>2. ASSUME [Next]_vars PROVE [LockNext]_lockVars
  <2> USE <1>2
  <2>1. \A id : Profile(id) \in Values
    BY ResolverAssumption DEF Profile
  <2>2. ASSUME PublishBegin \/ ClearBegin PROVE \E v \in Values : StoreBegin(v)
    BY <2>1, <2>2, SeqLockAssumption, ResolverAssumption DEF PublishBegin, ClearBegin
  <2>3. ASSUME PublishWord \/ ClearWord PROVE \E w \in Words : StoreWord(w)
    BY <2>3 DEF PublishWord, ClearWord
  <2>4. ASSUME PublishEnd \/ ClearEnd PROVE StoreEnd
    BY <2>4 DEF PublishEnd, ClearEnd
  <2>5. ASSUME RefreshBegin \/ RefreshLoad
        PROVE  \E r \in Readers : \/ LoadBegin(r) \/ LoadSequence(r) \/ LoadEnd(r)
                                 \/ \E w \in Words : LoadWord(r, w)
    BY <2>5, ResolverAssumption DEF RefreshBegin, RefreshLoad, Load
  <2>6. ASSUME \/ \E w \in Identity : Focus(w)
               \/ WinEventProc \/ Unhook \/ InstallSample \/ InstallPoll \/ ShutdownBegin
               \/ \E ready \in BOOLEAN : InstallHook(ready)
               \/ Take \/ Exit \/ FirstCheck \/ Lookup \/ SecondCheck \/ RunningCheck
               \/ Notify \/ RefreshEnd \/ Join \/ UNCHANGED vars
        PROVE  UNCHANGED lockVars
    BY <2>6 DEF Focus, WinEventProc, Unhook, InstallSample, InstallHook, InstallPoll,
                ShutdownBegin, Take, Exit, FirstCheck, Lookup, SecondCheck, RunningCheck,
                Notify, RefreshEnd, Join, vars
  <2> QED BY <2>2, <2>3, <2>4, <2>5, <2>6 DEF Next, Resolve, OwnerStep, LockNext
<1> QED BY <1>1, <1>2, PTL DEF Spec, LockSpec

(* So no thread of the program sees half a target.                         *)
THEOREM ResolverReadsWhole == Spec => []NoTornRead
BY LockReadsWhole, ResolverUsesLock, PTL
-----------------------------------------------------------------------------
(* Types, and shutdown.                                                    *)

\* The request queue never outgrows its array.
LEMMA EnqueueType ==
  ASSUME NEW q \in Seq(Identity), Len(q) <= QueueSize, NEW id \in Identity
  PROVE  Enqueue(q, id) \in Seq(Identity) /\ Len(Enqueue(q, id)) <= QueueSize
<1> QueueSize \in Nat \ {0}
  BY QueueAssumption
<1>1. CASE q # <<>> /\ q[Len(q)] = id
  BY <1>1 DEF Enqueue
<1>2. CASE ~(q # <<>> /\ q[Len(q)] = id) /\ Len(q) = QueueSize
  <2>1. Tail(q) \in Seq(Identity) /\ Len(Tail(q)) = QueueSize - 1
    BY <1>2
  <2>2. Enqueue(q, id) = Append(Tail(q), id)
    BY <1>2 DEF Enqueue
  <2> QED BY <2>1, <2>2
<1>3. CASE ~(q # <<>> /\ q[Len(q)] = id) /\ Len(q) # QueueSize
  <2>1. Enqueue(q, id) = Append(q, id)
    BY <1>3 DEF Enqueue
  <2> QED BY <1>3, <2>1
<1> QED BY <1>1, <1>2, <1>3

\* The empty queue.
LEMMA EmptySeq == <<>> \in Seq(Identity) /\ Len(<<>>) = 0
OBVIOUS

(* Every variable keeps its type; the queue keeps to its size.             *)
THEOREM ResolverTypeCorrect == Spec => []ResolverTypeOK
<1>1. Spec => []LockTypeOK
  <2>1. LInv => LockTypeOK
    BY DEF LInv
  <2> QED BY <2>1, LockInvariance, ResolverUsesLock, PTL
<1>2. Init /\ LockTypeOK => ResolverTypeOK
  <2>2. NoTarget \in Identity /\ QueueSize \in Nat \ {0} /\ MaxMoves \in Nat
    BY ResolverAssumption, QueueAssumption DEF Identity
  <2> SUFFICES ASSUME Init, LockTypeOK PROVE ResolverTypeOK
    OBVIOUS
  <2>3. /\ foreground \in Identity /\ seen \in Identity
        /\ hooked \in BOOLEAN /\ running \in BOOLEAN
        /\ refresh \in BOOLEAN /\ wasActive \in BOOLEAN
    BY <2>2, Zenon DEF Init
  <2>6. moves \in 0..MaxMoves
    BY <2>2 DEF Init
  <2>4. events \in Seq(Identity)
    BY EmptySeq DEF Init
  <2>5. queue \in Seq(Identity) /\ Len(queue) <= QueueSize
    BY <2>2, EmptySeq DEF Init
  <2> QED BY <2>2, <2>3, <2>4, <2>5, <2>6 DEF Init, ResolverTypeOK
<1>3. ResolverTypeOK /\ LockTypeOK' /\ [Next]_vars => ResolverTypeOK'
  <2> SUFFICES ASSUME ResolverTypeOK, LockTypeOK', [Next]_vars PROVE ResolverTypeOK'
    OBVIOUS
  <2> USE DEF ResolverTypeOK
  <2>0. QueueSize \in Nat \ {0} /\ MaxMoves \in Nat /\ NoTarget \in Identity
    BY ResolverAssumption, QueueAssumption DEF Identity
  <2>1. CASE \E w \in Identity : Focus(w)
    BY <2>0, <2>1 DEF Focus
  <2>2. CASE WinEventProc
    <3>1. Head(events) \in Identity /\ Tail(events) \in Seq(Identity)
      BY <2>2 DEF WinEventProc
    <3>2. queue' \in Seq(Identity) /\ Len(queue') <= QueueSize
      BY <2>2, <3>1, EnqueueType DEF WinEventProc, Request
    <3> QED BY <2>2, <3>1, <3>2 DEF WinEventProc
  <2>3. CASE Unhook
    BY <2>0, <2>3, EmptySeq DEF Unhook
  <2>4. CASE InstallSample \/ InstallPoll \/ \E ready \in BOOLEAN : InstallHook(ready)
    <3>1. CASE InstallSample
      BY <2>0, <3>1 DEF InstallSample
    <3>2. CASE \E ready \in BOOLEAN : InstallHook(ready)
      BY <3>2 DEF InstallHook
    <3>3. CASE InstallPoll
      <4>1. queue' \in Seq(Identity) /\ Len(queue') <= QueueSize
        BY <3>3, EnqueueType DEF InstallPoll, Request
      <4> QED BY <3>3, <4>1 DEF InstallPoll, desk
    <3> QED BY <2>4, <3>1, <3>2, <3>3
  <2>5. CASE Take
    <3>1. /\ Head(queue) \in Identity
          /\ Tail(queue) \in Seq(Identity) /\ Len(Tail(queue)) <= QueueSize
      BY <2>0, <2>5 DEF Take
    <3> QED BY <2>5, <3>1 DEF Take, desk
  <2>6. CASE Exit \/ FirstCheck \/ Lookup \/ SecondCheck \/ RunningCheck \/ Notify
    BY <2>6 DEF Exit, FirstCheck, Lookup, SecondCheck, RunningCheck, Notify,
                ResolverGoes, ResolverOnly, desk
  <2>7. CASE PublishBegin \/ PublishWord \/ PublishEnd
    BY <2>7 DEF PublishBegin, PublishWord, PublishEnd, ResolverGoes, ResolverOnly, desk
  <2>8. CASE RefreshBegin \/ RefreshLoad \/ RefreshEnd
    <3>1. CASE RefreshBegin
      BY <3>1 DEF RefreshBegin, OwnerOnly, desk
    <3>2. CASE RefreshLoad
      BY <3>2 DEF RefreshLoad, OwnerOnly, desk
    <3>3. CASE RefreshEnd
      <4>1. wasActive' \in BOOLEAN
        BY <3>3 DEF RefreshEnd
      <4>2. UNCHANGED <<desk, seen, queue, resolver, running, refresh>>
        BY <3>3 DEF RefreshEnd
      <4>3. owner' = [owner EXCEPT !.pc = "pump"]
        BY <3>3 DEF RefreshEnd
      <4> QED BY <4>1, <4>2, <4>3 DEF desk
    <3> QED BY <2>8, <3>1, <3>2, <3>3
  <2>9. CASE ShutdownBegin
    <3>1. queue' \in Seq(Identity) /\ Len(queue') <= QueueSize
      BY <2>0, <2>9, EmptySeq DEF ShutdownBegin
    <3>2. running' \in BOOLEAN /\ owner' = [owner EXCEPT !.pc = "join"]
      BY <2>9 DEF ShutdownBegin
    <3> QED BY <2>9, <3>1, <3>2 DEF ShutdownBegin, desk
  <2>10. CASE Join \/ ClearBegin \/ ClearWord \/ ClearEnd
    BY <2>10 DEF Join, ClearBegin, ClearWord, ClearEnd, OwnerOnly, desk
  <2>11. CASE UNCHANGED vars
    BY <2>11 DEF vars, desk
  <2> QED BY <2>1, <2>2, <2>3, <2>4, <2>5, <2>6, <2>7, <2>8, <2>9, <2>10, <2>11
      DEF Next, Resolve, OwnerStep
<1> QED BY <1>1, <1>2, <1>3, PTL DEF Spec

\* Who may be storing, and that nobody is once the owner has joined.
StopInv ==
  /\ store.busy <=> resolver.pc = "storing" \/ owner.pc = "clearing"
  /\ owner.pc \in {"clear", "clearing", "down"} => resolver.pc = "exited"
  /\ owner.pc = "clearing" => store.value = NoTarget
  /\ owner.pc = "down" => current = NoTarget

\* The owner clears the publication after the resolver has left, so that the
\* only Store that can end afterwards is its own.
LEMMA StopInvariance == Spec => []StopInv
<1>1. Init => StopInv
  BY DEF Init, LockInit, StopInv
<1>2. StopInv /\ ResolverTypeOK /\ [Next]_vars => StopInv'
  <2> SUFFICES ASSUME StopInv, ResolverTypeOK, [Next]_vars PROVE StopInv'
    OBVIOUS
  <2> USE DEF StopInv
  <2>0. store \in Store
    BY DEF ResolverTypeOK, LockTypeOK
  <2> USE <2>0 DEF ResolverTypeOK, Store
  <2>1. CASE \/ (\E w \in Identity : Focus(w)) \/ WinEventProc \/ Unhook \/ InstallSample
             \/ InstallPoll \/ \E ready \in BOOLEAN : InstallHook(ready)
    BY <2>1 DEF Focus, WinEventProc, Unhook, InstallSample, InstallHook, InstallPoll, lockVars
  <2>2. CASE Take \/ Exit \/ FirstCheck \/ Lookup \/ SecondCheck \/ RunningCheck \/ Notify
    BY <2>2 DEF Take, Exit, FirstCheck, Lookup, SecondCheck, RunningCheck, Notify,
                ResolverGoes, ResolverOnly, lockVars
  <2>3. CASE PublishBegin
    BY <2>3 DEF PublishBegin, ResolverGoes, ResolverOnly, StoreBegin
  <2>4. CASE PublishWord
    BY <2>4 DEF PublishWord, ResolverOnly, StoreWord
  <2>5. CASE PublishEnd
    BY <2>5 DEF PublishEnd, ResolverGoes, ResolverOnly, StoreEnd
  <2>6. CASE RefreshBegin \/ RefreshLoad \/ RefreshEnd
    <3>1. UNCHANGED <<store, current, resolver>>
      BY <2>6 DEF RefreshBegin, RefreshLoad, RefreshEnd, OwnerOnly, Load, LoadBegin,
                  LoadSequence, LoadWord, LoadEnd, lockVars
    <3>2. owner'.pc \in {"pump", "load"} /\ owner.pc \in {"pump", "load"}
      BY <2>6 DEF RefreshBegin, RefreshLoad, RefreshEnd
    <3> QED BY <3>1, <3>2
  <2>7. CASE ShutdownBegin \/ Join
    BY <2>7 DEF ShutdownBegin, Join, OwnerOnly, lockVars
  <2>8. CASE ClearBegin
    BY <2>8 DEF ClearBegin, OwnerOnly, StoreBegin
  <2>9. CASE ClearWord
    BY <2>9 DEF ClearWord, OwnerOnly, StoreWord
  <2>10. CASE ClearEnd
    BY <2>10 DEF ClearEnd, OwnerOnly, StoreEnd
  <2>11. CASE UNCHANGED vars
    BY <2>11 DEF vars, lockVars
  <2> QED BY <2>1, <2>2, <2>3, <2>4, <2>5, <2>6, <2>7, <2>8, <2>9, <2>10, <2>11
      DEF Next, Resolve, OwnerStep
<1> QED BY <1>1, <1>2, ResolverTypeCorrect, PTL DEF Spec

(* After Shutdown no target is published and no Store is under way.        *)
THEOREM ShutdownClears == Spec => []StoppedPublishesNothing
<1>1. StopInv => StoppedPublishesNothing
  BY DEF StopInv, StoppedPublishesNothing
<1> QED BY StopInvariance, <1>1, PTL
=============================================================================
