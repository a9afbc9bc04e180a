------------------------------- MODULE SeqLock --------------------------------
(***************************************************************************)
(* A value of several words that one writer replaces and any thread reads  *)
(* without a lock: TargetPublicationStore (target_platform.h), and with    *)
(* the same protocol PublishEngineState/ReadPublishedEngineState           *)
(* (state_engine.cpp) and PublishLocked/Get (runtime_config.cpp).          *)
(*                                                                         *)
(* Each access to an atomic is a step.  The steps of a thread take effect  *)
(* in program order, which the program's acquire and release operations    *)
(* ask for and which x64 gives; the 32-bit sequence does not wrap.         *)
(***************************************************************************)
EXTENDS Naturals

CONSTANTS
  Words,         \* the atomics the value is spread over
  Values,        \* what is published
  InitialValue,  \* what is published first
  Readers        \* the threads that read

ASSUME SeqLockAssumption == InitialValue \in Values /\ Words # {}

VARIABLES
  sequence,   \* sequence_: odd while a Store is under way
  cell,       \* the value each word belongs to
  store,      \* the Store under way: its value, the words it has not written
  current,    \* history: the value of the last Store that ended
  load        \* per reader, its Load

lockVars == <<sequence, cell, store, current, load>>

\* "seen" is history: the values that were current since the Load began.
Loads ==
  [pc     : {"idle", "sequence", "words", "compare"},
   before : Nat, after : Nat, left : SUBSET Words, copy : [Words -> Values],
   seen   : SUBSET Values]

Store == [busy : BOOLEAN, value : Values, left : SUBSET Words]

LockTypeOK ==
  /\ sequence \in Nat
  /\ cell \in [Words -> Values]
  /\ store \in Store
  /\ current \in Values
  /\ load \in [Readers -> Loads]

LockInit ==
  /\ sequence = 0
  /\ cell = [w \in Words |-> InitialValue]
  /\ store = [busy |-> FALSE, value |-> InitialValue, left |-> {}]
  /\ current = InitialValue
  /\ load = [r \in Readers |->
               [pc |-> "idle", before |-> 0, after |-> 0, left |-> {},
                copy |-> [w \in Words |-> InitialValue], seen |-> {}]]

Odd(n) == n % 2 = 1

-----------------------------------------------------------------------------
(* Store, under writerMutex_.                                              *)

StoreBegin(v) ==
  /\ ~store.busy
  /\ sequence' = sequence + 1
  /\ store' = [busy |-> TRUE, value |-> v, left |-> Words]
  /\ UNCHANGED <<cell, current, load>>

StoreWord(w) ==
  /\ store.busy /\ w \in store.left
  /\ cell' = [cell EXCEPT ![w] = store.value]
  /\ store' = [store EXCEPT !.left = @ \ {w}]
  /\ UNCHANGED <<sequence, current, load>>

StoreEnd ==
  /\ store.busy /\ store.left = {}
  /\ sequence' = sequence + 1
  /\ store' = [store EXCEPT !.busy = FALSE]
  /\ current' = store.value
  /\ load' = [r \in Readers |->
                IF load[r].pc = "idle" THEN load[r]
                ELSE [load[r] EXCEPT !.seen = @ \union {store.value}]]
  /\ UNCHANGED cell

-----------------------------------------------------------------------------
(* Load.                                                                   *)

LoadBegin(r) ==
  /\ load[r].pc = "idle"
  /\ load' = [load EXCEPT ![r].pc = "sequence", ![r].before = 0, ![r].after = 0,
                          ![r].seen = {current}]
  /\ UNCHANGED <<sequence, cell, store, current>>

\* Fault: half of the loop's condition.
RetryIfMoved(before, after) == before # after

\* The condition of Load's do-while loop.
Retry(before, after) == before # after \/ Odd(after)

\* An odd sequence sends "continue" to the condition, where "after" is still
\* what the previous iteration left.
LoadSequence(r) ==
  /\ load[r].pc = "sequence"
  /\ load' = [load EXCEPT
                ![r].before = sequence,
                ![r].left   = IF Odd(sequence) THEN @ ELSE Words,
                ![r].pc     = IF ~Odd(sequence) THEN "words"
                              ELSE IF Retry(sequence, load[r].after) THEN "sequence"
                              ELSE "idle"]
  /\ UNCHANGED <<sequence, cell, store, current>>

LoadWord(r, w) ==
  /\ load[r].pc = "words" /\ w \in load[r].left
  /\ load' = [load EXCEPT ![r].copy[w] = cell[w], ![r].left = @ \ {w},
                          ![r].pc = IF load[r].left = {w} THEN "compare" ELSE @]
  /\ UNCHANGED <<sequence, cell, store, current>>

LoadEnd(r) ==
  /\ load[r].pc = "compare"
  /\ load' = [load EXCEPT ![r].after = sequence,
                          ![r].pc = IF Retry(load[r].before, sequence) THEN "sequence"
                                                                       ELSE "idle"]
  /\ UNCHANGED <<sequence, cell, store, current>>

LockNext ==
  \/ \E v \in Values : StoreBegin(v)
  \/ \E w \in Words : StoreWord(w)
  \/ StoreEnd
  \/ \E r \in Readers : \/ LoadBegin(r) \/ LoadSequence(r) \/ LoadEnd(r)
                        \/ \E w \in Words : LoadWord(r, w)

LockSpec == LockInit /\ [][LockNext]_lockVars

-----------------------------------------------------------------------------
Returned(r) == load[r].pc = "idle" /\ load[r].seen # {}

(* What a Load returns is one published value, in all its words, and one   *)
(* that was current at some moment of the Load: the words of two Stores    *)
(* are never mixed and a Load that follows a Store does not miss it.       *)
NoTornRead ==
  \A r \in Readers :
    Returned(r) => \E v \in load[r].seen : \A w \in Words : load[r].copy[w] = v
=============================================================================
