------------------------------- MODULE Forensics ------------------------------
(***************************************************************************)
(* The ring of forensic events and the thread that files them              *)
(* (ForensicRingBuffer in telemetry.h; telemetry.cpp).                     *)
(*                                                                         *)
(* Whoever pushes must not wait: it tries the lock once and counts the     *)
(* event as dropped when somebody else holds it.  A full ring drops its    *)
(* oldest event.  FlushToFile tries the same lock once, copies what is new *)
(* under it, and writes the copy and the number of events dropped after    *)
(* giving it back.  It is called by a thread every second or at a request, *)
(* and by the owner after that thread has been joined.                     *)
(*                                                                         *)
(* An event is its number in the order of the calls of Push.  The requests *)
(* only make the thread wake earlier, which it may do at any time here.    *)
(*                                                                         *)
(* All of it exists only in builds with MARCO_ENABLE_FORENSIC.             *)
(***************************************************************************)
EXTENDS Naturals, Sequences

CONSTANTS
  Pushers,    \* the threads that push
  RingSize,   \* SIZE
  MaxPushes   \* bound: calls of Push

Flushers == {"thread", "owner"}

ASSUME ForensicsAssumption ==
  /\ RingSize \in Nat \ {0} /\ MaxPushes \in Nat
  /\ Pushers \intersect (Flushers \union {"nobody"}) = {}

VARIABLES
  ring,      \* buffer
  head,      \* head
  flushed,   \* flushed
  lost,      \* dropped, the counter
  holder,    \* who holds the lock
  inserting, \* pusher -> the event it holds the lock for, 0 when none
  pushes,    \* history: calls of Push
  watching,  \* s_forensicRunning
  flusher,   \* flusher -> its place in the loop and in FlushToFile
  copy,      \* flusher -> what it copied and has not yet written
  report,    \* events in the log file
  reported,  \* events the log file says were dropped
  writable   \* whether the log file can be opened

forensicVars == <<ring, head, flushed, lost, holder, inserting, pushes, watching, flusher,
                  copy, report, reported, writable>>

NoCopy == [events |-> <<>>, lost |-> 0]

ForensicsInit ==
  /\ ring = [i \in 0..(RingSize - 1) |-> 0] /\ head = 0 /\ flushed = 0 /\ lost = 0
  /\ holder = "nobody"
  /\ inserting = [t \in Pushers |-> 0] /\ pushes = 0
  /\ watching = TRUE
  /\ flusher = [f \in Flushers |-> IF f = "thread" THEN "check" ELSE "none"]
  /\ copy = [f \in Flushers |-> NoCopy]
  /\ report = <<>> /\ reported = 0
  /\ writable \in BOOLEAN

-----------------------------------------------------------------------------
(* Push.                                                                   *)

\* Somebody else holds the lock.
PushRefused(t) ==
  /\ inserting[t] = 0 /\ pushes < MaxPushes /\ holder # "nobody"
  /\ pushes' = pushes + 1 /\ lost' = lost + 1
  /\ UNCHANGED <<ring, head, flushed, holder, inserting, watching, flusher, copy, report,
                 reported, writable>>

PushLock(t) ==
  /\ inserting[t] = 0 /\ pushes < MaxPushes /\ holder = "nobody"
  /\ holder' = t
  /\ pushes' = pushes + 1 /\ inserting' = [inserting EXCEPT ![t] = pushes + 1]
  /\ UNCHANGED <<ring, head, flushed, lost, watching, flusher, copy, report, reported,
                 writable>>

\* Fault: the events a full ring gives up are not counted.
OverflowUncounted(h) == 0

\* The events given up when the head is at h.
Overflow(h) == IF h - flushed > RingSize THEN (h - RingSize) - flushed ELSE 0

PushStore(t) ==
  /\ inserting[t] # 0
  /\ ring' = [ring EXCEPT ![head % RingSize] = inserting[t]]
  /\ head' = head + 1
  /\ lost' = lost + Overflow(head + 1)
  /\ flushed' = IF head + 1 - flushed > RingSize THEN head + 1 - RingSize ELSE flushed
  /\ holder' = "nobody"
  /\ inserting' = [inserting EXCEPT ![t] = 0]
  /\ UNCHANGED <<pushes, watching, flusher, copy, report, reported, writable>>

-----------------------------------------------------------------------------
(* FlushToFile.                                                            *)

FlushEnd(f) == IF f = "thread" THEN "check" ELSE "done"

\* The file cannot be opened, or somebody holds the lock.
FlushGivesUp(f) ==
  /\ flusher[f] = "flush" /\ (~writable \/ holder # "nobody")
  /\ flusher' = [flusher EXCEPT ![f] = FlushEnd(f)]
  /\ UNCHANGED <<ring, head, flushed, lost, holder, inserting, pushes, watching, copy,
                 report, reported, writable>>

FlushLock(f) ==
  /\ flusher[f] = "flush" /\ writable /\ holder = "nobody"
  /\ holder' = f
  /\ flusher' = [flusher EXCEPT ![f] = "copy"]
  /\ UNCHANGED <<ring, head, flushed, lost, inserting, pushes, watching, copy, report,
                 reported, writable>>

\* PushStore keeps head - flushed within the ring, so that nothing more is skipped here.
Snapshot == [i \in 1..(head - flushed) |-> ring[(flushed + (i - 1)) % RingSize]]

FlushCopy(f) ==
  /\ flusher[f] = "copy"
  /\ copy' = [copy EXCEPT ![f] = [events |-> Snapshot, lost |-> lost]]
  /\ flushed' = head /\ lost' = 0
  /\ holder' = "nobody"
  /\ flusher' = [flusher EXCEPT ![f] = "write"]
  /\ UNCHANGED <<ring, head, inserting, pushes, watching, report, reported, writable>>

FlushWrite(f) ==
  /\ flusher[f] = "write"
  /\ report' = report \o copy[f].events
  /\ reported' = reported + copy[f].lost
  /\ copy' = [copy EXCEPT ![f] = NoCopy]
  /\ flusher' = [flusher EXCEPT ![f] = FlushEnd(f)]
  /\ UNCHANGED <<ring, head, flushed, lost, holder, inserting, pushes, watching, writable>>

FlushToFile(f) == FlushGivesUp(f) \/ FlushLock(f) \/ FlushCopy(f) \/ FlushWrite(f)

-----------------------------------------------------------------------------
(* The thread of InitForensics, and ShutdownForensics.                     *)

\* The condition of the loop; a stop that came during a flush is seen here.
ThreadCheck ==
  /\ flusher["thread"] = "check"
  /\ flusher' = [flusher EXCEPT !["thread"] = IF watching THEN "wait" ELSE "ended"]
  /\ UNCHANGED <<ring, head, flushed, lost, holder, inserting, pushes, watching, copy,
                 report, reported, writable>>

\* wait_for ends at a notification or after a second.
ThreadWake ==
  /\ flusher["thread"] = "wait"
  /\ flusher' = [flusher EXCEPT !["thread"] = IF watching THEN "flush" ELSE "ended"]
  /\ UNCHANGED <<ring, head, flushed, lost, holder, inserting, pushes, watching, copy,
                 report, reported, writable>>

StopForensics ==
  /\ watching
  /\ watching' = FALSE
  /\ UNCHANGED <<ring, head, flushed, lost, holder, inserting, pushes, flusher, copy,
                 report, reported, writable>>

ThreadJoined == flusher["thread"] = "ended"

LastFlush ==
  /\ ~watching /\ flusher["owner"] = "none" /\ ThreadJoined
  /\ flusher' = [flusher EXCEPT !["owner"] = "flush"]
  /\ UNCHANGED <<ring, head, flushed, lost, holder, inserting, pushes, watching, copy,
                 report, reported, writable>>

ForensicThread == ThreadCheck \/ ThreadWake \/ FlushToFile("thread")

ForensicsNext ==
  \/ ForensicThread \/ StopForensics \/ LastFlush \/ FlushToFile("owner")
  \/ \E t \in Pushers : PushRefused(t) \/ PushLock(t) \/ PushStore(t)

ForensicsSpec == ForensicsInit /\ [][ForensicsNext]_forensicVars

-----------------------------------------------------------------------------
(* Properties.                                                             *)

\* The event that has the lock and is not yet in the ring.
BeingStored == IF \E t \in Pushers : inserting[t] # 0 THEN 1 ELSE 0

\* What a flusher has still to write, events and dropped ones.
Copied(f) == Len(copy[f].events) + copy[f].lost

\* The events pushed and not yet in the file.
Underway ==
  (head - flushed) + lost + BeingStored + Copied("thread") + Copied("owner")

(* MARCO_KNOWLEDGE_BASE.md:108: pushing never waits, and gives up events   *)
(* instead.  None vanishes: every call of Push is in the file, in the      *)
(* ring, with a flusher, or counted as dropped, exactly once, whatever     *)
(* overflows, collides on the lock or cannot be flushed.                   *)
EveryEventCounted == pushes = Len(report) + reported + Underway
=============================================================================
