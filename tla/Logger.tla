--------------------------------- MODULE Logger --------------------------------
(***************************************************************************)
(* The asynchronous log sink (debug_logger.cpp).  Any thread hands a line  *)
(* over under s_logMutex; one worker takes all there is, writes and        *)
(* flushes it outside the mutex, and says so.  Flush waits, for a second   *)
(* at most, until nothing is on its way.  Shutdown closes the intake and   *)
(* joins the worker.                                                       *)
(*                                                                         *)
(* A line is its number in the order of acceptance.  A worker that waits   *)
(* on s_logCv goes on only when it is notified; who notifies does so after *)
(* giving the mutex back.                                                  *)
(***************************************************************************)
EXTENDS Naturals, Sequences

CONSTANTS
  Writers,    \* the threads that log
  MaxQueued,  \* kMaxQueuedMessages
  MaxLines    \* bound: calls of Write

ASSUME LoggerAssumption == MaxQueued \in Nat \ {0} /\ MaxLines \in Nat

VARIABLES
  accepting,  \* s_accepting and s_running, which are set and cleared together
  queue,      \* s_logQueue
  taken,      \* localQueue of the worker; s_inFlight is its length
  logfile,    \* what has been written and flushed
  accepted,   \* s_accepted
  completed,  \* s_completed
  dropped,    \* s_dropped
  logger,     \* the worker
  writer,     \* thread -> whether it has still to notify the worker
  flush,      \* the call of Flush: its place, its target and its result
  closing     \* the call of Shutdown

logVars == <<accepting, queue, taken, logfile, accepted, completed, dropped, logger,
             writer, flush, closing>>

NoFlush == [pc |-> "none", target |-> 0, ok |-> FALSE]

LogInit ==
  /\ accepting = TRUE
  /\ queue = <<>> /\ taken = <<>> /\ logfile = <<>>
  /\ accepted = 0 /\ completed = 0 /\ dropped = 0
  /\ logger = "check"
  /\ writer = [t \in Writers |-> "idle"]
  /\ flush = NoFlush
  /\ closing = "open"

-----------------------------------------------------------------------------
(* The threads that log.                                                   *)

Notified == IF logger = "asleep" THEN "check" ELSE logger

NoRoom == Len(queue) >= MaxQueued

Write(t) ==
  /\ writer[t] = "idle" /\ accepted + dropped < MaxLines
  /\ IF ~accepting \/ NoRoom
     THEN /\ dropped' = dropped + 1
          /\ UNCHANGED <<queue, accepted, writer>>
     ELSE /\ queue' = Append(queue, accepted + 1)
          /\ accepted' = accepted + 1
          /\ writer' = [writer EXCEPT ![t] = "notify"]
          /\ UNCHANGED dropped
  /\ UNCHANGED <<accepting, taken, logfile, completed, logger, flush, closing>>

NotifyOne(t) ==
  /\ writer[t] = "notify"
  /\ writer' = [writer EXCEPT ![t] = "idle"]
  /\ logger' = Notified
  /\ UNCHANGED <<accepting, queue, taken, logfile, accepted, completed, dropped, flush,
                 closing>>

-----------------------------------------------------------------------------
(* The worker.                                                             *)

Sleep ==
  /\ logger = "check" /\ accepting /\ queue = <<>>
  /\ logger' = "asleep"
  /\ UNCHANGED <<accepting, queue, taken, logfile, accepted, completed, dropped, writer,
                 flush, closing>>

\* Fault: the queue is copied instead of swapped.
QueueKept == queue

QueueAfterSwap == <<>>

Take ==
  /\ logger = "check" /\ queue # <<>>
  /\ taken' = queue /\ queue' = QueueAfterSwap
  /\ logger' = "write"
  /\ UNCHANGED <<accepting, logfile, accepted, completed, dropped, writer, flush, closing>>

\* fprintf of every line and fflush.
WriteOut ==
  /\ logger = "write"
  /\ logfile' = logfile \o taken
  /\ logger' = "complete"
  /\ UNCHANGED <<accepting, queue, taken, accepted, completed, dropped, writer, flush,
                 closing>>

Complete ==
  /\ logger = "complete"
  /\ completed' = completed + Len(taken) /\ taken' = <<>>
  /\ logger' = "check"
  /\ UNCHANGED <<accepting, queue, logfile, accepted, dropped, writer, flush, closing>>

WorkerExit ==
  /\ logger = "check" /\ ~accepting /\ queue = <<>>
  /\ logger' = "exit"
  /\ UNCHANGED <<accepting, queue, taken, logfile, accepted, completed, dropped, writer,
                 flush, closing>>

LogWorker == Sleep \/ Take \/ WriteOut \/ Complete \/ WorkerExit

-----------------------------------------------------------------------------
(* Flush and Shutdown, called by the owner thread.                         *)

FlushBegin ==
  /\ flush.pc = "none"
  /\ flush' = [pc |-> "waiting", target |-> accepted, ok |-> FALSE]
  /\ logger' = Notified
  /\ UNCHANGED <<accepting, queue, taken, logfile, accepted, completed, dropped, writer,
                 closing>>

\* Fault: what the worker holds is taken for written.
DrainedWhenTaken == queue = <<>>

Drained == completed >= flush.target /\ queue = <<>> /\ taken = <<>>

\* wait_for returns the predicate, at a notification or after a second.
FlushReturn ==
  /\ flush.pc = "waiting"
  /\ flush' = [flush EXCEPT !.pc = "done", !.ok = Drained]
  /\ UNCHANGED <<accepting, queue, taken, logfile, accepted, completed, dropped, logger,
                 writer, closing>>

ShutdownBegin ==
  /\ closing = "open"
  /\ accepting' = FALSE
  /\ closing' = "notify"
  /\ UNCHANGED <<queue, taken, logfile, accepted, completed, dropped, logger, writer, flush>>

\* Fault: nobody wakes the worker.
WokenByNobody == logger

WokenByShutdown == Notified

ShutdownNotify ==
  /\ closing = "notify"
  /\ logger' = WokenByShutdown
  /\ closing' = "join"
  /\ UNCHANGED <<accepting, queue, taken, logfile, accepted, completed, dropped, writer,
                 flush>>

\* The file is closed.
ShutdownJoin ==
  /\ closing = "join" /\ logger = "exit"
  /\ closing' = "closed"
  /\ UNCHANGED <<accepting, queue, taken, logfile, accepted, completed, dropped, logger,
                 writer, flush>>

LogNext ==
  \/ LogWorker \/ FlushBegin \/ FlushReturn
  \/ ShutdownBegin \/ ShutdownNotify \/ ShutdownJoin
  \/ \E t \in Writers : Write(t) \/ NotifyOne(t)

LogSpec == LogInit /\ [][LogNext]_logVars

-----------------------------------------------------------------------------
(* Properties.                                                             *)

\* What the worker has taken and not yet written.
InHand == IF logger = "write" THEN taken ELSE <<>>

(* Every accepted line is in the file, with the worker or in the queue,    *)
(* once and in the order of acceptance: nothing is lost, doubled or        *)
(* overtaken between the queue, the swap and the file.                     *)
LogInOrder == logfile \o InHand \o queue = [i \in 1..accepted |-> i]

(* debug_logger.h:44: Flush waits "for every accepted entry to be written  *)
(* and flushed".  When it says it did, every line accepted before the call *)
(* is in the file, although other threads go on logging.                   *)
FlushMeansWritten == flush.pc = "done" /\ flush.ok => Len(logfile) >= flush.target
=============================================================================
