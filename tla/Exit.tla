---------------------------------- MODULE Exit ---------------------------------
(***************************************************************************)
(* The end of the program (the clean-up of WinMain, main.cpp) for what it  *)
(* leaves on the disk: the log, the forensic log and marco.ini.            *)
(*                                                                         *)
(* While the program runs, the owner thread and the others (HTTP handlers, *)
(* bunny-hop worker, timer, resolver) log, push events and save.  The      *)
(* clean-up waits for the others, one after the other, and only then stops *)
(* the forensic thread and files what is left, saves the configuration     *)
(* once more, and flushes and stops the log sink.  This is the clean-up of *)
(* a build with MARCO_ENABLE_FORENSIC; any other skips the forensic log.   *)
(***************************************************************************)
EXTENDS Logger, Forensics, ConfigFile

CONSTANTS
  Owner,  \* the thread of WinMain
  Others, \* the threads joined before the clean-up of this module
  MaxCalls \* bound: calls before the clean-up

Threads == {Owner} \union Others

ASSUME ExitAssumption ==
  /\ Owner \notin Others
  /\ Writers = Threads /\ Pushers = Threads /\ Savers = Threads
  /\ MaxCalls \in Nat /\ MaxLines > MaxCalls /\ MaxSaves > MaxCalls

VARIABLES
  stage,  \* the owner's place in WinMain
  gone    \* the threads that have ended

exitVars == <<stage, gone, logVars, forensicVars, fileVars>>

LogIdle == UNCHANGED logVars
ForensicsIdle == UNCHANGED forensicVars
FilesIdle == UNCHANGED fileVars

ExitInit ==
  /\ LogInit /\ ForensicsInit /\ FilesInit
  /\ stage = "run" /\ gone = {}

-----------------------------------------------------------------------------
(* Running.                                                                *)

\* A thread makes one call after the other.
Idle(t) == writer[t] = "idle" /\ inserting[t] = 0 /\ save[t].pc = "idle"

MayCall(t) ==
  /\ Idle(t) /\ (t = Owner => stage = "run") /\ (t \in Others => t \notin gone)
  /\ accepted + dropped + pushes + saves < MaxCalls

Call(t) ==
  /\ MayCall(t)
  /\ \/ Write(t) /\ ForensicsIdle /\ FilesIdle
     \/ (PushRefused(t) \/ PushLock(t)) /\ LogIdle /\ FilesIdle
     \/ SaveCalled(t) /\ LogIdle /\ ForensicsIdle
  /\ UNCHANGED <<stage, gone>>

Continue(t) ==
  /\ \/ NotifyOne(t) /\ ForensicsIdle /\ FilesIdle
     \/ PushStore(t) /\ LogIdle /\ FilesIdle
     \/ SaveStep(t) /\ LogIdle /\ ForensicsIdle
  /\ UNCHANGED <<stage, gone>>

LogThread == LogWorker /\ ForensicsIdle /\ FilesIdle /\ UNCHANGED <<stage, gone>>

ForensicsThread == ForensicThread /\ LogIdle /\ FilesIdle /\ UNCHANGED <<stage, gone>>

-----------------------------------------------------------------------------
(* The clean-up.                                                           *)

NothingElse == LogIdle /\ ForensicsIdle /\ FilesIdle

LeaveLoop ==
  /\ stage = "run" /\ Idle(Owner)
  /\ stage' = "join"
  /\ UNCHANGED gone /\ NothingElse

\* A thread that was told to stop looks at that between two calls.
Leave(t) ==
  /\ stage = "join" /\ t \notin gone /\ Idle(t)
  /\ gone' = gone \union {t}
  /\ UNCHANGED stage /\ NothingElse

\* Fault: the clean-up does not wait.
OthersForgotten == TRUE

OthersJoined == gone = Others

StopFiling ==
  /\ stage = "join" /\ OthersJoined
  /\ StopForensics
  /\ stage' = "file"
  /\ UNCHANGED gone /\ LogIdle /\ FilesIdle

FileTheRest ==
  /\ stage = "file"
  /\ LastFlush \/ FlushToFile("owner")
  /\ UNCHANGED <<stage, gone>> /\ LogIdle /\ FilesIdle

FinalSave ==
  /\ stage = "file" /\ flusher["owner"] = "done"
  /\ SaveCalled(Owner)
  /\ stage' = "save"
  /\ UNCHANGED gone /\ LogIdle /\ ForensicsIdle

FlushLog ==
  /\ stage = "save" /\ Idle(Owner)
  /\ FlushBegin
  /\ stage' = "flush"
  /\ UNCHANGED gone /\ ForensicsIdle /\ FilesIdle

LogFlushed ==
  /\ stage = "flush"
  /\ FlushReturn
  /\ stage' = IF Drained THEN "shutdown" ELSE "complain"
  /\ UNCHANGED gone /\ ForensicsIdle /\ FilesIdle

\* "Logger flush timed out"
Complain ==
  /\ stage = "complain"
  /\ Write(Owner)
  /\ stage' = "shutdown"
  /\ UNCHANGED gone /\ ForensicsIdle /\ FilesIdle

StopLog ==
  /\ stage = "shutdown" /\ Idle(Owner)
  /\ ShutdownBegin \/ ShutdownNotify
  /\ UNCHANGED <<stage, gone>> /\ ForensicsIdle /\ FilesIdle

LogJoined ==
  /\ stage = "shutdown"
  /\ ShutdownJoin
  /\ stage' = "exit"
  /\ UNCHANGED gone /\ ForensicsIdle /\ FilesIdle

CleanUp ==
  \/ StopFiling \/ FileTheRest \/ FinalSave \/ FlushLog \/ LogFlushed \/ Complain
  \/ StopLog \/ LogJoined

ExitNext ==
  \/ \E t \in Threads : Call(t) \/ Continue(t)
  \/ LogThread \/ ForensicsThread
  \/ LeaveLoop \/ (\E t \in Others : Leave(t)) \/ CleanUp

\* The threads run; a thread told to stop does not make new calls for ever.
ExitFairness ==
  /\ WF_exitVars(LogThread) /\ WF_exitVars(ForensicsThread) /\ WF_exitVars(CleanUp)
  /\ \A t \in Threads : WF_exitVars(Continue(t))
  /\ \A t \in Others : SF_exitVars(Leave(t))

ExitSpec == ExitInit /\ [][ExitNext]_exitVars /\ ExitFairness

-----------------------------------------------------------------------------
(* Properties.                                                             *)

(* When the program has ended every accepted line is in the log, also when *)
(* Flush gave up; every event pushed is in the forensic log or counted in  *)
(* it as dropped, if that file can be written at all; and marco.ini is     *)
(* what the last save wrote, if it returned true.                          *)
NothingLeftBehind ==
  stage = "exit" =>
    /\ Len(logfile) = accepted
    /\ writable => pushes = Len(report) + reported
    /\ save[Owner].ok => ini = Whole(save[Owner].value)

(* Once the message loop is left the program ends: none of the joins, of   *)
(* the waits of Flush and Shutdown and of the two locks holds it up.       *)
ExitReturns == (stage = "join") ~> (stage = "exit")
=============================================================================
