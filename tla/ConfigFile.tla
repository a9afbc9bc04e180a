------------------------------- MODULE ConfigFile ------------------------------
(***************************************************************************)
(* How marco.ini is written (config_io.cpp).  Save writes every key of the *)
(* configuration to marco.ini.tmp, flushes that file and puts it in the    *)
(* place of marco.ini, all under s_saveMutex, on the owner thread and on   *)
(* those of HTTP clients.  Each call of the system may fail; the program   *)
(* may be killed between any two of them, and what the files hold then is  *)
(* what the next run finds.                                                *)
(*                                                                         *)
(* A file is a function from the numbers of the keys it has to their       *)
(* values, the empty one when it does not exist.  A configuration has one  *)
(* value for all its keys: the number of the call that saves it.           *)
(***************************************************************************)
EXTENDS Naturals

CONSTANTS
  Savers,   \* the threads that save
  KeyCount, \* keys of a configuration
  MaxSaves  \* bound: calls of Save

ASSUME ConfigFileAssumption == KeyCount \in Nat \ {0} /\ MaxSaves \in Nat /\ "nobody" \notin Savers

VARIABLES
  ini,          \* marco.ini
  temp,         \* marco.ini.tmp
  saving,       \* who holds s_saveMutex
  save,         \* saver -> its place in Save, the value it saves, what Save returned last
  writeFailed,  \* s_writeFailed
  nextKey,      \* the key to write next
  saves         \* calls of Save

fileVars == <<ini, temp, saving, save, writeFailed, nextKey, saves>>

Absent == [k \in {} |-> 0]

Whole(v) == [k \in 1..KeyCount |-> v]

\* What a run that ended or was killed may have left; 0 is what it saved.
LeftOver == {[k \in 1..n |-> 0] : n \in 0..KeyCount}

FilesInit ==
  /\ ini \in {Absent, Whole(0)} /\ temp \in LeftOver
  /\ saving = "nobody"
  /\ save = [t \in Savers |-> [pc |-> "idle", value |-> 0, ok |-> TRUE]]
  /\ writeFailed = FALSE /\ nextKey = 1 /\ saves = 0

-----------------------------------------------------------------------------
(* Save.                                                                   *)

SaveCalled(t) ==
  /\ save[t].pc = "idle" /\ saves < MaxSaves
  /\ saves' = saves + 1
  /\ save' = [save EXCEPT ![t].pc = "lock", ![t].value = saves + 1]
  /\ UNCHANGED <<ini, temp, saving, writeFailed, nextKey>>

\* Fault: no mutex.
MutexIgnored == TRUE

MutexFree == saving = "nobody"

\* Nobody looks whether the file of an earlier attempt could be deleted.
SaveBegin(t) ==
  /\ save[t].pc = "lock" /\ MutexFree
  /\ saving' = t
  /\ temp' \in {Absent, temp}
  /\ writeFailed' = FALSE /\ nextKey' = 1
  /\ save' = [save EXCEPT ![t].pc = "write"]
  /\ UNCHANGED <<ini, saves>>

\* The temporary file with one more key; a key it has from before is overwritten.
WithKey(k, v) ==
  [j \in DOMAIN temp \union {k} |-> IF j = k THEN v ELSE temp[j]]

SaveKey(t) ==
  /\ save[t].pc = "write" /\ nextKey <= KeyCount
  /\ nextKey' = nextKey + 1
  /\ \/ temp' = WithKey(nextKey, save[t].value) /\ UNCHANGED writeFailed
     \/ writeFailed' = TRUE /\ UNCHANGED temp
  /\ UNCHANGED <<ini, saving, save, saves>>

\* The temporary file is opened and flushed.
SaveFlush(t) ==
  /\ save[t].pc = "write" /\ nextKey > KeyCount
  /\ writeFailed' \in {writeFailed, TRUE}
  /\ save' = [save EXCEPT ![t].pc = "replace"]
  /\ UNCHANGED <<ini, temp, saving, nextKey, saves>>

MayReplace == ~writeFailed

Return(t, ok) ==
  /\ saving' = "nobody"
  /\ save' = [save EXCEPT ![t].pc = "idle", ![t].ok = ok]

Replace(t) ==
  /\ save[t].pc = "replace" /\ MayReplace
  /\ ini' = temp /\ temp' = Absent
  /\ Return(t, TRUE)
  /\ UNCHANGED <<writeFailed, nextKey, saves>>

\* MoveFileEx and ReplaceFile leave both files as they were; but ReplaceFile, when it
\* fails to rename the new file, has already removed the old one, as no backup is named.
ReplaceFails(t) ==
  /\ save[t].pc = "replace"
  /\ ini' = ini \/ (~writeFailed /\ ini' = Absent)
  /\ save' = [save EXCEPT ![t].pc = "clean"]
  /\ UNCHANGED <<temp, saving, writeFailed, nextKey, saves>>

SaveClean(t) ==
  /\ save[t].pc = "clean"
  /\ temp' \in {Absent, temp}
  /\ Return(t, FALSE)
  /\ UNCHANGED <<ini, writeFailed, nextKey, saves>>

SaveStep(t) ==
  \/ SaveBegin(t) \/ SaveKey(t) \/ SaveFlush(t) \/ Replace(t) \/ ReplaceFails(t)
  \/ SaveClean(t)

FilesNext == \E t \in Savers : SaveCalled(t) \/ SaveStep(t)

FilesSpec == FilesInit /\ [][FilesNext]_fileVars

-----------------------------------------------------------------------------
(* Properties.                                                             *)

(* test_config_io_atomic.cpp:60: whenever the program is read, killed or   *)
(* ended, marco.ini is missing or is one whole configuration that some     *)
(* call saved: never half of one, nor parts of two savers'.                *)
NeverHalfWritten == ini = Absent \/ \E v \in 0..saves : ini = Whole(v)

(* Once there is a configuration on the disk there always is one.  Checked *)
(* by no run: it does not hold when ReplaceFile fails after removing       *)
(* marco.ini, since Save then deletes the temporary file too.              *)
AlwaysOneLeft == [][ini # Absent => ini' # Absent]_fileVars
=============================================================================
