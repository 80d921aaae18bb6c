---------------------------- MODULE RotatingLog ----------------------------
(***************************************************************************)
(* The log file of an unattended agent (internal/logging/logging.go).      *)
(*                                                                         *)
(* A Write holds the mutex from beginning to end, so one record is under   *)
(* way at a time, and an action is one system call of it: outside the      *)
(* process somebody may take the files away in between, or keep them open, *)
(* the disk may be full, and the process may die.  Lengths stand for       *)
(* records; the file of an open handle cannot be removed, as on Windows.   *)
(***************************************************************************)
EXTENDS Naturals

CONSTANTS
  LogMax,           \* where the file is rolled over
  RecordSizes,      \* the lengths of the records
  MaxLogFaults      \* bound: system calls that fail, files taken away

ASSUME LogAssumption ==
  /\ LogMax \in Nat \ {0}
  /\ RecordSizes \subseteq 1 .. LogMax
  /\ MaxLogFaults \in Nat

VARIABLES
  logAt,            \* "off": no process; "idle"; or a system call of Write
  record,           \* the length of the record Write was given
  file,             \* rotating.file: nil, open, or closed behind its back
  size,             \* rotating.size
  present,          \* there is a file at the path
  live, rolled      \* the lengths of the file at the path and of path.1

(* What the properties need to remember. *)
VARIABLES
  newest,           \* the file that got the last byte written
  unseen,           \* a Stat failed on a file that was not empty
  broken,           \* a Close or an open of rollOver failed in this process
  logFaults

logFileVars == <<present, live, rolled, newest>>
logHistoryVars == <<unseen, broken, logFaults>>

logVars == <<logAt, record, file, size, logFileVars, logHistoryVars>>

-----------------------------------------------------------------------------
(* Mutant of Overflows: the limit is looked at when it is too late.        *)
OverflowsLater(n) == size > LogMax

Overflows(n) == size + n > LogMax

Fault == logFaults < MaxLogFaults /\ logFaults' = logFaults + 1

(* Nothing is there before the first run. *)
LogInit ==
  /\ logAt = "off" /\ record = 0
  /\ file = "nil" /\ size = 0
  /\ present = FALSE /\ live = 0 /\ rolled = 0
  /\ newest = "none"
  /\ unseen = FALSE /\ broken = FALSE /\ logFaults = 0

(* Mutant of SizeFound: a new file starts from the length of the last one. *)
SizeFoundKept == IF logAt = "off" THEN live ELSE size

(* The length a file is opened with. *)
SizeFound == live

(* open: the file is made or appended to, from the length Stat finds in it.*)
Opens ==
  /\ file' = "open"
  /\ present' = TRUE
  /\ \/ size' = SizeFound /\ UNCHANGED <<unseen, logFaults>>
     \/ Fault /\ size' = 0 /\ unseen' = (unseen \/ live > 0)

(* newRotating, when the process starts; without a log it does not.        *)
LogStart ==
  /\ logAt = "off"
  /\ Opens
  /\ logAt' = "idle"
  /\ broken' = FALSE
  /\ UNCHANGED <<record, live, rolled, newest>>

(* Write: nowhere to write to is an error, and the record is gone.         *)
LogWrite(n) ==
  /\ logAt = "idle"
  /\ file # "nil"
  /\ record' = n
  /\ logAt' = IF Overflows(n) THEN "close" ELSE "append"
  /\ UNCHANGED <<file, size, logFileVars, logHistoryVars>>

(* Mutant of WriteReturns: the record is kept for the next call.           *)
WriteReturnsFull == logAt' = "idle" /\ UNCHANGED record

(* The call returns, with or without an error. *)
WriteReturns == logAt' = "idle" /\ record' = 0

(* rollOver closes the file first. *)
LogClose ==
  /\ logAt = "close"
  /\ file = "open"
  /\ file' = "nil"
  /\ logAt' = "rename"
  /\ UNCHANGED <<record, size, logFileVars, logHistoryVars>>

(* A Close that fails has closed the handle all the same, and Close of a   *)
(* closed one fails: the handle stays where it is.                         *)
LogCloseFails ==
  /\ logAt = "close"
  /\ file' = "closed"
  /\ IF file = "open" THEN Fault ELSE UNCHANGED logFaults
  /\ broken' = TRUE
  /\ WriteReturns
  /\ UNCHANGED <<size, logFileVars, unseen>>

LogRename ==
  /\ logAt = "rename"
  /\ present
  /\ rolled' = live
  /\ present' = FALSE /\ live' = 0
  /\ newest' = CASE newest = "live" -> "rolled"
                 [] newest = "rolled" -> "lost"
                 [] OTHER -> newest
  /\ logAt' = "open"
  /\ UNCHANGED <<record, file, size, logHistoryVars>>

(* Somebody took the file away meanwhile: os.IsNotExist. *)
LogRenameNothing ==
  /\ logAt = "rename"
  /\ ~present
  /\ logAt' = "open"
  /\ UNCHANGED <<record, file, size, logFileVars, logHistoryVars>>

(* Mutant of AfterRename: without a new file there is no old one either.   *)
AfterRenameNothing == "idle"

(* The original is opened again when the rename fails. *)
AfterRename == "reopen"

(* Somebody has the file open, or may not rename it. *)
LogRenameFails ==
  /\ logAt = "rename"
  /\ Fault
  /\ logAt' = AfterRename
  /\ record' = IF AfterRename = "idle" THEN 0 ELSE record
  /\ UNCHANGED <<file, size, logFileVars, unseen, broken>>

LogOpen ==
  /\ logAt \in {"open", "reopen"}
  /\ Opens
  /\ IF logAt = "open"
     THEN logAt' = "append" /\ UNCHANGED record
     ELSE WriteReturns
  /\ UNCHANGED <<live, rolled, newest, broken>>

LogOpenFails ==
  /\ logAt \in {"open", "reopen"}
  /\ Fault
  /\ broken' = TRUE
  /\ WriteReturns
  /\ UNCHANGED <<file, size, logFileVars, unseen>>

(* The record is appended, or as much of it as fits on the disk.           *)
LogAppend ==
  /\ logAt = "append"
  /\ file = "open"
  /\ \E written \in 0 .. record :
       /\ IF written < record THEN Fault ELSE UNCHANGED logFaults
       /\ live' = live + written
       /\ size' = size + written
       /\ newest' = IF written > 0 THEN "live" ELSE newest
  /\ WriteReturns
  /\ UNCHANGED <<file, present, rolled, unseen, broken>>

(* The handle is closed: an error. *)
LogAppendFails ==
  /\ logAt = "append"
  /\ file = "closed"
  /\ WriteReturns
  /\ UNCHANGED <<file, size, logFileVars, logHistoryVars>>

(* Close, at the end of the process. *)
LogEnd ==
  /\ logAt = "idle"
  /\ logAt' = "off"
  /\ file' = "nil" /\ size' = 0
  /\ UNCHANGED <<record, logFileVars, logHistoryVars>>

(* The process dies, between any two system calls. *)
LogDies ==
  /\ logAt # "off"
  /\ logAt' = "off" /\ record' = 0
  /\ file' = "nil" /\ size' = 0
  /\ UNCHANGED <<logFileVars, logHistoryVars>>

(* Somebody removes a file, which ends what we know of it. *)
LogTaken ==
  /\ Fault
  /\ \/ /\ present /\ file # "open"
        /\ present' = FALSE /\ live' = 0
        /\ newest' = IF newest = "live" THEN "none" ELSE newest
        /\ UNCHANGED rolled
     \/ /\ rolled > 0
        /\ rolled' = 0
        /\ newest' = IF newest = "rolled" THEN "none" ELSE newest
        /\ UNCHANGED <<present, live>>
  /\ UNCHANGED <<logAt, record, file, size, unseen, broken>>

(* One system call of a Write that is under way. *)
LogStep ==
  \/ LogClose
  \/ LogCloseFails
  \/ LogRename
  \/ LogRenameNothing
  \/ LogRenameFails
  \/ LogOpen
  \/ LogOpenFails
  \/ LogAppend
  \/ LogAppendFails

LogNext ==
  \/ LogStart
  \/ \E n \in RecordSizes : LogWrite(n)
  \/ LogStep
  \/ LogEnd
  \/ LogDies
  \/ LogTaken

LogSpec == LogInit /\ [][LogNext]_logVars
-----------------------------------------------------------------------------
(* Typing: a record is in hand exactly while a Write is under way.         *)
LogTypeOK ==
  /\ logAt \in {"off", "idle", "close", "rename", "open", "reopen", "append"}
  /\ record \in RecordSizes \cup {0}
  /\ record = 0 <=> logAt \in {"off", "idle"}
  /\ file \in {"nil", "open", "closed"}
  /\ size \in Nat /\ live \in Nat /\ rolled \in Nat
  /\ present \in BOOLEAN
  /\ newest \in {"none", "live", "rolled", "lost"}
  /\ unseen \in BOOLEAN /\ broken \in BOOLEAN
  /\ logFaults \in Nat

(* One generation is kept, so the footprint is bounded at twice the limit  *)
(* whatever happens (logging.go:21-22): renames that fail, records cut     *)
(* short, restarts, files taken away - unless the length of a file that is *)
(* picked up could not be read.                                            *)
FootprintBounded == ~unseen => live <= LogMax /\ rolled <= LogMax

(* A rotation never overwrites the newest lines: until the next ones are   *)
(* written they are in one of the two files.                               *)
NewestKept == newest # "lost"

(* A rename that fails leaves a usable file behind (logging.go:139-141),   *)
(* and so does everything else but a Close or an open that fails: these    *)
(* leave a closed handle or none, and no later write tries again.          *)
RenameLeavesAFile == logAt = "idle" /\ ~broken => file = "open"
=============================================================================
