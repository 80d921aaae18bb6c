---------------------------- MODULE WindowsAgent ----------------------------
(***************************************************************************)
(* The whole process of the agent under the Windows service manager        *)
(* (cmd/.../main.go: runCommand): WindowsService and its work, which       *)
(* probes with an EchoPool under the context that a stop cancels and       *)
(* writes what it has to say to a RotatingLog.                             *)
(*                                                                         *)
(* runCommand opens the log before it meets the manager and closes it when *)
(* Run has returned; the work looks at its context between two rounds, and *)
(* the pool between two hosts.                                             *)
(***************************************************************************)
EXTENDS WindowsService, EchoPool, RotatingLog

VARIABLE
  work              \* where the work is: a round that probes, or a line

agentVars == <<serviceVars, poolVars, logVars, work>>

-----------------------------------------------------------------------------
AgentInit ==
  /\ ServiceInit
  /\ PoolInit
  /\ LogInit
  /\ work = "none"

(* The work of a process that is gone is gone with it. *)
NoWork == work' = "none" /\ NoCall

Start ==
  /\ ServiceStart
  /\ UNCHANGED <<poolVars, logVars, work>>

(* logging.New, before the identity is loaded. *)
OpenLog ==
  /\ main = "starting"
  /\ LogStart
  /\ UNCHANGED <<serviceVars, poolVars, work>>

(* The log, or the identity, or the dispatcher refuses; the log is closed  *)
(* if it was open.                                                         *)
Fails ==
  /\ StartFails
  /\ IF logAt = "off" THEN UNCHANGED logVars ELSE LogEnd
  /\ UNCHANGED <<poolVars, work>>

Crash ==
  /\ ServiceCrash
  /\ IF logAt = "off" THEN UNCHANGED logVars ELSE LogDies
  /\ NoWork

(* The dispatcher is met with the log open. *)
Connect ==
  /\ logAt = "idle"
  /\ Register
  /\ UNCHANGED <<poolVars, logVars, work>>

Announce ==
  /\ AnnounceStart \/ AnnounceRunning
  /\ work' = IF main' = "working" THEN "top" ELSE work
  /\ UNCHANGED <<poolVars, logVars>>

-----------------------------------------------------------------------------
AtTop == main = "working" /\ work = "top"

(* A round probes some hosts. *)
Probe ==
  /\ AtTop
  /\ ~cancelled
  /\ \E asked \in SUBSET Host : PoolStart(asked) \/ PoolUnavailable(asked)
  /\ work' = "probing"
  /\ UNCHANGED <<serviceVars, logVars>>

PoolWorks(w) ==
  /\ PoolStep(w, cancelled)
  /\ UNCHANGED <<serviceVars, logVars, work>>

PoolTimesOut ==
  /\ PoolExpires
  /\ UNCHANGED <<serviceVars, logVars, work>>

PoolEnds ==
  /\ PoolReturn
  /\ UNCHANGED <<serviceVars, logVars, work>>

(* Somebody has a line to write: what Write makes of it is nobody's        *)
(* concern, and without a file it makes nothing of it.                     *)
Line ==
  IF file = "nil" THEN UNCHANGED logVars ELSE \E n \in RecordSizes : LogWrite(n)

(* What the round found is logged. *)
Tell ==
  /\ work = "probing"
  /\ PoolTaken
  /\ Line
  /\ work' = "telling"
  /\ UNCHANGED serviceVars

Log ==
  /\ LogStep
  /\ UNCHANGED <<serviceVars, poolVars, work>>

(* The round is over. *)
NextRound ==
  /\ work = "telling"
  /\ logAt = "idle"
  /\ work' = "top"
  /\ UNCHANGED <<serviceVars, poolVars, logVars>>

(* Run of the agent sees its context at the top of its loop. *)
Return ==
  /\ AtTop
  /\ WorkReturns
  /\ UNCHANGED <<poolVars, logVars, work>>

Stopped ==
  /\ ReportStopped
  /\ UNCHANGED <<poolVars, logVars, work>>

(* Run has returned: runCommand writes its last line, closes the log and   *)
(* leaves.                                                                 *)
LastLine ==
  /\ main = "stopped" /\ handler = "none"
  /\ work = "top"
  /\ Line
  /\ work' = "leaving"
  /\ UNCHANGED <<serviceVars, poolVars>>

Leave ==
  /\ work = "leaving"
  /\ ServiceEnds
  /\ LogEnd
  /\ NoWork

-----------------------------------------------------------------------------
Controlled ==
  /\ ControlStop \/ ControlInterrogate
  /\ work # "leaving"
  /\ UNCHANGED <<poolVars, logVars, work>>

Handle ==
  /\ HandlerStep
  /\ UNCHANGED <<poolVars, logVars, work>>

(* Somebody takes a log file away. *)
Outsider ==
  /\ LogTaken
  /\ UNCHANGED <<serviceVars, poolVars, work>>

(* What the process does by itself, thread by thread. *)
MainStep ==
  \/ OpenLog
  \/ Connect
  \/ Announce
  \/ Probe
  \/ PoolEnds
  \/ Tell
  \/ Log
  \/ NextRound
  \/ Return
  \/ Stopped
  \/ LastLine
  \/ Leave

AgentNext ==
  \/ Start
  \/ Fails
  \/ Crash
  \/ MainStep
  \/ \E w \in Workers : PoolWorks(w)
  \/ PoolTimesOut
  \/ Controlled
  \/ Handle
  \/ Outsider

AgentSpec == AgentInit /\ [][AgentNext]_agentVars

(* Each thread goes on when it can: the Go scheduler and Windows starve    *)
(* nobody, and every call of the system returns.  Nothing is assumed of    *)
(* the manager, the operator, time or accidents.                           *)
Fairness ==
  /\ WF_agentVars(MainStep)
  /\ WF_agentVars(Handle)
  /\ \A w \in Workers : WF_agentVars(PoolWorks(w))

FairAgentSpec == AgentSpec /\ Fairness
-----------------------------------------------------------------------------
(* Typing: there is work only in a process at work, a log only in a        *)
(* process, and a pool only in a round.                                    *)
AgentTypeOK ==
  /\ ServiceTypeOK /\ PoolTypeOK /\ LogTypeOK
  /\ work \in {"none", "top", "probing", "telling", "leaving"}
  /\ work = "none" <=> main \in {"none", "starting", "registered", "announced"}
  /\ pool # "idle" => work = "probing"
  /\ main \in {"registered", "announced", "working", "worked", "stopped"} =>
       logAt # "off"

(* A stop that reached the handler ends the process, whatever it finds the *)
(* work at - hosts in hand, a rotation half-way - and whatever the manager *)
(* asks meanwhile (service_windows.go:216-217).                            *)
StopIsHonoured == handler = "stop" ~> main = "none"
=============================================================================
