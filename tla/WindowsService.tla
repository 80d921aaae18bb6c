--------------------------- MODULE WindowsService ---------------------------
(***************************************************************************)
(* The agent as a service of Windows (internal/service/service_windows.go: *)
(* Run, serviceMain, serviceControl, report, reportStopped).               *)
(*                                                                         *)
(* Three threads meet in the process: main, which waits in the dispatcher, *)
(* serviceMain, which does the work, and the control handler, which the    *)
(* dispatcher calls for one control after another.  The status they report *)
(* is guarded by a mutex; what the handler read of it before is not.       *)
(* The manager is external: it believes the last report, and what it makes *)
(* of a report that follows STOPPED is left open.                          *)
(***************************************************************************)
EXTENDS Naturals

CONSTANTS
  MaxStarts, MaxControls    \* bounds: processes, controls sent

ASSUME ServiceAssumption == MaxStarts \in Nat /\ MaxControls \in Nat

VARIABLES
  scmState,         \* the state the manager shows
  scmAccepts,       \* whether it may send a stop
  main,             \* where the process is: main and serviceMain
  handler,          \* where the control handler is
  cancelled,        \* serviceCtx
  lastState, lastAccepted,  \* of the last report
  readState, readAccepted   \* what Interrogate read of it

(* What the properties need to remember. *)
VARIABLES
  stale,            \* Interrogate reported what was no longer so
  starts, controls

managerVars == <<scmState, scmAccepts>>
statusVars == <<lastState, lastAccepted>>
readVars == <<readState, readAccepted>>
serviceHistoryVars == <<stale, starts, controls>>

serviceVars == <<managerVars, main, handler, cancelled, statusVars, readVars,
                 serviceHistoryVars>>

-----------------------------------------------------------------------------
(* No report yet: lastState is zero, which the manager refuses.            *)
NoState == "0"

ServiceState == {"STOPPED", "START_PENDING", "RUNNING", "STOP_PENDING"}

NoRead == readState' = NoState /\ readAccepted' = FALSE

ServiceInit ==
  /\ scmState = "STOPPED" /\ scmAccepts = FALSE
  /\ main = "none" /\ handler = "none" /\ cancelled = FALSE
  /\ lastState = NoState /\ lastAccepted = FALSE
  /\ readState = NoState /\ readAccepted = FALSE
  /\ stale = FALSE /\ starts = 0 /\ controls = 0

(* SetServiceStatus. *)
Believes(state, accepts) ==
  scmState' = state /\ scmAccepts' = accepts

ManagerHears(state, accepts) ==
  IF state = NoState \/ main = "registered"
  THEN UNCHANGED <<scmState, scmAccepts>>
  ELSE \/ Believes(state, accepts)
       \/ scmState = "STOPPED" /\ UNCHANGED <<scmState, scmAccepts>>

(* report, under the mutex. *)
Report(state, accepts) ==
  /\ lastState' = state /\ lastAccepted' = accepts
  /\ ManagerHears(state, accepts)

-----------------------------------------------------------------------------
(* The manager starts the process: at boot, for an operator, or because it *)
(* ended on its own.                                                       *)
ServiceStart ==
  /\ main = "none"
  /\ starts < MaxStarts
  /\ starts' = starts + 1
  /\ Believes("START_PENDING", FALSE)
  /\ main' = "starting"
  /\ UNCHANGED <<handler, cancelled, statusVars, readVars, stale, controls>>

(* The process is gone, its threads with it, and the manager sees that.    *)
ProcessGone ==
  /\ scmState' = "STOPPED" /\ scmAccepts' = FALSE
  /\ main' = "none" /\ handler' = "none" /\ cancelled' = FALSE
  /\ lastState' = NoState /\ lastAccepted' = FALSE /\ stale' = FALSE
  /\ NoRead
  /\ UNCHANGED <<starts, controls>>

(* No log, no identity: main ends before it meets the manager, or the      *)
(* dispatcher does not take it.                                            *)
StartFails == main = "starting" /\ ProcessGone

(* A crash, or somebody kills it. *)
ServiceCrash == main # "none" /\ ProcessGone

(* StartServiceCtrlDispatcher calls serviceMain, and RegisterServiceCtrl-  *)
(* HandlerEx returns: controls may come, serviceHandle is not stored yet.  *)
Register ==
  /\ main = "starting"
  /\ main' = "registered"
  /\ UNCHANGED <<managerVars, handler, cancelled, statusVars, readVars,
                 serviceHistoryVars>>

(* serviceHandle is stored, and the first report made. *)
AnnounceStart ==
  /\ main = "registered"
  /\ main' = "announced"
  /\ lastState' = "START_PENDING" /\ lastAccepted' = FALSE
  /\ Believes("START_PENDING", FALSE)
  /\ UNCHANGED <<handler, cancelled, readVars, serviceHistoryVars>>

(* Mutant of AnnounceRunning: what the service accepts is left out.        *)
AnnounceRunningDeaf ==
  /\ main = "announced"
  /\ Report("RUNNING", FALSE)
  /\ main' = "working"
  /\ UNCHANGED <<handler, cancelled, readVars, serviceHistoryVars>>

AnnounceRunning ==
  /\ main = "announced"
  /\ Report("RUNNING", TRUE)
  /\ main' = "working"
  /\ UNCHANGED <<handler, cancelled, readVars, serviceHistoryVars>>

(* serviceWork returns, because its context is cancelled: Run of the agent *)
(* has no other end without --once.                                        *)
WorkReturns ==
  /\ main = "working"
  /\ cancelled
  /\ main' = "worked"
  /\ UNCHANGED <<managerVars, handler, cancelled, statusVars, readVars,
                 serviceHistoryVars>>

(* reportStopped. *)
ReportStopped ==
  /\ main = "worked"
  /\ Report("STOPPED", FALSE)
  /\ main' = "stopped"
  /\ UNCHANGED <<handler, cancelled, readVars, serviceHistoryVars>>

(* The dispatcher returns once the service has stopped and no control is   *)
(* being handled; so do Run and main.                                      *)
ServiceEnds ==
  /\ main = "stopped"
  /\ handler = "none"
  /\ ProcessGone

-----------------------------------------------------------------------------
(* A control is delivered when the last one has been handled. *)
Control(place) ==
  /\ handler = "none"
  /\ main \notin {"none", "starting"}
  /\ controls < MaxControls
  /\ controls' = controls + 1
  /\ handler' = place
  /\ UNCHANGED <<managerVars, main, cancelled, statusVars, readVars, stale,
                 starts>>

(* Stop, shutdown or preshutdown, while the manager thinks it accepted.    *)
ControlStop == scmAccepts /\ Control("stop")

ControlInterrogate == scmState # "STOPPED" /\ Control("interrogate")

(* Mutant of Pending: the stop is told as done before the work is.         *)
PendingStopped == "STOPPED"

Pending == "STOP_PENDING"

(* serviceControl: the manager is told that the stop is under way. *)
HandleStop ==
  /\ handler = "stop"
  /\ Report(Pending, FALSE)
  /\ handler' = "cancel"
  /\ UNCHANGED <<main, cancelled, readVars, serviceHistoryVars>>

(* Mutant of Cancels: the context is not reached.                          *)
CancelsNothing == cancelled

Cancels == TRUE

(* And the work, to come to its end. *)
HandleCancel ==
  /\ handler = "cancel"
  /\ cancelled' = Cancels
  /\ handler' = "none"
  /\ UNCHANGED <<managerVars, main, statusVars, readVars, stale, starts,
                 controls>>

(* Interrogate reads the status under the mutex. *)
HandleInterrogate ==
  /\ handler = "interrogate"
  /\ readState' = lastState /\ readAccepted' = lastAccepted
  /\ handler' = "answer"
  /\ UNCHANGED <<managerVars, main, cancelled, statusVars, serviceHistoryVars>>

(* And reports it, having given the mutex back in between. *)
HandleAnswer ==
  /\ handler = "answer"
  /\ Report(readState, readAccepted)
  /\ stale' = (stale \/ readState # lastState)
  /\ handler' = "none"
  /\ NoRead
  /\ UNCHANGED <<main, cancelled, starts, controls>>

HandlerStep ==
  \/ HandleStop
  \/ HandleCancel
  \/ HandleInterrogate
  \/ HandleAnswer

ServiceNext ==
  \/ ServiceStart
  \/ StartFails
  \/ ServiceCrash
  \/ Register
  \/ AnnounceStart
  \/ AnnounceRunning
  \/ WorkReturns
  \/ ReportStopped
  \/ ServiceEnds
  \/ ControlStop
  \/ ControlInterrogate
  \/ HandlerStep

ServiceSpec == ServiceInit /\ [][ServiceNext]_serviceVars
-----------------------------------------------------------------------------
(* Typing: only Interrogate has read anything, and nothing moves in a      *)
(* process that is gone.                                                   *)
ServiceTypeOK ==
  /\ scmState \in ServiceState /\ scmAccepts \in BOOLEAN
  /\ main \in {"none", "starting", "registered", "announced", "working",
               "worked", "stopped"}
  /\ handler \in {"none", "stop", "cancel", "interrogate", "answer"}
  /\ main \in {"none", "starting"} => handler = "none"
  /\ cancelled \in BOOLEAN
  /\ lastState \in ServiceState \cup {NoState} /\ lastAccepted \in BOOLEAN
  /\ readState \in ServiceState \cup {NoState} /\ readAccepted \in BOOLEAN
  /\ handler # "answer" => readState = NoState
  /\ stale \in BOOLEAN
  /\ starts \in Nat /\ controls \in Nat

(* Whoever stops the service may rely on the manager: when it shows        *)
(* STOPPED no work is under way (service_windows.go:435-436, "so an        *)
(* uninstall does not race the process it is removing"), and a process     *)
(* that has come to its end is shown so, not taken for one that crashed -  *)
(* while no Interrogate answered with what was no longer so.               *)
StoppedMeansDone ==
  /\ scmState = "STOPPED" =>
       main \notin {"registered", "announced", "working"}
  /\ main = "stopped" /\ ~stale => scmState = "STOPPED"

(* A service at work can be stopped: unless a stop is already on its way,  *)
(* the manager is willing to send one - while no Interrogate answered with *)
(* what was no longer so.                                                  *)
WorkCanBeStopped ==
  main = "working" /\ ~stale =>
    scmAccepts \/ cancelled \/ handler = "cancel"
=============================================================================
