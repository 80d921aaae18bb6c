---------------------------- MODULE Installation ----------------------------
(***************************************************************************)
(* The life of an installation (cmd/.../main.go: installService,           *)
(* uninstallService, serviceCommand; internal/service, all platforms).     *)
(*                                                                         *)
(* An operator installs, starts, stops and removes the service, one        *)
(* command at a time; any of them may fail or be interrupted between two   *)
(* steps.  The manager - systemd, launchd or the Windows service manager - *)
(* starts the agent at boot and after a crash, from what it has loaded,    *)
(* and the agent stores its state under the account it runs as.            *)
(***************************************************************************)
EXTENDS Naturals

CONSTANTS
  Version,          \* what an installation brings: a binary, its arguments
  None,
  MaxCommands, MaxAccidents   \* bounds: commands; crashes, reboots, stores

VARIABLES
  platform,
  account,          \* the unprivileged account exists (systemd)
  binary,           \* the version at the installation path
  definition,       \* the definition on disk, or the manager's entry
  loaded,           \* the definition the manager has read
  enabled,          \* the unit starts at boot (systemd)
  process,          \* the service's process
  stopping,         \* it was asked to stop (Windows)
  deleting,         \* the entry goes when the process does (Windows)
  restarting,       \* the manager is about to start it again
  recovers,         \* the entry says to start it again (Windows)
  owner             \* whose file the identity is

VARIABLES
  command, step, version, purge   \* the operator's command, and where it is

(* What the properties need to remember. *)
VARIABLES
  done,             \* the last command, if it succeeded
  fresh,            \* nothing ran or was to run when the install began
  foreign,          \* not the installed service stored the identity last
  clean,            \* uninstall saw the service stopped for good
  commands, accidents

managerVars == <<definition, loaded, enabled, process, stopping, deleting,
                 restarting, recovers>>
commandVars == <<command, step, version, purge>>
historyVars == <<done, fresh, foreign, clean, commands, accidents>>

vars == <<platform, account, binary, managerVars, owner, commandVars,
          historyVars>>

-----------------------------------------------------------------------------
Platform == {"systemd", "launchd", "scm"}

User == {"root", "account"}

Definition == [version : Version, user : User]

Process == [binary : Version, definition : Definition]

ASSUME InstallationAssumption ==
  /\ None \notin Version \cup User \cup Definition \cup Process
  /\ MaxCommands \in Nat /\ MaxAccidents \in Nat

(* Without the account the unit runs as root, and so do the other two.     *)
ServiceUser == IF platform = "systemd" /\ account THEN "account" ELSE "root"

CanRead(user) == owner # None /\ (user = "root" \/ owner = user)

(* An agent that cannot read its identity exits at once.                   *)
Started(d) ==
  IF CanRead(d.user) THEN [binary |-> binary, definition |-> d] ELSE None

(* Starting what runs already does nothing. *)
Starts(d) ==
  /\ process' = IF process = None THEN Started(d) ELSE process
  /\ restarting' = (process' = None /\ platform # "scm")

Ready == IF platform = "scm" THEN definition ELSE loaded

Init ==
  /\ platform \in Platform
  /\ account \in BOOLEAN
  /\ binary = None /\ definition = None /\ loaded = None
  /\ enabled = FALSE /\ process = None /\ stopping = FALSE
  /\ deleting = FALSE /\ restarting = FALSE /\ recovers = FALSE
  /\ owner = None
  /\ command = "none" /\ step = "none" /\ version = None /\ purge = FALSE
  /\ done = "none" /\ fresh = FALSE /\ foreign = FALSE /\ clean = FALSE
  /\ commands = 0 /\ accidents = 0

-----------------------------------------------------------------------------
Goes(place) == step' = place /\ UNCHANGED <<command, version, purge, done>>

Ends(result) ==
  /\ command' = "none" /\ step' = "none" /\ version' = None /\ purge' = FALSE
  /\ done' = result

Begins(name, place, v, p) ==
  /\ command = "none"
  /\ commands < MaxCommands
  /\ commands' = commands + 1
  /\ command' = name /\ step' = place /\ version' = v /\ purge' = p
  /\ done' = "none"
  /\ clean' = FALSE
  /\ UNCHANGED <<platform, account, binary, managerVars, accidents>>

(* A step fails, or the operator interrupts the command. *)
Abort ==
  /\ command # "none"
  /\ Ends("none")
  /\ UNCHANGED <<platform, account, binary, managerVars, owner, fresh, foreign,
                 clean, commands, accidents>>

(* install: the identity comes first, stored by the operator, who is root. *)
BeginInstall(v) ==
  /\ Begins("install", "binary", v, FALSE)
  /\ fresh' = (process = None /\ ~restarting)
  /\ owner' = IF owner = None THEN "root" ELSE owner
  /\ UNCHANGED <<foreign>>

(* Windows refuses to replace a binary that is running; one that is run    *)
(* from where it belongs is left there.                                    *)
PlaceBinary ==
  /\ step = "binary"
  /\ platform = "scm" /\ process # None => binary = version
  /\ binary' = version
  /\ Goes(IF platform = "systemd" THEN "account" ELSE "define")
  /\ UNCHANGED <<platform, account, managerVars, owner, fresh, foreign, clean,
                 commands, accidents>>

(* Whether the account can be made is the machine's affair. *)
EnsureAccount ==
  /\ step = "account"
  /\ account' \in {account, TRUE}
  /\ Goes("prepare")
  /\ UNCHANGED <<platform, binary, managerVars, owner, fresh, foreign, clean,
                 commands, accidents>>

(* Mutant of Prepared: the identity stays with whoever enrolled. *)
PreparedNothing == owner

(* The identity is handed to the account the unit will run as. *)
Prepared == IF ServiceUser = "account" THEN "account" ELSE owner

PrepareState ==
  /\ step = "prepare"
  /\ owner' = Prepared
  /\ foreign' = FALSE
  /\ Goes("define")
  /\ UNCHANGED <<platform, account, binary, managerVars, fresh, clean,
                 commands, accidents>>

(* The definition is written over the old one; the service manager of      *)
(* Windows makes an entry only where there is none, and may then refuse    *)
(* the recovery policy, which nobody notices.                              *)
Define ==
  /\ step = "define"
  /\ platform = "scm" => definition = None
  /\ definition' = [version |-> version, user |-> ServiceUser]
  /\ recovers' \in IF platform = "scm" THEN BOOLEAN ELSE {recovers}
  /\ Goes(IF platform = "systemd" THEN "reload" ELSE "start")
  /\ UNCHANGED <<platform, account, binary, loaded, enabled, process, stopping,
                 deleting, restarting, owner, fresh, foreign, clean, commands,
                 accidents>>

(* daemon-reload, by install and by uninstall. *)
Reload ==
  /\ step = "reload"
  /\ loaded' = definition
  /\ IF command = "install" THEN Goes("start") ELSE Goes("purge")
  /\ UNCHANGED <<platform, account, binary, definition, enabled, process,
                 stopping, deleting, restarting, recovers, owner, fresh,
                 foreign, clean, commands, accidents>>

(* enable --now, or start; enable, bootstrap unless launchd has the job,   *)
(* kickstart; StartService.  A definition the manager has is not read      *)
(* again, and a process that runs is left alone.                           *)
StartService ==
  /\ step = "start"
  /\ definition # None
  /\ loaded' = IF platform # "scm" /\ loaded = None THEN definition ELSE loaded
  /\ enabled' = (enabled \/ command = "install")
  /\ Starts(IF platform = "scm" THEN definition ELSE loaded')
  /\ Ends(command)
  /\ UNCHANGED <<platform, account, binary, recovers, definition, stopping,
                 deleting, owner, fresh, foreign, clean, commands, accidents>>

BeginStart ==
  /\ definition # None
  /\ Begins("start", "start", None, FALSE)
  /\ UNCHANGED <<owner, fresh, foreign>>

BeginStop ==
  /\ definition # None
  /\ Begins("stop", "stop", None, FALSE)
  /\ UNCHANGED <<owner, fresh, foreign>>

BeginUninstall(p) ==
  /\ definition # None
  /\ Begins("uninstall", "stop", None, p)
  /\ UNCHANGED <<owner, fresh, foreign>>

(* What is not installed is not removed, its identity may be.              *)
UninstallNothing(p) ==
  /\ command = "none" /\ definition = None
  /\ commands < MaxCommands
  /\ commands' = commands + 1
  /\ owner' = IF p THEN None ELSE owner
  /\ done' = "none"
  /\ UNCHANGED <<platform, account, binary, managerVars, commandVars, fresh,
                 foreign, clean, accidents>>

-----------------------------------------------------------------------------
(* Where stop leads to: its own end, or the rest of uninstall. *)
Stopped == IF command = "stop" THEN Ends("stop") ELSE Goes("remove")

(* disable --now or stop, bootout: both wait for the process to end.       *)
StopService ==
  /\ step = "stop"
  /\ platform # "scm"
  /\ process' = None /\ restarting' = FALSE
  /\ loaded' = IF platform = "launchd" THEN None ELSE loaded
  /\ enabled' = (enabled /\ command = "stop")
  /\ Stopped
  /\ clean' = TRUE
  /\ UNCHANGED <<platform, account, binary, recovers, definition, stopping,
                 deleting, owner, fresh, foreign, commands, accidents>>

(* uninstall goes on when it could not stop the service. *)
StopFails ==
  /\ step \in {"stop", "wait"}
  /\ command = "uninstall"
  /\ Goes("remove")
  /\ UNCHANGED <<platform, account, binary, managerVars, owner, fresh, foreign,
                 clean, commands, accidents>>

(* Mutant of Active: a service that is not running is asked all the same.  *)
ActiveAlways == TRUE

Active == process # None

(* The Windows service is asked, and then waited for. *)
AskToStop ==
  /\ step = "stop"
  /\ platform = "scm"
  /\ stopping' = Active
  /\ IF Active THEN Goes("wait") ELSE Stopped
  /\ clean' = (~Active /\ ~restarting)
  /\ UNCHANGED <<platform, account, binary, definition, loaded, enabled,
                 process, deleting, restarting, recovers, owner, fresh,
                 foreign, commands, accidents>>

(* Mutant of HasStopped: that it was asked is enough.                      *)
HasStoppedOnceAsked == TRUE

HasStopped == process = None

WaitForStop ==
  /\ step = "wait"
  /\ HasStopped
  /\ Stopped
  /\ clean' = ~restarting
  /\ UNCHANGED <<platform, account, binary, managerVars, owner, fresh, foreign,
                 commands, accidents>>

(* A status that cannot be asked for passes for a stop.                    *)
StopUnseen ==
  /\ step = "wait"
  /\ Stopped
  /\ UNCHANGED <<platform, account, binary, managerVars, owner, fresh, foreign,
                 clean, commands, accidents>>

(* Mutant of Unloads: the manager is not told.                             *)
UnloadsNothing == "purge"

(* systemd is told that the unit is gone. *)
Unloads == IF platform = "systemd" THEN "reload" ELSE "purge"

(* The definition goes; a Windows entry goes with its process. *)
Remove ==
  /\ step = "remove"
  /\ ~deleting
  /\ deleting' = (platform = "scm" /\ process # None)
  /\ definition' = IF deleting' THEN definition ELSE None
  /\ restarting' = (restarting /\ platform # "scm")
  /\ Goes(Unloads)
  /\ UNCHANGED <<platform, account, binary, loaded, enabled, process, recovers,
                 stopping, owner, fresh, foreign, clean, commands, accidents>>

Purge ==
  /\ step = "purge"
  /\ owner' = IF purge THEN None ELSE owner
  /\ Ends(IF purge THEN "purge" ELSE "uninstall")
  /\ UNCHANGED <<platform, account, binary, managerVars, fresh, foreign, clean,
                 commands, accidents>>

-----------------------------------------------------------------------------
(* What the machine does on its own. *)
Accident ==
  /\ accidents < MaxAccidents
  /\ accidents' = accidents + 1

(* The process ends: an entry that waited for it goes. *)
ProcessEnds ==
  /\ process # None
  /\ process' = None /\ stopping' = FALSE /\ deleting' = FALSE
  /\ definition' = IF deleting THEN None ELSE definition

(* It was asked to. *)
StopsAtLast ==
  /\ stopping
  /\ ProcessEnds
  /\ UNCHANGED <<platform, account, binary, loaded, enabled, restarting,
                 recovers, owner, commandVars, historyVars>>

Crash ==
  /\ Accident
  /\ ProcessEnds
  /\ restarting' = (Ready # None /\ ~deleting /\ (platform = "scm" => recovers))
  /\ UNCHANGED <<platform, account, binary, loaded, recovers, enabled, owner,
                 commandVars, done, fresh, foreign, clean, commands>>

(* Restart=always, KeepAlive, the recovery policy. *)
Restart ==
  /\ restarting
  /\ Ready # None
  /\ Started(Ready) # None
  /\ Starts(Ready)
  /\ UNCHANGED <<platform, account, binary, definition, loaded, recovers,
                 enabled, stopping, deleting, owner, commandVars, historyVars>>

(* At boot the manager reads what is on disk. *)
Reboot ==
  /\ Accident
  /\ definition' = IF deleting THEN None ELSE definition
  /\ deleting' = FALSE /\ stopping' = FALSE
  /\ loaded' = IF platform = "scm" THEN loaded ELSE definition
  /\ LET boots == definition' # None /\ (platform = "systemd" => enabled)
     IN  /\ process' = IF boots THEN Started(definition') ELSE None
         /\ restarting' = (boots /\ process' = None /\ platform # "scm")
  /\ Ends(IF command = "none" THEN done ELSE "none")
  /\ UNCHANGED <<platform, account, binary, recovers, enabled, owner, fresh,
                 foreign, clean, commands>>

(* The agent stores a new configuration: the file is made anew. *)
Store ==
  /\ Accident
  /\ process # None
  /\ owner' = process.definition.user
  /\ foreign' = (process.definition # definition)
  /\ UNCHANGED <<platform, account, binary, managerVars, commandVars, done,
                 fresh, clean, commands>>

(* So does an operator's own run of the agent, or an enrollment by hand.   *)
ByHand ==
  /\ Accident
  /\ command = "none"
  /\ owner' = "root"
  /\ foreign' = TRUE
  /\ clean' = FALSE
  /\ UNCHANGED <<platform, account, binary, managerVars, commandVars, done,
                 fresh, commands>>

Next ==
  \/ Abort
  \/ \E v \in Version : BeginInstall(v)
  \/ PlaceBinary
  \/ EnsureAccount
  \/ PrepareState
  \/ Define
  \/ Reload
  \/ StartService
  \/ BeginStart
  \/ BeginStop
  \/ \E p \in BOOLEAN : BeginUninstall(p) \/ UninstallNothing(p)
  \/ StopService
  \/ StopFails
  \/ AskToStop
  \/ WaitForStop
  \/ StopUnseen
  \/ Remove
  \/ Purge
  \/ StopsAtLast
  \/ Crash
  \/ Restart
  \/ Reboot
  \/ Store
  \/ ByHand

Spec == Init /\ [][Next]_vars
-----------------------------------------------------------------------------
InstalledTypeOK ==
  /\ platform \in Platform /\ account \in BOOLEAN
  /\ binary \in Version \cup {None}
  /\ definition \in Definition \cup {None}
  /\ loaded \in Definition \cup {None}
  /\ owner \in User \cup {None}

ServiceTypeOK ==
  /\ enabled \in BOOLEAN /\ restarting \in BOOLEAN /\ recovers \in BOOLEAN
  /\ process \in Process \cup {None}
  /\ stopping \in BOOLEAN /\ deleting \in BOOLEAN
  /\ stopping \/ deleting => process # None

Result == {"none", "install", "start", "stop", "uninstall", "purge"}

Step == {"none", "binary", "account", "prepare", "define", "reload", "start",
         "stop", "wait", "remove", "purge"}

CommandTypeOK ==
  /\ command \in Result \ {"purge"}
  /\ step \in Step
  /\ version \in Version \cup {None} /\ purge \in BOOLEAN
  /\ done \in Result

HistoryTypeOK ==
  /\ fresh \in BOOLEAN /\ foreign \in BOOLEAN /\ clean \in BOOLEAN
  /\ commands \in Nat /\ accidents \in Nat

(* Typing: what is asked to stop, and what waits to be deleted, runs.      *)
TypeOK == InstalledTypeOK /\ ServiceTypeOK /\ CommandTypeOK /\ HistoryTypeOK

(* What a restart, or a start, would run. *)
Installed == [binary |-> binary, definition |-> definition]

(* An installation runs what it installed, and on all three platforms      *)
(* comes back with the machine and after a crash (README, Installing;      *)
(* service_windows.go:352-355) - when nothing ran before it, and under     *)
(* systemd, whose unit may run as an account of its own, nobody else       *)
(* stored the identity.  The code breaks this on Windows, where it does    *)
(* not look whether the recovery policy was taken.                         *)
InstallMeansRestart ==
  done = "install" /\ fresh /\ (platform = "systemd" => ~foreign) =>
    \/ process = Installed
    \/ restarting /\ Ready # None /\ Started(Ready) = Installed

(* What is left of it: an installation comes back unless the Windows       *)
(* manager has refused the recovery policy.                                *)
InstalledComesBack == (platform = "scm" => recovers) => InstallMeansRestart

Gone == process = None /\ (platform = "launchd" => loaded = None)

(* A service that was removed, although it may not have stopped, does not  *)
(* come back once its process is gone - where launchd let go of the job.   *)
RemovedStaysGone ==
  done \in {"uninstall", "purge"} /\ Gone =>
    definition = None /\ (restarting => Ready = None)

(* An upgrade over a running service runs the new version: the caller of   *)
(* InstallBinary stops it first (service.go:221-223).                      *)
UpgradeRuns == done = "install" /\ process # None => process = Installed

(* With --purge nothing of the identity is left behind, and no process     *)
(* that could write it again (main.go:276): the service stores the whole   *)
(* state with every new configuration.  It needs a service that was seen   *)
(* to stop with no restart pending, and nobody else's run of the agent.    *)
PurgeIsFinal == done = "purge" /\ clean => owner = None /\ process = None
=============================================================================
