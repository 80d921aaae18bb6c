------------------------- MODULE InstallationProofs -------------------------
(***************************************************************************)
(* Theorems about Installation, for any number of commands and accidents.  *)
(***************************************************************************)
EXTENDS Installation, TLAPS

Defined == definition # None \/ loaded # None

(* Only a Windows service waits to stop or to be deleted; an installation  *)
(* knows its version until the definition is written; and a definition, on *)
(* disk or loaded, is never without a binary.                              *)
Sound ==
  /\ TypeOK
  /\ platform # "scm" => ~stopping /\ ~deleting
  /\ step \in {"binary", "account", "prepare", "define"} => version \in Version
  /\ (step \in {"account", "prepare", "define"} \/ Defined) => binary \in Version
-----------------------------------------------------------------------------
(* The variables of the command, however it goes on.                       *)
LEMMA GoesTyped ==
  ASSUME CommandTypeOK, NEW place \in Step, Goes(place)
  PROVE  CommandTypeOK' /\ step' = place /\ version' = version
  BY DEF CommandTypeOK, Goes

LEMMA EndsTyped ==
  ASSUME NEW result \in Result, Ends(result)
  PROVE  CommandTypeOK' /\ step' = "none"
  <1>1. purge' \in BOOLEAN /\ version' = None /\ step' = "none"
    BY DEF Ends
  <1>2. command' \in Result \ {"purge"} /\ step' \in Step /\ done' \in Result
    BY DEF Ends, Result, Step
  <1> QED
    BY <1>1, <1>2 DEF CommandTypeOK

LEMMA BeginsTyped ==
  ASSUME NEW name \in Result \ {"purge"}, NEW place \in Step,
         NEW v \in Version \cup {None}, NEW p \in BOOLEAN,
         Begins(name, place, v, p)
  PROVE  CommandTypeOK' /\ step' = place /\ version' = v
  <1>1. done' \in Result /\ step' = place /\ version' = v /\ purge' = p
    BY DEF Begins, Result
  <1> QED
    BY <1>1 DEF Begins, CommandTypeOK

LEMMA CommandKept ==
  ASSUME CommandTypeOK, UNCHANGED <<commandVars, done>>
  PROVE  CommandTypeOK' /\ step' = step /\ version' = version
  BY DEF CommandTypeOK, commandVars

(* One lemma per kind of step: a command begins or ends, it installs, it    *)
(* removes, the machine acts on its own.                                   *)
LEMMA SoundCommands ==
  ASSUME Sound,
         \/ Abort \/ BeginStart \/ BeginStop
         \/ \E v \in Version : BeginInstall(v)
         \/ \E p \in BOOLEAN : BeginUninstall(p) \/ UninstallNothing(p)
  PROVE  Sound'
  <1> USE DEF Sound, TypeOK, InstalledTypeOK, ServiceTypeOK, HistoryTypeOK,
              Defined, managerVars, User
  <1>1. CASE Abort
    <2>1. CommandTypeOK' /\ step' = "none"
      BY <1>1, EndsTyped DEF Abort, Result
    <2> QED
      BY <1>1, <2>1 DEF Abort
  <1>2. CASE BeginStart \/ BeginStop
    <2>1. CommandTypeOK' /\ step' \in {"start", "stop"}
      BY <1>2, BeginsTyped DEF BeginStart, BeginStop, Result, Step
    <2>2. clean' \in BOOLEAN
      BY <1>2 DEF BeginStart, BeginStop, Begins
    <2> QED
      BY <1>2, <2>1, <2>2 DEF BeginStart, BeginStop, Begins
  <1>3. CASE \E v \in Version : BeginInstall(v)
    <2>1. PICK v \in Version : BeginInstall(v)
      BY <1>3
    <2>2. Begins("install", "binary", v, FALSE)
      BY <2>1 DEF BeginInstall
    <2>3. CommandTypeOK' /\ step' = "binary" /\ version' = v
      <3>1. /\ "install" \in Result \ {"purge"} /\ "binary" \in Step
            /\ v \in Version \cup {None} /\ FALSE \in BOOLEAN
        BY DEF Result, Step
      <3> QED
        BY ONLY <2>2, <3>1, BeginsTyped
    <2>4. fresh' \in BOOLEAN /\ clean' \in BOOLEAN
      BY <2>1, <2>2 DEF BeginInstall, Begins
    <2> QED
      BY <2>1, <2>2, <2>3, <2>4 DEF BeginInstall, Begins
  <1>4. CASE \E p \in BOOLEAN : BeginUninstall(p)
    <2>1. CommandTypeOK' /\ step' = "stop"
      BY <1>4, BeginsTyped DEF BeginUninstall, Result, Step
    <2>2. clean' \in BOOLEAN
      BY <1>4 DEF BeginUninstall, Begins
    <2> QED
      BY <1>4, <2>1, <2>2 DEF BeginUninstall, Begins
  <1>5. CASE \E p \in BOOLEAN : UninstallNothing(p)
    <2>1. CommandTypeOK' /\ step' = step /\ version' = version
      BY <1>5 DEF UninstallNothing, CommandTypeOK, commandVars, Result
    <2> QED
      BY <1>5, <2>1 DEF UninstallNothing
  <1> QED
    BY <1>1, <1>2, <1>3, <1>4, <1>5

LEMMA SoundInstall ==
  ASSUME Sound,
         \/ PlaceBinary \/ EnsureAccount \/ PrepareState \/ Define
         \/ Reload \/ StartService
  PROVE  Sound'
  <1> USE DEF Sound, TypeOK, InstalledTypeOK, ServiceTypeOK, HistoryTypeOK,
              Defined, managerVars, User
  <1>1. CASE PlaceBinary
    <2>1. /\ CommandTypeOK' /\ step' \in {"account", "define"}
          /\ version' = version
      BY <1>1, GoesTyped DEF PlaceBinary, Step
    <2> QED
      BY <1>1, <2>1 DEF PlaceBinary
  <1>2. CASE EnsureAccount
    <2>1. CommandTypeOK' /\ step' = "prepare" /\ version' = version
      BY <1>2, GoesTyped DEF EnsureAccount, Step
    <2>2. account' \in BOOLEAN
      BY <1>2 DEF EnsureAccount
    <2> QED
      BY <1>2, <2>1, <2>2 DEF EnsureAccount
  <1>3. CASE PrepareState
    <2>1. CommandTypeOK' /\ step' = "define" /\ version' = version
      BY <1>3, GoesTyped DEF PrepareState, Step
    <2>2. foreign' \in BOOLEAN
      BY <1>3 DEF PrepareState
    <2> QED
      BY <1>3, <2>1, <2>2 DEF PrepareState, Prepared
  <1>4. CASE Define
    <2>1. CommandTypeOK' /\ step' \in {"reload", "start"}
      BY <1>4, GoesTyped DEF Define, Step
    <2>2. definition' \in Definition /\ recovers' \in BOOLEAN
      BY <1>4 DEF Define, ServiceUser, Definition
    <2> QED
      BY <1>4, <2>1, <2>2 DEF Define
  <1>5. CASE Reload
    <2>1. CommandTypeOK' /\ step' \in {"start", "purge"}
      BY <1>5, GoesTyped DEF Reload, Step
    <2> QED
      BY <1>5, <2>1 DEF Reload
  <1>6. CASE StartService
    <2>1. CommandTypeOK' /\ step' = "none"
      BY <1>6, EndsTyped DEF StartService, CommandTypeOK
    <2>2. enabled' \in BOOLEAN /\ restarting' \in BOOLEAN
      BY <1>6 DEF StartService, Starts
    <2>3. loaded' \in Definition \cup {None}
      BY <1>6 DEF StartService
    <2>4. process' \in Process \cup {None}
      BY <1>6, <2>1, <2>2, <2>3 DEF StartService, Starts, Started, Process
    <2>5. process # None => process' # None
      BY <1>6 DEF StartService, Starts
    <2> QED
      BY <1>6, <2>1, <2>2, <2>3, <2>4, <2>5 DEF StartService
  <1> QED
    BY <1>1, <1>2, <1>3, <1>4, <1>5, <1>6

LEMMA SoundRemoval ==
  ASSUME Sound,
         \/ StopService \/ StopFails \/ AskToStop \/ WaitForStop
         \/ StopUnseen \/ Remove \/ Purge
  PROVE  Sound'
  <1> USE DEF Sound, TypeOK, InstalledTypeOK, ServiceTypeOK, HistoryTypeOK,
              Defined, managerVars, User
  <1>1. CASE StopService
    <2>1. CommandTypeOK' /\ step' \in {"none", "remove"}
      BY <1>1, EndsTyped, GoesTyped DEF StopService, Stopped, Result, Step
    <2>2. enabled' \in BOOLEAN /\ restarting' \in BOOLEAN /\ clean' \in BOOLEAN
      BY <1>1 DEF StopService
    <2> QED
      BY <1>1, <2>1, <2>2 DEF StopService
  <1>2. CASE StopFails
    <2>1. CommandTypeOK' /\ step' = "remove"
      BY <1>2, GoesTyped DEF StopFails, Step
    <2> QED
      BY <1>2, <2>1 DEF StopFails
  <1>3. CASE AskToStop
    <2>1. CommandTypeOK' /\ step' \in {"none", "remove", "wait"}
      BY <1>3, EndsTyped, GoesTyped DEF AskToStop, Stopped, Result, Step
    <2>2. stopping' \in BOOLEAN /\ (stopping' => process # None)
      BY <1>3 DEF AskToStop, Active
    <2>3. clean' \in BOOLEAN
      BY <1>3 DEF AskToStop
    <2> QED
      BY <1>3, <2>1, <2>2, <2>3 DEF AskToStop
  <1>4. CASE WaitForStop
    <2>1. CommandTypeOK' /\ step' \in {"none", "remove"}
      BY <1>4, EndsTyped, GoesTyped DEF WaitForStop, Stopped, Result, Step
    <2>2. clean' \in BOOLEAN
      BY <1>4 DEF WaitForStop
    <2> QED
      BY <1>4, <2>1, <2>2 DEF WaitForStop
  <1>5. CASE Remove
    <2>1. CommandTypeOK' /\ step' \in {"reload", "purge"}
      BY <1>5, GoesTyped DEF Remove, Unloads, Step
    <2>2. /\ deleting' \in BOOLEAN /\ restarting' \in BOOLEAN
          /\ deleting' => platform = "scm" /\ process # None
      BY <1>5 DEF Remove
    <2>3. definition' \in {definition, None}
      BY <1>5 DEF Remove
    <2> QED
      BY <1>5, <2>1, <2>2, <2>3 DEF Remove
  <1>6. CASE Purge
    <2>1. CommandTypeOK' /\ step' = "none"
      BY <1>6, EndsTyped DEF Purge, Result
    <2> QED
      BY <1>6, <2>1 DEF Purge
  <1>7. CASE StopUnseen
    <2>1. CommandTypeOK' /\ step' \in {"none", "remove"}
      BY <1>7, EndsTyped, GoesTyped DEF StopUnseen, Stopped, Result, Step
    <2> QED
      BY <1>7, <2>1 DEF StopUnseen
  <1> QED
    BY <1>1, <1>2, <1>3, <1>4, <1>5, <1>6, <1>7

LEMMA SoundMachine ==
  ASSUME Sound,
         StopsAtLast \/ Crash \/ Restart \/ Reboot \/ Store \/ ByHand
  PROVE  Sound'
  <1> USE DEF Sound, TypeOK, InstalledTypeOK, ServiceTypeOK, HistoryTypeOK,
              Defined, managerVars, User
  <1>1. CASE StopsAtLast
    <2>1. CommandTypeOK' /\ step' = step /\ version' = version
      BY <1>1, CommandKept DEF StopsAtLast, historyVars
    <2>2. /\ ~stopping' /\ ~deleting'
          /\ stopping' \in BOOLEAN /\ deleting' \in BOOLEAN
      BY <1>1 DEF StopsAtLast, ProcessEnds
    <2> QED
      BY <1>1, <2>1, <2>2 DEF StopsAtLast, ProcessEnds, historyVars
  <1>2. CASE Crash
    <2>1. CommandTypeOK' /\ step' = step /\ version' = version
      BY <1>2, CommandKept DEF Crash
    <2>2. /\ ~stopping' /\ ~deleting' /\ restarting' \in BOOLEAN
          /\ stopping' \in BOOLEAN /\ deleting' \in BOOLEAN
      BY <1>2 DEF Crash, ProcessEnds
    <2> QED
      BY <1>2, <2>1, <2>2 DEF Crash, Accident, ProcessEnds
  <1>3. CASE Restart
    <2>1. CommandTypeOK' /\ step' = step /\ version' = version
      BY <1>3, CommandKept DEF Restart, historyVars
    <2>2. Ready \in Definition
      BY <1>3 DEF Restart, Ready
    <2>3. process' \in Process
      BY <1>3, <2>1, <2>2 DEF Restart, Ready, Starts, Started, Process
    <2>4. process' # None /\ restarting' \in BOOLEAN
      BY <1>3 DEF Restart, Starts
    <2> QED
      BY <1>3, <2>1, <2>2, <2>3, <2>4 DEF Restart, historyVars
  <1>4. CASE Reboot
    <2>1. CommandTypeOK' /\ step' = "none"
      BY <1>4, EndsTyped DEF Reboot, CommandTypeOK, Result
    <2>2. /\ ~stopping' /\ ~deleting' /\ restarting' \in BOOLEAN
          /\ stopping' \in BOOLEAN /\ deleting' \in BOOLEAN
      BY <1>4 DEF Reboot
    <2>3. definition' \in {definition, None} /\ loaded' \in {loaded, definition'}
      BY <1>4 DEF Reboot
    <2>4. process' \in Process \cup {None}
      BY <1>4, <2>1, <2>2, <2>3 DEF Reboot, Started, Process
    <2> QED
      BY <1>4, <2>1, <2>2, <2>3, <2>4 DEF Reboot, Accident
  <1>5. CASE Store
    <2>1. CommandTypeOK' /\ step' = step /\ version' = version
      BY <1>5, CommandKept DEF Store
    <2>2. foreign' \in BOOLEAN
      BY <1>5 DEF Store
    <2>3. owner' \in User \cup {None}
      BY <1>5 DEF Store, Process, Definition
    <2> QED
      BY <1>5, <2>1, <2>2, <2>3 DEF Store, Accident
  <1>6. CASE ByHand
    <2>1. CommandTypeOK' /\ step' = step /\ version' = version
      BY <1>6, CommandKept DEF ByHand
    <2>2. foreign' \in BOOLEAN /\ clean' \in BOOLEAN
      BY <1>6 DEF ByHand
    <2> QED
      BY <1>6, <2>1, <2>2 DEF ByHand, Accident
  <1> QED
    BY <1>1, <1>2, <1>3, <1>4, <1>5, <1>6

LEMMA SoundInit == Init => Sound
  <1> SUFFICES ASSUME Init PROVE Sound
    OBVIOUS
  <1>1. InstalledTypeOK /\ ~Defined
    BY DEF Init, InstalledTypeOK, Defined
  <1>2. ServiceTypeOK /\ ~stopping /\ ~deleting
    BY DEF Init, ServiceTypeOK
  <1>3. CommandTypeOK /\ step = "none"
    BY DEF Init, CommandTypeOK, Result, Step
  <1>4. HistoryTypeOK
    BY DEF Init, HistoryTypeOK
  <1> QED
    BY <1>1, <1>2, <1>3, <1>4 DEF Sound, TypeOK

LEMMA SoundStep == Sound /\ [Next]_vars => Sound'
  <1> SUFFICES ASSUME Sound, [Next]_vars PROVE Sound'
    OBVIOUS
  <1>1. CASE Next
    BY <1>1, SoundCommands, SoundInstall, SoundRemoval, SoundMachine DEF Next
  <1>2. CASE UNCHANGED vars
    <2>1. CommandTypeOK' /\ step' = step /\ version' = version
      BY <1>2, CommandKept DEF vars, historyVars, Sound, TypeOK
    <2> QED
      BY <1>2, <2>1
      DEF vars, managerVars, historyVars, Sound, TypeOK, InstalledTypeOK,
          ServiceTypeOK, HistoryTypeOK, Defined
  <1> QED
    BY <1>1, <1>2

(* Every state of an installation is well typed: a service that is to stop *)
(* or to be deleted runs, whatever failed or crashed before.               *)
THEOREM TypeCorrect == Spec => []TypeOK
  <1>1. Sound => TypeOK
    BY DEF Sound
  <1> QED
    BY <1>1, SoundInit, SoundStep, PTL DEF Spec
-----------------------------------------------------------------------------
(* What a command's step says about the command.                           *)
Course ==
  /\ step \in {"binary", "account", "prepare", "define"} => command = "install"
  /\ step = "start" => command \in {"install", "start"}
  /\ step = "reload" => command = "install" \/ definition = None
  /\ command # "none" => done = "none"

(* From the removal on, there is no definition, or only until the process  *)
(* ends; and systemd has heard of it when the identity may be purged.      *)
Removed ==
  step = "purge" \/ done \in {"uninstall", "purge"} =>
    /\ definition = None \/ deleting
    /\ platform = "systemd" => loaded = None

Leaves == Sound /\ Course /\ Removed

LEMMA LeavesCommands ==
  ASSUME Leaves,
         \/ Abort \/ BeginStart \/ BeginStop
         \/ \E v \in Version : BeginInstall(v)
         \/ \E p \in BOOLEAN : BeginUninstall(p) \/ UninstallNothing(p)
  PROVE  Course' /\ Removed'
  <1> USE DEF Leaves, Sound, Course, Removed, managerVars
  <1>1. CASE Abort
    BY <1>1 DEF Abort, Ends
  <1>2. CASE BeginStart \/ BeginStop
    BY <1>2 DEF BeginStart, BeginStop, Begins
  <1>3. CASE \E v \in Version : BeginInstall(v)
    BY <1>3 DEF BeginInstall, Begins
  <1>4. CASE \E p \in BOOLEAN : BeginUninstall(p)
    BY <1>4 DEF BeginUninstall, Begins
  <1>5. CASE \E p \in BOOLEAN : UninstallNothing(p)
    BY <1>5 DEF UninstallNothing, commandVars
  <1> QED
    BY <1>1, <1>2, <1>3, <1>4, <1>5

LEMMA LeavesInstall ==
  ASSUME Leaves,
         \/ PlaceBinary \/ EnsureAccount \/ PrepareState \/ Define
         \/ Reload \/ StartService
  PROVE  Course' /\ Removed'
  <1> USE DEF Leaves, Sound, Course, Removed, managerVars
  <1>1. CASE PlaceBinary
    BY <1>1 DEF PlaceBinary, Goes
  <1>2. CASE EnsureAccount
    BY <1>2 DEF EnsureAccount, Goes
  <1>3. CASE PrepareState
    BY <1>3 DEF PrepareState, Goes
  <1>4. CASE Define
    BY <1>4 DEF Define, Goes
  <1>5. CASE Reload
    BY <1>5 DEF Reload, Goes
  <1>6. CASE StartService
    BY <1>6 DEF StartService, Ends
  <1> QED
    BY <1>1, <1>2, <1>3, <1>4, <1>5, <1>6

LEMMA LeavesRemoval ==
  ASSUME Leaves,
         \/ StopService \/ StopFails \/ AskToStop \/ WaitForStop
         \/ StopUnseen \/ Remove \/ Purge
  PROVE  Course' /\ Removed'
  <1> USE DEF Leaves, Sound, Course, Removed, managerVars
  <1>1. CASE StopService
    BY <1>1 DEF StopService, Stopped, Ends, Goes
  <1>2. CASE StopFails
    BY <1>2 DEF StopFails, Goes
  <1>3. CASE AskToStop
    BY <1>3 DEF AskToStop, Stopped, Ends, Goes
  <1>4. CASE WaitForStop
    BY <1>4 DEF WaitForStop, Stopped, Ends, Goes
  <1>5. CASE Remove
    BY <1>5 DEF Remove, Unloads, Goes
  <1>6. CASE Purge
    BY <1>6 DEF Purge, Ends
  <1>7. CASE StopUnseen
    BY <1>7 DEF StopUnseen, Stopped, Ends, Goes
  <1> QED
    BY <1>1, <1>2, <1>3, <1>4, <1>5, <1>6, <1>7

LEMMA LeavesMachine ==
  ASSUME Leaves,
         StopsAtLast \/ Crash \/ Restart \/ Reboot \/ Store \/ ByHand
  PROVE  Course' /\ Removed'
  <1> USE DEF Leaves, Sound, Course, Removed, managerVars
  <1>1. CASE StopsAtLast
    BY <1>1 DEF StopsAtLast, ProcessEnds, commandVars, historyVars
  <1>2. CASE Crash
    BY <1>2 DEF Crash, ProcessEnds, commandVars
  <1>3. CASE Restart
    BY <1>3 DEF Restart, commandVars, historyVars
  <1>4. CASE Reboot
    BY <1>4 DEF Reboot, Ends
  <1>5. CASE Store
    BY <1>5 DEF Store, commandVars
  <1>6. CASE ByHand
    BY <1>6 DEF ByHand, commandVars
  <1> QED
    BY <1>1, <1>2, <1>3, <1>4, <1>5, <1>6

LEMMA LeavesStep == Leaves /\ [Next]_vars => Leaves'
  <1> SUFFICES ASSUME Leaves, [Next]_vars PROVE Leaves'
    OBVIOUS
  <1>1. Sound'
    BY SoundStep DEF Leaves
  <1>2. CASE Next
    BY <1>1, <1>2, LeavesCommands, LeavesInstall, LeavesRemoval, LeavesMachine
    DEF Next, Leaves
  <1>3. CASE UNCHANGED vars
    BY <1>1, <1>3
    DEF vars, managerVars, commandVars, historyVars, Leaves, Course, Removed
  <1> QED
    BY <1>2, <1>3

LEMMA LeavesInit == Init => Leaves
  BY SoundInit DEF Init, Leaves, Course, Removed

(* What was removed stays gone once its process has, however often it      *)
(* crashed, a stop failed or the machine was started anew in between.  Of  *)
(* launchd it says so only where the job is no longer loaded: after a      *)
(* bootout that failed it starts the removed agent again after a crash.    *)
THEOREM NothingComesBack == Spec => []RemovedStaysGone
  <1>1. Leaves => RemovedStaysGone
    BY DEF Leaves, Sound, TypeOK, InstalledTypeOK, ServiceTypeOK, Platform,
           Removed, RemovedStaysGone, Gone, Ready
  <1> QED
    BY <1>1, LeavesInit, LeavesStep, PTL DEF Spec
-----------------------------------------------------------------------------
(* Once uninstall saw the service stopped for good there is no process and *)
(* no restart pending until it has ended, and none after a purge.          *)
Quiet ==
  /\ step # "none" => command # "none"
  /\ step \in {"stop", "wait", "remove", "purge"} => command # "install"
  /\ clean /\ step = "reload" => command # "install"
  /\ clean => step \in {"none", "remove", "reload", "purge"}
  /\ clean /\ (step # "none" \/ done = "purge") => process = None /\ ~restarting
  /\ clean /\ done = "purge" => owner = None

LEMMA QuietStep == Leaves /\ Quiet /\ [Next]_vars => Quiet'
  <1> SUFFICES ASSUME Leaves, Quiet, [Next]_vars PROVE Quiet'
    OBVIOUS
  <1> USE DEF Leaves, Sound, TypeOK, ServiceTypeOK, HistoryTypeOK, Course, Removed,
              Quiet, managerVars
  <1>1. CASE Abort
    BY <1>1 DEF Abort, Ends
  <1>2. CASE \/ BeginStart \/ BeginStop \/ \E v \in Version : BeginInstall(v)
             \/ \E p \in BOOLEAN : BeginUninstall(p)
    BY <1>2 DEF BeginStart, BeginStop, BeginInstall, BeginUninstall, Begins
  <1>3. CASE \E p \in BOOLEAN : UninstallNothing(p)
    BY <1>3 DEF UninstallNothing, commandVars
  <1>4. CASE PlaceBinary \/ EnsureAccount \/ PrepareState \/ Define
    <2>1. step' \in {"account", "prepare", "define", "reload", "start"}
      BY <1>4 DEF PlaceBinary, EnsureAccount, PrepareState, Define, Goes
    <2>2. UNCHANGED <<command, done, clean>>
      BY <1>4 DEF PlaceBinary, EnsureAccount, PrepareState, Define, Goes
    <2>3. ~clean /\ command # "none"
      BY <1>4 DEF PlaceBinary, EnsureAccount, PrepareState, Define
    <2> QED
      BY <2>1, <2>2, <2>3
  <1>5. CASE Reload
    BY <1>5 DEF Reload, Goes
  <1>6. CASE StartService
    BY <1>6 DEF StartService, Ends
  <1>7. CASE StopService
    BY <1>7 DEF StopService, Stopped, Ends, Goes
  <1>8. CASE StopFails \/ StopUnseen
    BY <1>8 DEF StopFails, StopUnseen, Stopped, Ends, Goes
  <1>9. CASE AskToStop
    BY <1>9 DEF AskToStop, Active, Stopped, Ends, Goes
  <1>10. CASE WaitForStop
    BY <1>10 DEF WaitForStop, HasStopped, Stopped, Ends, Goes
  <1>11. CASE Remove
    BY <1>11 DEF Remove, Unloads, Goes
  <1>12. CASE Purge
    BY <1>12 DEF Purge, Ends
  <1>13. CASE StopsAtLast
    BY <1>13 DEF StopsAtLast, ProcessEnds, commandVars, historyVars
  <1>14. CASE Crash
    BY <1>14 DEF Crash, ProcessEnds, commandVars
  <1>15. CASE Restart
    BY <1>15 DEF Restart, commandVars, historyVars
  <1>16. CASE Reboot
    BY <1>16 DEF Reboot, Ends
  <1>17. CASE Store
    BY <1>17 DEF Store, commandVars
  <1>18. CASE ByHand
    BY <1>18 DEF ByHand, commandVars
  <1>19. CASE UNCHANGED vars
    BY <1>19 DEF vars, commandVars, historyVars
  <1> QED
    BY <1>1, <1>2, <1>3, <1>4, <1>5, <1>6, <1>7, <1>8, <1>9, <1>10, <1>11,
       <1>12, <1>13, <1>14, <1>15, <1>16, <1>17, <1>18, <1>19 DEF Next

(* A purge is final: with a service that was seen to stop, and no restart  *)
(* pending, nothing of the identity is left and nothing runs that could    *)
(* write it again, whatever crashed or rebooted on the way                 *)
(* (main.go:276, service_windows.go:435-436).                              *)
THEOREM PurgeStaysPurged == Spec => []PurgeIsFinal
  <1>1. Init => Quiet
    BY DEF Init, Quiet
  <1>2. Quiet => PurgeIsFinal
    BY DEF Quiet, PurgeIsFinal
  <1> QED
    BY <1>1, <1>2, LeavesInit, LeavesStep, QuietStep, PTL DEF Spec
-----------------------------------------------------------------------------
(* launchd keeps a job only while it runs it or is about to; and nobody    *)
(* but systemd runs the agent under another account than root.             *)
Jobs ==
  /\ platform = "launchd" /\ loaded # None => process # None \/ restarting
  /\ platform # "systemd" /\ definition # None => definition.user = "root"
  /\ step = "reload" => platform = "systemd"

(* An installation that began with nothing running meets nothing that      *)
(* runs, and its definition can read the identity by the time it starts.   *)
Underway ==
  command = "install" /\ fresh =>
    /\ process = None /\ ~restarting /\ owner # None /\ step # "none"
    /\ step \in {"define", "reload", "start"} => owner = Prepared
    /\ step \in {"reload", "start"} =>
         definition # None /\ definition.user = ServiceUser
    /\ step = "start" /\ platform = "systemd" => loaded = definition

(* Once it has succeeded, the manager has read what lies on disk and runs  *)
(* it, or is about to.                                                     *)
Running ==
  done = "install" /\ fresh =>
    /\ command = "none" /\ owner # None
    /\ definition # None /\ Ready = definition
    /\ ~stopping /\ ~deleting
    /\ platform = "systemd" => enabled
    /\ (platform = "scm" => recovers) =>
         process = Installed \/ (process = None /\ restarting)
    /\ platform = "systemd" /\ ~foreign => CanRead(definition.user)

Returns == Leaves /\ Quiet /\ Jobs /\ Underway /\ Running

(* What the manager starts is what is installed, if it can be started.     *)
LEMMA StartsInstalled ==
  ASSUME NEW d, CanRead(d.user), d = definition
  PROVE  Started(d) = Installed
  BY DEF Started, Installed

(* A definition that runs as root, or as the account the identity belongs  *)
(* to, can be started.                                                     *)
LEMMA ReadableByUser ==
  ASSUME Sound, Jobs, owner # None, owner = Prepared, definition # None,
         definition.user = ServiceUser
  PROVE  CanRead(definition.user)
  BY DEF CanRead, Prepared, ServiceUser

LEMMA ReturnsCommands ==
  ASSUME Returns,
         \/ Abort \/ BeginStart \/ BeginStop
         \/ \E v \in Version : BeginInstall(v)
         \/ \E p \in BOOLEAN : BeginUninstall(p) \/ UninstallNothing(p)
  PROVE  Jobs' /\ Underway' /\ Running'
  <1> USE DEF Returns, Leaves, Sound, Quiet, Course, Jobs, Underway, Running,
              Prepared, ServiceUser, Ready, managerVars
  <1>1. CASE Abort
    BY <1>1 DEF Abort, Ends
  <1>2. CASE BeginStart \/ BeginStop
    BY <1>2 DEF BeginStart, BeginStop, Begins
  <1>3. CASE \E v \in Version : BeginInstall(v)
    <2>1. owner' # None /\ step' = "binary" /\ command' = "install"
          /\ done' = "none"
      BY <1>3, InstallationAssumption DEF BeginInstall, Begins, User
    <2>2. fresh' = (process = None /\ ~restarting)
      BY <1>3 DEF BeginInstall
    <2>3. UNCHANGED <<platform, definition, loaded, process, restarting>>
      BY <1>3 DEF BeginInstall, Begins
    <2> QED
      BY <2>1, <2>2, <2>3
  <1>4. CASE \E p \in BOOLEAN : BeginUninstall(p)
    BY <1>4 DEF BeginUninstall, Begins
  <1>5. CASE \E p \in BOOLEAN : UninstallNothing(p)
    BY <1>5 DEF UninstallNothing, commandVars
  <1> QED
    BY <1>1, <1>2, <1>3, <1>4, <1>5

LEMMA ReturnsInstall ==
  ASSUME Returns,
         \/ PlaceBinary \/ EnsureAccount \/ PrepareState \/ Define
         \/ Reload
  PROVE  Jobs' /\ Underway' /\ Running'
  <1> USE DEF Returns, Leaves, Sound, Quiet, Course, Jobs, Underway, Running,
              Prepared, ServiceUser, Ready, managerVars, Goes
  <1>1. CASE PlaceBinary
    BY <1>1 DEF PlaceBinary
  <1>2. CASE EnsureAccount
    BY <1>2 DEF EnsureAccount
  <1>3. CASE PrepareState
    <2>1. /\ owner' = Prepared /\ Prepared' = Prepared
          /\ owner # None => owner' # None
      BY <1>3, InstallationAssumption DEF PrepareState, User
    <2>2. step' = "define" /\ command' = command /\ done' = "none"
      BY <1>3 DEF PrepareState
    <2> QED
      BY <1>3, <2>1, <2>2 DEF PrepareState
  <1>4. CASE Define
    <2>1. /\ definition' \in Definition /\ definition'.user = ServiceUser
          /\ ServiceUser' = ServiceUser
      BY <1>4 DEF Define, Definition, User
    <2>2. definition' # None
      BY <2>1, InstallationAssumption
    <2>3. /\ step' = IF platform = "systemd" THEN "reload" ELSE "start"
          /\ command' = command /\ done' = "none"
      BY <1>4 DEF Define
    <2> QED
      BY <1>4, <2>1, <2>2, <2>3 DEF Define
  <1>5. CASE Reload
    BY <1>5 DEF Reload
  <1> QED
    BY <1>1, <1>2, <1>3, <1>4, <1>5

LEMMA ReturnsStart ==
  ASSUME Returns, StartService
  PROVE  Jobs' /\ Underway' /\ Running'
  <1>1. command' = "none" /\ done' = command /\ step' = "none"
    BY DEF StartService, Ends
  <1>2. Jobs'
    BY <1>1 DEF Returns, Jobs, StartService, Starts
  <1>3. Underway'
    BY <1>1 DEF Underway
  <1>4. ASSUME command = "install", fresh
        PROVE  Running'
    <2>1. /\ process = None /\ ~restarting /\ ~stopping /\ ~deleting
          /\ definition # None /\ definition.user = ServiceUser
          /\ owner # None /\ owner = Prepared
      BY <1>4
      DEF Returns, Underway, StartService, Leaves, Sound, TypeOK, ServiceTypeOK
    <2>2. CanRead(definition.user)
      BY <2>1, ReadableByUser DEF Returns, Leaves
    <2>3. platform # "scm" => loaded' = definition
      BY <1>4, <2>1
      DEF Returns, Leaves, Sound, TypeOK, InstalledTypeOK, Platform, Underway,
          Jobs, StartService
    <2>4. process' = Started(definition)
      BY <2>1, <2>3 DEF StartService, Starts
    <2>5. process' = Installed
      BY <2>2, <2>4, StartsInstalled
    <2>6. UNCHANGED Installed
      BY DEF StartService, Installed
    <2>7. UNCHANGED <<platform, definition, stopping, deleting, owner>>
      BY DEF StartService
    <2>8. CanRead(definition.user)'
      BY <2>2, <2>7 DEF CanRead
    <2>9. (Ready = definition)'
      BY <2>3, <2>7 DEF Ready
    <2>10. enabled'
      BY <1>4 DEF StartService
    <2> QED
      BY <1>1, <2>1, <2>5, <2>6, <2>7, <2>8, <2>9, <2>10 DEF Running
  <1> QED
    BY <1>1, <1>2, <1>3, <1>4 DEF Running, StartService

LEMMA ReturnsRemoval ==
  ASSUME Returns,
         \/ StopService \/ StopFails \/ AskToStop \/ WaitForStop
         \/ StopUnseen \/ Remove \/ Purge
  PROVE  Jobs' /\ Underway' /\ Running'
  <1> USE DEF Returns, Leaves, Sound, Quiet, Course, Jobs, Underway, Running,
              Prepared, ServiceUser, Ready, managerVars, Stopped, Goes, Ends
  <1>1. CASE StopService
    BY <1>1 DEF StopService
  <1>2. CASE StopFails
    BY <1>2 DEF StopFails
  <1>3. CASE AskToStop
    BY <1>3 DEF AskToStop
  <1>4. CASE WaitForStop
    BY <1>4 DEF WaitForStop
  <1>5. CASE Remove
    BY <1>5 DEF Remove, Unloads
  <1>6. CASE Purge
    BY <1>6 DEF Purge
  <1>7. CASE StopUnseen
    BY <1>7 DEF StopUnseen
  <1> QED
    BY <1>1, <1>2, <1>3, <1>4, <1>5, <1>6, <1>7

LEMMA ReturnsMachine ==
  ASSUME Returns,
         StopsAtLast \/ Crash \/ Restart \/ Reboot \/ Store \/ ByHand
  PROVE  Jobs' /\ Underway' /\ Running'
  <1> USE DEF Returns, Leaves, Sound, Quiet, Course, Jobs, Underway, Running,
              Prepared, ServiceUser, Ready, Installed, CanRead, commandVars,
              historyVars, managerVars
  <1>1. CASE StopsAtLast
    BY <1>1 DEF StopsAtLast, ProcessEnds
  <1>2. CASE Crash
    BY <1>2 DEF Crash, ProcessEnds
  <1>3. CASE Restart
    BY <1>3 DEF Restart, Starts, Started
  <1>4. CASE Reboot
    BY <1>4 DEF Reboot, Ends, Started
  <1>5. CASE Store
    <2>1. owner' \in User /\ owner' # None /\ owner' = process.definition.user
      BY <1>5, InstallationAssumption
      DEF Store, TypeOK, ServiceTypeOK, Process, Definition
    <2>2. foreign' = (process.definition # definition)
      BY <1>5 DEF Store
    <2> QED
      BY <1>5, <2>1, <2>2 DEF Store
  <1>6. CASE ByHand
    <2>1. owner' # None /\ foreign' /\ command = "none"
      BY <1>6, InstallationAssumption DEF ByHand, User
    <2> QED
      BY <1>6, <2>1 DEF ByHand
  <1> QED
    BY <1>1, <1>2, <1>3, <1>4, <1>5, <1>6

LEMMA ReturnsStep == Returns /\ [Next]_vars => Returns'
  <1> SUFFICES ASSUME Returns, [Next]_vars PROVE Returns'
    OBVIOUS
  <1>1. Leaves' /\ Quiet'
    BY LeavesStep, QuietStep DEF Returns
  <1>2. CASE Next
    <2>1. Jobs' /\ Underway' /\ Running'
      BY <1>2, ReturnsCommands, ReturnsInstall, ReturnsStart, ReturnsRemoval,
         ReturnsMachine DEF Next
    <2> QED
      BY <1>1, <2>1 DEF Returns
  <1>3. CASE UNCHANGED vars
    BY <1>1, <1>3
    DEF vars, managerVars, commandVars, historyVars, Returns, Jobs, Underway,
        Running, Prepared, ServiceUser, Ready, Installed, CanRead
  <1> QED
    BY <1>2, <1>3

(* An installation that began with nothing running runs what it brought,   *)
(* and comes back with it after every crash and every boot                 *)
(* (service_linux.go:45, launchd.go:126-132, README, Installing), unless   *)
(* the Windows manager has refused the recovery policy.                    *)
THEOREM InstallationComesBack == Spec => []InstalledComesBack
  <1>1. Init => Returns
    BY LeavesInit
    DEF Init, Returns, Quiet, Jobs, Underway, Running
  <1>2. Returns => InstalledComesBack
    BY DEF Returns, Running, InstalledComesBack, InstallMeansRestart, Ready,
           Started, Installed, Jobs, CanRead
  <1> QED
    BY <1>1, <1>2, ReturnsStep, PTL DEF Spec
=============================================================================
