------------------------------- MODULE Runner -------------------------------
(***************************************************************************)
(* The agent's main loop (internal/agent/agent.go, Runner.Run and what it  *)
(* calls) over its Schedule, with the server, the state file, the clocks   *)
(* and the service manager that starts and stops it.                       *)
(*                                                                         *)
(* The loop is a single goroutine: it shares nothing but the clocks and    *)
(* the state file, so an action stands for the statements between two      *)
(* places where the world can matter - a reading of the clock, a sleep,    *)
(* the network, the disk.  The process may die between any two of them.    *)
(***************************************************************************)
EXTENDS Schedule, FiniteSets

CONSTANTS
  ServerConfigs,            \* the configurations the server may answer with
  NoRuntime,                \* the state file holds no configuration
  DefaultDiscoveryInterval, \* what a never-configured agent starts on
  BackoffBase, BackoffMax,  \* the retry delay after a failed report
  MaxShift,                 \* the doublings it is held to
  TerminalFailure,          \* the failure count a final refusal jumps to
  HasMono,                  \* time.Now, or a test's clock without a second one
  SyncsDirectory,           \* Save ends with a sync of the directory (Unix)
  ClockSteps,               \* by how much the wall clock may be set
  StartWall,                \* what the wall clock shows at first
  MaxTime, MaxSteps, MaxLaunches  \* bounds: ticks, clock steps, starts

ASSUME RunnerAssumption ==
  /\ \A config \in ServerConfigs : IsRuntime(config)
  /\ ~IsRuntime(NoRuntime)
  /\ DefaultDiscoveryInterval \in Nat
  /\ BackoffBase \in Nat \ {0}
  /\ BackoffMax \in Nat
  /\ MaxShift \in Nat
  /\ TerminalFailure \in Nat /\ TerminalFailure > MaxShift
  /\ BackoffBase * 2^MaxShift >= BackoffMax
  /\ HasMono \in BOOLEAN
  /\ SyncsDirectory \in BOOLEAN
  /\ ClockSteps \subseteq Int
  /\ StartWall \in Nat \ {0}
  /\ MaxTime \in Nat
  /\ MaxSteps \in Nat
  /\ MaxLaunches \in Nat

VARIABLES
  wall, mono,       \* what the two clocks show
  pc,               \* where the loop is; "down" when no process runs
  once,             \* --once: a single round, then exit
  now,              \* Run's local instant, read at the top of the loop
  discoveryDue, dueTargets,  \* what Due returned
  earliest, todo,   \* Wait's running minimum, and the targets it has left
  wakeAt,           \* when the timer of the current sleep fires
  nap,              \* how long that sleep is
  observations,     \* the round's report: target -> online, partial
  failures,         \* consecutive failed reports
  updated,          \* the configuration of the last response (state.Runtime)
  persisted,        \* the configuration Run believes to be stored
  reported,         \* the last answer sent for each target, partial
  disk              \* the configuration in the state file

(* What a property needs to remember and the program does not.             *)
VARIABLES
  steps,            \* how often the wall clock was set
  launches,         \* how often the agent was started
  barred,           \* the last server answer was a final refusal
  saveFailed,       \* the last Save this round asked for failed
  unsettled,        \* the last Save that renamed the file reported a failure
  setBack,          \* the wall clock was set back while this process ran
  sweepsBought,     \* extra sweeps a target caused since it last answered
  lastRound         \* the instant of the last round, if no news came since

clockVars == <<wall, mono>>
passVars == <<now, discoveryDue, dueTargets, earliest, todo, wakeAt,
              nap, observations>>
runVars == <<once, failures, updated, persisted, reported>>
historyVars == <<barred, saveFailed, unsettled, setBack, sweepsBought,
                 lastRound>>
worldVars == <<disk, steps, launches>>

vars == <<scheduleVars, clockVars, pc, passVars, runVars, historyVars,
          worldVars>>

-----------------------------------------------------------------------------
ClockNow == Reading(wall, mono, HasMono)

DefaultRuntime ==
  [discovery |-> DefaultDiscoveryInterval, discoveryMin |-> 0, checkIn |-> 0,
   subnets |-> {}, targets |-> EmptyMap]

Stored == IF disk = NoRuntime THEN DefaultRuntime ELSE disk

(* Mutant of Delay: the doubling is never held. *)
DelayUncapped(attempt) == BackoffBase * 2^(attempt - 1)

(* The retry delay before its jitter. *)
Delay(attempt) ==
  LET shift == IF attempt - 1 < MaxShift THEN attempt - 1 ELSE MaxShift
      delay == BackoffBase * 2^shift
  IN  IF delay > BackoffMax \/ delay <= 0 THEN BackoffMax ELSE delay

-----------------------------------------------------------------------------
Init ==
  /\ runtime = DefaultRuntime
  /\ discoveryDueAt = ZeroTime
  /\ lastDiscoveryAt = ZeroTime
  /\ checkInDueAt = ZeroTime
  /\ targetDueAt = EmptyMap
  /\ answering = EmptyMap
  /\ wall = StartWall /\ mono = 0
  /\ pc = "down"
  /\ now = ZeroTime
  /\ discoveryDue = FALSE /\ dueTargets = {}
  /\ earliest = ZeroTime /\ todo = {}
  /\ wakeAt = 0 /\ nap = 0
  /\ observations = EmptyMap
  /\ once = FALSE
  /\ failures = 0
  /\ updated = DefaultRuntime /\ persisted = DefaultRuntime
  /\ reported = EmptyMap
  /\ barred = FALSE /\ saveFailed = FALSE
  /\ unsettled = FALSE /\ setBack = FALSE
  /\ sweepsBought = [id \in ID |-> 0]
  /\ lastRound = ZeroTime
  /\ disk = NoRuntime /\ steps = 0 /\ launches = 0

(* The variables of one pass of the loop go out of scope. *)
EndPass ==
  /\ now' = ZeroTime
  /\ discoveryDue' = FALSE /\ dueTargets' = {}
  /\ earliest' = ZeroTime /\ todo' = {}
  /\ wakeAt' = 0 /\ nap' = 0
  /\ observations' = EmptyMap

(* Run returns, or the process dies: nothing but the state file survives.  *)
Exit ==
  /\ pc' = "down"
  /\ EndPass
  /\ New(DefaultRuntime, ZeroTime)
  /\ once' = FALSE
  /\ failures' = 0
  /\ updated' = DefaultRuntime /\ persisted' = DefaultRuntime
  /\ reported' = EmptyMap
  /\ barred' = FALSE /\ saveFailed' = FALSE
  /\ unsettled' = FALSE /\ setBack' = FALSE
  /\ sweepsBought' = [id \in ID |-> 0]
  /\ lastRound' = ZeroTime
  /\ UNCHANGED <<clockVars, worldVars>>

(* The service manager, or an operator with --once, starts the agent.      *)
Launch ==
  /\ pc = "down"
  /\ launches < MaxLaunches
  /\ launches' = launches + 1
  /\ once' \in BOOLEAN
  /\ New(Stored, ClockNow)
  /\ updated' = Stored
  /\ persisted' = Stored
  /\ failures' = 0
  /\ reported' = EmptyMap
  /\ pc' = "top"
  /\ UNCHANGED <<clockVars, passVars, historyVars, disk, steps>>

(* SIGTERM or a crash, at any moment. *)
Kill == pc # "down" /\ Exit

(* The top of the loop: read the clock, pull the schedule back to it. *)
Begin ==
  /\ pc = "top"
  /\ now' = ClockNow
  /\ Reconcile(ClockNow)
  /\ pc' = "decide"
  /\ UNCHANGED <<runtime, answering, clockVars, discoveryDue, dueTargets,
                 earliest, todo, wakeAt, nap, observations, runVars,
                 historyVars, worldVars>>

Idle == ~DiscoveryDue(now) /\ DueTargets(now) = {} /\ ~CheckInDue(now)

(* There is something to do, or the server is owed a word. *)
StartRound ==
  /\ pc = "decide"
  /\ ~Idle
  /\ discoveryDue' = DiscoveryDue(now)
  /\ dueTargets' = DueTargets(now)
  /\ pc' = "round"
  /\ UNCHANGED <<scheduleVars, clockVars, now, earliest, todo, wakeAt,
                 nap, observations, runVars, historyVars, worldVars>>

(* Mutant of FirstDeadline: Wait knows of sweeps and targets only. *)
FirstDeadlineOfSweeps == discoveryDueAt

(* Wait begins with the two deadlines that are not a target's. *)
FirstDeadline ==
  IF Before(checkInDueAt, discoveryDueAt) THEN checkInDueAt ELSE discoveryDueAt

StartWait ==
  /\ pc = "decide"
  /\ Idle
  /\ ~once
  /\ earliest' = FirstDeadline
  /\ todo' = Scheduled
  /\ pc' = "scan"
  /\ UNCHANGED <<scheduleVars, clockVars, now, discoveryDue, dueTargets,
                 wakeAt, nap, observations, runVars, historyVars, worldVars>>

(* One pass of Wait's loop.  Its order is the server's order of targets,   *)
(* which is left open: with mixed instants the result depends on it.       *)
ScanTarget(id) ==
  /\ pc = "scan"
  /\ id \in todo
  /\ todo' = todo \ {id}
  /\ earliest' = IF Before(targetDueAt[id], earliest)
                 THEN targetDueAt[id] ELSE earliest
  /\ UNCHANGED <<scheduleVars, clockVars, pc, now, discoveryDue,
                 dueTargets, wakeAt, nap, observations, runVars, historyVars,
                 worldVars>>

(* A sleep of d, on the monotonic clock as a timer is. *)
SleepFor(d) == nap' = d /\ wakeAt' = mono + d

(* Wait returns, and Run sleeps on it. *)
Sleep ==
  /\ pc = "scan"
  /\ todo = {}
  /\ SleepFor(IF Sub(earliest, now) > 0 THEN Sub(earliest, now) ELSE 0)
  /\ pc' = "waiting"
  /\ UNCHANGED <<scheduleVars, clockVars, now, discoveryDue, dueTargets,
                 earliest, todo, observations, runVars, historyVars, worldVars>>

Wake ==
  /\ pc \in {"waiting", "backoff"}
  /\ mono >= wakeAt
  /\ EndPass
  /\ pc' = "top"
  /\ UNCHANGED <<scheduleVars, clockVars, runVars, historyVars, worldVars>>

-----------------------------------------------------------------------------
(* What probing the due targets can come to.  A target whose packet could  *)
(* not be sent is left without an observation.  When the first probe fails *)
(* nothing is called silent; when the second one does, only candidates the *)
(* neighbour table knows by their MAC lose theirs.                         *)
ProbeResults ==
  {answers \in [dueTargets -> {"online", "silent", "unknown"}] :
     (\E id \in dueTargets : answers[id] = "silent") =>
       \A id \in dueTargets :
         answers[id] = "unknown" => runtime.targets[id].mac # NoMAC}

(* round: probe, sweep when it is due or a target has just gone quiet,     *)
(* rescue what the sweep found elsewhere, move every slot served on, and   *)
(* remember who answered.  The slots move on whatever became of the work.  *)
Round ==
  /\ pc = "round"
  /\ \E answers \in ProbeResults :
       LET unresolved  == {id \in dueTargets : answers[id] = "silent"}
           justMissing == {id \in unresolved : WasAnswering(id)}
           extra       == /\ justMissing # {}
                          /\ ~discoveryDue
                          /\ MayDiscover(now)
           sweeping    == discoveryDue \/ extra
           findable    == {id \in unresolved : runtime.targets[id].mac # NoMAC}
           observed    == {id \in dueTargets : answers[id] # "unknown"}
       IN  \E found \in SUBSET (IF sweeping THEN findable ELSE {}) :
             LET online == [id \in observed |->
                              answers[id] = "online" \/ id \in found]
             IN  /\ observations' = online
                 /\ RecordAnswers(online)
                 /\ IF sweeping
                    THEN CompletedDiscovery(now)
                    ELSE UNCHANGED <<lastDiscoveryAt, discoveryDueAt>>
                 /\ sweepsBought' =
                      [id \in ID |->
                         IF id \in observed /\ online[id] THEN 0
                         ELSE IF extra /\ id \in justMissing
                              THEN sweepsBought[id] + 1
                              ELSE sweepsBought[id]]
  /\ CompletedTargets(dueTargets, now)
  /\ lastRound' = now
  /\ pc' = "report"
  /\ UNCHANGED <<runtime, checkInDueAt, clockVars, now, discoveryDue,
                 dueTargets, earliest, todo, wakeAt, nap, runVars, barred,
                 saveFailed, unsettled, setBack, worldVars>>

(* noteAnswers: what was last sent for each target. *)
NoteAnswers ==
  reported' = [id \in DOMAIN reported \cup DOMAIN observations |->
                 IF id \in DOMAIN observations
                 THEN observations[id] ELSE reported[id]]

(* The server took the report and answered with a valid configuration. *)
Reported(config) ==
  /\ pc = "report"
  /\ failures' = 0
  /\ CompletedCheckIn(ClockNow)
  /\ NoteAnswers
  /\ updated' = config
  /\ pc' = IF config = persisted THEN "apply" ELSE "save"
  /\ barred' = FALSE
  /\ saveFailed' = FALSE
  /\ UNCHANGED <<runtime, discoveryDueAt, lastDiscoveryAt, targetDueAt,
                 answering, clockVars, passVars, once, persisted, unsettled,
                 setBack, sweepsBought, lastRound, worldVars>>

(* Mutant of Attempt: a final refusal climbs the same curve as a lost line.*)
AttemptAlike(terminal) == failures + 1

(* The failure count after one more failure. *)
Attempt(terminal) == IF terminal THEN TerminalFailure ELSE failures + 1

(* The report got no usable answer: lost, refused, or a configuration that *)
(* Validate rejects.  A final refusal goes straight to the slowest retry.  *)
ReportFailed(terminal) ==
  LET half == Delay(Attempt(terminal)) \div 2
  IN  /\ pc = "report"
      /\ ~once
      /\ failures' = Attempt(terminal)
      /\ \E jitter \in 0 .. half : SleepFor(half + jitter)
      /\ pc' = "backoff"
      /\ barred' = (barred \/ terminal)
      /\ UNCHANGED <<scheduleVars, clockVars, now, discoveryDue,
                     dueTargets, earliest, todo, observations, once, updated,
                     persisted, reported, saveFailed, unsettled, setBack,
                     sweepsBought, lastRound, worldVars>>

(* Mutant of Believed: a failed write is taken for a done one. *)
BelievedAlways(outcome) == updated

(* Save: the file is replaced by a rename, and on Unix the directory is    *)
(* synced after it.  "late" is that sync failing: an error to the caller,  *)
(* with the new configuration already in place.                            *)
SaveOutcomes ==
  {"stored", "early"} \cup (IF SyncsDirectory THEN {"late"} ELSE {})

Believed(outcome) == IF outcome = "stored" THEN updated ELSE persisted

Save(outcome) ==
  /\ pc = "save"
  /\ disk' = IF outcome = "early" THEN disk ELSE updated
  /\ persisted' = Believed(outcome)
  /\ saveFailed' = (outcome # "stored")
  /\ unsettled' = IF outcome = "early" THEN unsettled ELSE outcome = "late"
  /\ pc' = "apply"
  /\ UNCHANGED <<scheduleVars, clockVars, passVars, once, failures, updated,
                 reported, barred, setBack, sweepsBought, lastRound, steps,
                 launches>>

(* The new configuration takes effect, and what it no longer names is      *)
(* forgotten.                                                              *)
Adopt ==
  /\ pc = "apply"
  /\ ~once
  /\ Apply(updated, ClockNow)
  /\ reported' = [id \in DOMAIN reported \cap DOMAIN updated.targets |->
                    reported[id]]
  /\ sweepsBought' =
       [id \in ID |-> IF id \in Dropped(updated) THEN 0 ELSE sweepsBought[id]]
  /\ lastRound' = IF updated = runtime THEN lastRound ELSE ZeroTime
  /\ EndPass
  /\ pc' = "top"
  /\ UNCHANGED <<lastDiscoveryAt, checkInDueAt, clockVars, once, failures,
                 updated, persisted, barred, saveFailed, unsettled, setBack,
                 worldVars>>

(* With --once the first pass is the last.  Run returns when it finds      *)
(* nothing to do, with the error of a report that failed, or when the      *)
(* configuration is stored.                                                *)
ReturnOnce ==
  /\ once
  /\ pc \in {"decide", "report", "apply"}
  /\ pc = "decide" => Idle
  /\ Exit

-----------------------------------------------------------------------------
(* Time passes wherever the program waits for something: a timer, the      *)
(* network, the disk.                                                      *)
Tick ==
  /\ pc \in {"waiting", "backoff", "report", "apply"}
  /\ mono < MaxTime
  /\ wall' = wall + 1
  /\ mono' = mono + 1
  /\ UNCHANGED <<scheduleVars, pc, passVars, runVars, historyVars, worldVars>>

(* NTP, a suspended machine or an administrator sets the wall clock.  Where *)
(* it is left out, nothing reads the clock before the next place where it   *)
(* is not.                                                                  *)
StepClock(d) ==
  /\ pc \in {"top", "waiting", "backoff", "report", "apply"}
  /\ steps < MaxSteps
  /\ wall + d > 0
  /\ steps' = steps + 1
  /\ wall' = wall + d
  /\ setBack' = (setBack \/ d < 0)
  /\ UNCHANGED <<scheduleVars, mono, pc, passVars, runVars, barred, saveFailed,
                 unsettled, sweepsBought, lastRound, disk, launches>>

(* What the process does next, by itself or because a call of it returned. *)
LoopStep ==
  \/ Begin
  \/ StartRound
  \/ StartWait
  \/ \E id \in ID : ScanTarget(id)
  \/ Sleep
  \/ Wake
  \/ Round
  \/ \E config \in ServerConfigs : Reported(config)
  \/ \E terminal \in BOOLEAN : ReportFailed(terminal)
  \/ \E outcome \in SaveOutcomes : Save(outcome)
  \/ Adopt
  \/ ReturnOnce

Next ==
  \/ Launch
  \/ Kill
  \/ LoopStep
  \/ Tick
  \/ \E d \in ClockSteps : StepClock(d)

Spec == Init /\ [][Next]_vars

(* The goroutine runs on, every call it makes returns - the client and the *)
(* probes have timeouts - and a sleep is given the time it asks for.       *)
(* Nothing is assumed of the server's answers, the disk, whoever sets the  *)
(* clock, or whoever starts and stops the agent.                           *)
FairSpec == Spec /\ WF_vars(LoopStep) /\ WF_vars(Tick)
-----------------------------------------------------------------------------
(* The types of the variables, group by group. *)
PassTypeOK ==
  /\ now \in Time
  /\ discoveryDue \in BOOLEAN /\ dueTargets \subseteq ID
  /\ earliest \in Time /\ todo \subseteq ID
  /\ wakeAt \in Int /\ nap \in Nat
  /\ IsMap(observations, ID, BOOLEAN)

RunTypeOK ==
  /\ once \in BOOLEAN
  /\ failures \in Nat
  /\ IsRuntime(updated) /\ IsRuntime(persisted)
  /\ IsMap(reported, ID, BOOLEAN)

HistoryTypeOK ==
  /\ barred \in BOOLEAN /\ saveFailed \in BOOLEAN
  /\ unsettled \in BOOLEAN /\ setBack \in BOOLEAN
  /\ sweepsBought \in [ID -> Nat]
  /\ lastRound \in Time

WorldTypeOK ==
  /\ disk = NoRuntime \/ IsRuntime(disk)
  /\ steps \in Nat /\ launches \in Nat

ClockTypeOK == wall \in Nat /\ mono \in Nat

(* Typing: every variable holds a value the program could hold, a retry    *)
(* delay none beyond its ceiling (agent.go:717).                           *)
TypeOK ==
  /\ ScheduleTypeOK
  /\ ClockTypeOK
  /\ pc \in {"down", "top", "decide", "scan", "waiting", "round", "report",
             "save", "apply", "backoff"}
  /\ pc = "backoff" => nap <= BackoffMax
  /\ PassTypeOK
  /\ RunTypeOK
  /\ HistoryTypeOK
  /\ WorldTypeOK

(* The deadlines the schedule holds, each with the interval it recurs at.  *)
Deadlines ==
  {<<discoveryDueAt, DiscoveryInterval(runtime)>>,
   <<checkInDueAt, CheckInInterval(runtime)>>}
    \cup {<<targetDueAt[id], TargetInterval(runtime.targets[id])>> :
            id \in Scheduled}

(* A sleep between two rounds is never empty and never longer than the     *)
(* longest interval in force, however the wall clock was set: what         *)
(* Reconcile is for (schedule.go:123-131).                                 *)
SleepBounded ==
  pc = "waiting" =>
    /\ nap > 0
    /\ \E deadline \in Deadlines : nap <= deadline[2]

(* While the wall clock is left alone, or when no instant carries a        *)
(* monotonic reading, the agent never sleeps past any deadline, the        *)
(* check-in among them, whichever kinds of instant Wait had to compare.    *)
EarliestHonoured ==
  pc = "waiting" /\ (steps = 0 \/ ~HasMono) =>
    \A deadline \in Deadlines : nap <= Sub(deadline[1], now)

(* The check-in interval is the longest the agent may go without speaking  *)
(* to the server (config.go:50), so no sleep between two reports may be    *)
(* longer, a clock that steps backwards included.  With the clock the      *)
(* agent runs on the code breaks this; with the tests' clock it holds.     *)
SilenceBounded == pc = "waiting" => nap <= CheckInInterval(runtime)

(* What the code does promise of the same bound with any clock: it is kept *)
(* while nobody has set the wall clock back, however far ahead it was set, *)
(* and a clock without a second reading may even be set back.              *)
SilenceUnlessSetBack == (setBack => ~HasMono) => SilenceBounded

(* A target switched off is gone from every map the process keeps, so a    *)
(* year of changes cannot make them grow (agent.go:628-632), and one that  *)
(* is on has a deadline.                                                   *)
NoLeak ==
  pc # "down" =>
    /\ DOMAIN targetDueAt = DOMAIN runtime.targets
    /\ DOMAIN answering \subseteq DOMAIN runtime.targets
    /\ DOMAIN reported \subseteq DOMAIN runtime.targets

(* Two targets that share an interval and sit on the grid are due at the   *)
(* same instant whenever the agent sleeps, however they came to the grid   *)
(* and however the clock moved: they leave in one report                   *)
(* (schedule.go:248-252).  A slot is told from a deadline set by Apply or  *)
(* Reconcile by its missing monotonic reading.                             *)
OnGrid(id) == HasMono /\ ~targetDueAt[id].hasMono

SharedRounds ==
  pc = "waiting" =>
    \A a, b \in Scheduled :
      /\ OnGrid(a) /\ OnGrid(b)
      /\ TargetInterval(runtime.targets[a]) = TargetInterval(runtime.targets[b])
      => targetDueAt[a] = targetDueAt[b]

(* The agent never works twice at one instant unless the server sent it    *)
(* something new in between: no loop without a sleep (schedule.go:12-13).  *)
NoTightLoop == pc = "round" => now # lastRound

(* How long the loop may take from its top to a report: a check-in         *)
(* interval, or, once the clock it runs on was set back, the longest       *)
(* interval in force (see SilenceBounded).                                 *)
SilenceLimit ==
  IF setBack /\ HasMono
  THEN LET intervals == {deadline[2] : deadline \in Deadlines}
       IN  CHOOSE longest \in intervals : \A i \in intervals : i <= longest
  ELSE CheckInInterval(runtime)

(* The agent never stops speaking to the server for good (config.go:50-53):*)
(* from the top of its loop it comes to another report within that limit,  *)
(* whatever became of its reports, its configuration, its state file and   *)
(* its clock before - unless the clock is set meanwhile.  A loop that      *)
(* finds nothing due at the instant it woke for, because the two instants  *)
(* are of different kinds, spins or sleeps again without one.              *)
Heartbeat ==
  \A s \in 0 .. MaxSteps :
    pc = "top" /\ steps = s /\ mono + SilenceLimit <= MaxTime
      ~> pc \in {"report", "down"} \/ steps # s

(* A device that has gone quiet buys at most one extra sweep until it is   *)
(* heard again, whatever the rounds, the failed probes and the changes of  *)
(* configuration in between (agent.go:277-279).                            *)
GoneBuysOneSweep == \A id \in ID : sweepsBought[id] <= 1

(* After a final refusal, every retry is at the slowest pace until the     *)
(* server accepts a report, failures of other kinds in between included    *)
(* (agent.go:205-208).                                                     *)
TerminalIsSlowest == pc = "backoff" /\ barred => nap >= BackoffMax \div 2

(* The state file is where the last configuration lives (README, --state): *)
(* when the agent goes back to the top of its loop and this round's store  *)
(* did not fail, a restart would run what it runs now.  The code breaks    *)
(* this on Unix, where a Save may fail with the file already replaced.     *)
StoredIsInForce == pc = "top" /\ ~saveFailed => Stored = runtime

(* What is left of it: as long as the last Save that replaced the file did *)
(* not report a failure, a restart runs what the agent runs now, however   *)
(* many earlier Saves failed before their rename.                          *)
DiskHoldsLastConfiguration == ~unsettled => StoredIsInForce

(* A scheduled sweep that was not asked for early keeps its phase: the     *)
(* next one is the first after now at a whole number of intervals from the *)
(* one that was due, however long the agent was away.  One that a device   *)
(* gone quiet asked for early starts the phase anew, an interval from its  *)
(* round (schedule.go:322-327).                                            *)
DiscoveryKeepsPhase ==
  [][pc = "round" /\ pc' = "report" =>
       LET interval == DiscoveryInterval(runtime)
       IN  /\ discoveryDue =>
                /\ Sub(discoveryDueAt', discoveryDueAt) % interval = 0
                /\ Sub(discoveryDueAt', now) \in 1 .. interval
           /\ ~discoveryDue /\ discoveryDueAt' # discoveryDueAt =>
                Sub(discoveryDueAt', now) = interval]_vars
=============================================================================
