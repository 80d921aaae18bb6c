# A verification of the Pulsitor LAN agent

TLA+ specifications of the agent's own logic, the TLC runs that check them on small
instances, and proofs, checked by TLAPS, of what holds for every instance. Paths below are
relative to the repository (`src/`).

## 1. The system

The agent is one process with one goroutine that matters. It wakes when something is due,
probes devices, perhaps sweeps networks, reports to the server, takes a new configuration
from the answer, stores it, and sleeps. Around it stand a server that owns all decisions,
a network that changes under it, clocks that an NTP daemon sets, a state file that other
processes of the same binary touch, and a service manager that starts and stops it.

| Part | State it keeps | Operations | Talks to | What makes it correct |
|---|---|---|---|---|
| **Schedule** `internal/agent/schedule.go` | configuration in force, three deadlines, deadline and last answer of each target | New, Apply, Reconcile, Due, Wait, MayDiscover, Completed…, RecordAnswer | the Runner only | nothing is overslept, nothing spins, a moved clock silences nobody, equal intervals share rounds, phases are kept, no map grows |
| **Runner** `internal/agent/agent.go` | failures, last stored configuration, last reported answers | Run (one pass: reconcile, due, round, report, back off, save, apply) | Schedule, discover, report, config | one extra sweep per silence, final refusals are retried slowest, a restart runs the last configuration, it always reports again |
| **A round** `agent.go: probeTargetsContext, rescue`; `internal/discover/discover.go: RunContext` | observations, the neighbour table in hand, devices found | probe, read table, probe again, verify, sweep, rescue | kernel, network | online means that device, offline means it was asked, a move is no outage, coverage is real |
| **A probe on Linux and macOS** `internal/discover/icmp.go, icmp_unix.go` | one socket, its deadline, what was heard | send, read, settle, cancel | a reader goroutine, the network | only a host's own answer to this probe counts, silence was waited for, it ends |
| **A probe on Windows** `internal/discover/icmp_windows.go` | a closed channel of hosts, workers, counts | ask, skip, count | `IcmpSendEcho` | nothing that was not asked passes for silent, it ends |
| **discover** otherwise `internal/discover/*` | none | ProbeLocal, Attachments, Neighbours, reverse DNS | kernel | errors tell "nobody there" from "not asked" |
| **config** `internal/config/*` | the state file | Load, Save, EnsureWritable, Validate, Equal | disk | the file is a cell that is replaced as a whole and survives a power loss |
| **enrollment and purge** `cmd/pulsitor-lan-agent/main.go` | none | enrolledState, installService, uninstallService | report, config, service | a token is not spent in vain, a purge is final |
| **report** `internal/report/client.go` | none | Enroll, Report | server over HTTPS | final refusals are told from passing ones |
| **logging** `internal/logging/logging.go` | size and handle of the log file | Write, rollOver, Close | disk | an unattended log stays bounded, keeps its newest lines and stays writable |
| **service** `internal/service/*` | unit, plist or SCM entry | Install, Uninstall, Start, Stop, Query | systemd, launchd, SCM | what was installed comes back, what was removed does not |
| **the process under the SCM** `service_windows.go: Run, serviceMain, serviceControl` | last state and controls it reported, the context of its work | report, cancel | SCM | the manager's view agrees with the process, a stop is honoured |

Behaviours that are hard here, and why tests hardly reach them:

* *Two clocks.* Go instants carry a monotonic reading until `Truncate` strips it, so a
  schedule holds a mixture of them, and comparing a mixture is not an order. The tests
  inject a clock whose instants have no monotonic reading at all.
* *A world that moves between two steps.* Devices change address, the kernel's table is
  stale, an interface goes away, between any two statements of a round.
* *Threads.* A sender and a reader share a socket that a context may close under both;
  eight workers share a channel; the manager's control handler runs beside serviceMain and
  reads the status it reports under a lock which it has given back when it reports it.
* *Partial failure.* Some packets cannot be sent, one network of a sweep fails, Save fails
  after its rename, a rotation fails between closing one file and opening the next, a
  report is lost after its round was accounted for.
* *Several processes and one file.* No lock guards the state file.
* *Crashes* between any two steps, and power losses that undo what was not synced.

`PROJECT.json` lists each of these hazards at its line, with the properties that would
catch it going wrong.

## 2. Modules

| Module | Models | Lives on |
|---|---|---|
| `GoTime` | instants of package time: two readings, Sub/After/Before/Add/Truncate | external |
| `Schedule` | schedule.go: one operator per method, one variable per field | `GoTime` |
| `Runner` | `Run` and the world it meets | `Schedule` |
| `Lan` | devices, kernel table, interfaces; what a probe can return and what its error says | external, interfaces.go, icmp.go |
| `ProbeRound` | one round, taken apart | `Lan` |
| `EchoSocket` | one probe on Linux and macOS, packet by packet | – |
| `EchoPool` | one probe on Windows, worker by worker | – |
| `RotatingLog` | the log file, system call by system call | – |
| `WindowsService` | serviceMain and the control handler, and what the manager sees of them | – |
| `WindowsAgent` | the process: `WindowsService` whose work probes with `EchoPool` and logs to `RotatingLog` | those three |
| `StateStore` | abstract: a cell replaced as a whole | – |
| `StateFile` | Save, Load, EnsureWritable, enrolledState, purge by several processes | `StateStore` as `Store` |
| `Installation` | install, uninstall, start, stop under systemd, launchd and the Windows service manager | – |
| `RunnerProofs`, `RunnerSafetyProofs` | theorems about `Runner` | `Runner` |
| `ProbeRoundProofs`, `EchoSocketProofs`, `StateFileProofs`, `InstallationProofs` | theorems about the module they are named after | it |
| `WindowsPartsProofs` | theorems about `RotatingLog`, `EchoPool` and `WindowsService`, each on its own | those three |
| `WindowsAgentProofs` | theorems about the composition | `WindowsAgent`, `WindowsPartsProofs` |
| `MCRunner`, `MCProbeRound`, `MCEchoSocket`, `MCStateFile`, `MCInstallation`, `MCWindowsAgent` | instances for TLC | |

### Runner

Variables have the names of the code. `pc` says where `Run` is:

    down -> top -> decide -> scan -> waiting -> top
                          -> round -> report -> apply -> top
                                             -> save -> apply
                                             -> backoff -> top

An action is what the code does between two places where the world can matter: a reading of
the clock, a sleep, the network, the disk. `Kill` may strike at any of them, `Tick` and
`StepClock` happen wherever the program waits (where they are left out, nothing reads the
clock before the next place where they are not). `Wait`'s loop is taken apart (`StartWait`,
`ScanTarget`, `Sleep`) because its result depends on the order of the targets when instants
are mixed, and the server chooses that order. A timer runs on the monotonic clock, as Go's
does. `Round` is the whole of `round()` with every outcome `ProbeRound` shows it can have.

Ticks stand for seconds; the constants (`MinTargetInterval`, `BackoffMax`, ...) are
parameters, so an instance keeps the relations among them and not their sizes.

A Save comes to one of three ends: it succeeds, it fails before the file was replaced, or
it fails after, in the sync of the directory that Linux and macOS make (`SyncsDirectory`).

With `--once` the first pass is the last (`ReturnOnce`). That it finds nothing to do takes a
clock that is set back before the first look at it and has no second reading, since a new
schedule makes everything due at once: the proofs have it, no run does.

Variables that only properties read: `barred`, `saveFailed`, `unsettled` (the last Save that
replaced the file reported a failure), `setBack` (the wall clock was set back while this
process ran), `sweepsBought`, `lastRound`, `steps`, `launches`.

### Lan and ProbeRound

`Wire(hosts)` is the set of results of pinging hosts: any subset of those present may be
heard, any may be unsendable, any may meet a lost link or route (`cut`), the socket may be
refused or break. The code takes the last of the three for silence (`isAbsence`,
icmp.go:178-183) although no packet left the machine, so an error is not due to `cut`, while
`NotAsked`, what was never put on the wire, has those hosts as well. `ProbeError` is the
error `ProbeLocalContext` builds, including the precedence of a failure over `ErrOffLAN`.
The network is free: devices come, go and swap addresses, entries go stale, the machine
leaves and joins networks, up to `MaxMoves` changes between any two steps of the round.
`EveryDueReported` is the link to `Runner`: with `SilentWasAsked` it is the condition
`Runner!ProbeResults` puts on the outcomes of a round.

`notAsked` and `cutOff` remember, for each of the three probes of a round, what was not asked
and what of it met a lost link or route; `strayed` the addresses off the LAN that the table
offered. A property that holds says `Unasked`, which is `notAsked` without `cutOff`; the one
that says what the documents promise, `ScannedWasAsked`, says `notAsked` and is violated.
What a host is allowed to be in a result of `Wire` - heard, silent after it was asked, or
not asked - is what `EchoSocket` and `EchoPool` establish.

### EchoSocket

`call` is where the sending goroutine is (`open`, `send`, `wait`, `returned`), `reader` what
became of the other one, `limit` the deadline of the socket, `socket` whether the context
has closed it. Time may pass between any two steps, so the sender may be held up between two
packets until the ceiling has gone by, the reader may end while the sender still sends, and
the settle deadline may be brought forward for a reader that has gone. `Arriving` is all a
raw socket can hear: answers of the hosts asked, as often and as late as the network likes;
answers with another call's nonce; answers to this call's packets from another address. A
nonce is unique, so it is a Boolean. A list may name one address twice, as two targets may;
the packets then differ in their sequence numbers only, and an answer to either counts for
the address, which is what the code does.

Near the ceiling the settle window is cut short, by design (icmp.go:76-79); the property
about silence therefore says "for the settle window after it was asked, or up to the
ceiling".

### EchoPool

The code fills a buffered channel, closes it, and starts workers that drain it. `jobs` is
the channel as a set, since the order in which hosts leave it has no effect on any count;
`inHand` is what a worker has taken. A worker whose handle cannot be had drains hosts as
failed while others ask; a deadline or a cancelled context makes each worker count its next
host as unsent. `Status` collapses the codes of `IcmpSendEcho` to those the code tells apart.
`hosts` are requests: two targets with one address are two of them.

### RotatingLog

`logAt` is the system call a Write has come to; `file` is the handle (`open`, `closed` when
a Close failed and the handle was kept, `nil`), `size` the counter in memory, `live` and
`rolled` the true lengths of the two files. Every call may fail (`MaxLogFaults` bounds how
often), a record may be cut short by a full disk, somebody may take a file away, the process
may end between two calls. `newest` (which file has the last byte), `unseen` (a Stat failed
on a file that had contents) and `broken` (a Close or an open of this process failed) are
kept for the properties.

### WindowsService and WindowsAgent

`main` follows serviceMain from the start of the process to its end, `handler` the control
handler, which the dispatcher calls one control at a time. `lastState` and `lastAccepted`
are the package's variables, `readState` and `readAccepted` what an Interrogate has read and
not yet reported, `scmState` and `scmAccepts` what the manager shows. The manager sends a
control only when what was last reported accepts it, and takes a process that ends without
having reported STOPPED for one that crashed. `stale` remembers that an Interrogate answered
with what was no longer so: the two lines at service_windows.go:230 and 233 are two steps,
and a report made in between is undone. Such an answer can follow STOPPED, or leave a running
service that refuses stops in the manager's view; that no
work is under way while STOPPED is shown holds all the same, the rest of `StoppedMeansDone`
and `WorkCanBeStopped` up to the first such answer.

The policy of service_windows.go:356 is set without the flag that applies it to a service
that stops with an error. It makes no difference today: `Run` of the agent returns an error
only with `--once`, which a service is not given, so a service that stops has been asked to.

`WindowsAgent` composes the three: the log is opened before the dispatcher is met and closed
when Run has returned, the work looks at its context between two rounds, the pool between
two hosts. A step of the composition is a step of each component or leaves it alone, and
`WindowsAgentProofs` uses exactly that to carry the components' invariants over.

### StateFile and StateStore

A file is an inode with the state meant for it and how much of it was written; the path is
`named`; `durable` are the inodes the path may name after a power loss. Any system call of
`Save` may fail, a process may be killed between two, a power loss picks any durable name
and, for a file not synced, any prefix of its contents. `AtomicStore` says that what a
reader sees behaves as `StateStore`: the refinement maps `shown` to the content of the
named file and `kept` to the contents of the durable ones, so that a half-written file
under the path would be a value outside the cell.

A token is one-time and names the identity it buys. When two processes enroll at once, each
has an identity the server knows and the path keeps the one that was renamed last, or
either of them after a power loss; `IdentityKept` asks for no more than that.

Three pieces of history are kept for the properties: `promised` (a Save has reported
success and the file has not been deleted since), `mishap` (something other than the
directory's rights has failed) and `abandoned` (files whose writer died).

### Installation

One operator types one command at a time (`command`, `step`, `version`, `purge`); its steps
are the calls of `installService`, `service.Install`, `service.Uninstall`, `Start` and `Stop`
that change something, and `Abort` may end it before any of them, as an error or an
interrupt does. `platform` is chosen at the start and the guards say which platform a step
belongs to:

| | install | stop | uninstall |
|---|---|---|---|
| systemd | `PlaceBinary EnsureAccount PrepareState Define Reload StartService` | `StopService` | `StopService Remove Reload Purge` |
| launchd | `PlaceBinary Define StartService` | `StopService` | `StopService Remove Purge` |
| Windows | `PlaceBinary Define StartService` | `AskToStop WaitForStop` | `AskToStop WaitForStop Remove Purge` |

`binary` and `definition` are what lies on disk, `loaded` what the manager has read of it,
`process` what runs and from which of them it was started. What a manager does is external
and modelled from what the code asks of it: it starts what it has loaded and leaves alone
what runs, restarts what ended on its own (`Restart=always`, `KeepAlive`, the recovery
policy), reads what is on disk at boot, and on Windows keeps an entry that was deleted until
its process ends. `recovers` says whether the entry on Windows has its recovery policy:
setRecoveryPolicy does not look whether it was taken, so `Define` leaves it open and a
`Crash` without it is final. The identity counts only by its owner, because a state file has
mode 0600 and `Save` makes it anew.

`clean` remembers that an uninstall saw the service stopped with no restart pending and that
nobody ran the agent by hand since. `PurgeIsFinal` needs it, because without it a purge is
not final: uninstallService goes on after a stop that failed (`_ = stop(handle)` on Windows,
a failed `disable --now` on Linux), a status that cannot be queried passes for stopped
(`StopUnseen`), a recovery that is pending may start the service between the stop and the
deletion of its entry, and a surviving process stores its next configuration, identity
included.

Assumed: one operator at a time, and changing the owner of a file succeeds for root. An
agent that cannot read its identity is taken to exit at once. `fresh` and `foreign` are
history that only properties read.

## 3. What the runs check

`CHECK_DEADLOCK FALSE` in every configuration because the models stop by design: the
program exits or a call has returned for the last time, and then the bound on launches,
rounds, saves or time is reached.

| Run | Shows | Bounds, and why they suffice |
|---|---|---|
| Loop | Typing with the retry ceiling; no deadline slept past; no map leaks; final refusals stay slowest; a restart runs the last configuration unless a store failed, or failed after it had replaced the file; one extra sweep per silence; scheduled sweeps keep their phase, and one asked for early starts it anew | 2 configurations that differ in targets, intervals, networks and address; 6 ticks cover the deadlines of all kinds, three probe slots 3 apart (silent, silent again, and again after a sweep out of turn), sweeps every 4 with a floor of 3, and two backoffs at the ceiling; 2 launches for a restart. A sweep late by several intervals does not fit in; `SweepsKeepTheirPhase` has it |
| Clock | With `time.Now`, set by 4 either way: no silence beyond the check-in until the clock is set back; sleeps bounded by the longest interval in force; shared rounds; no tight loop; a report within one check-in interval of the top of the loop, or, once the clock was set back, within the longest interval | a target switched on and off beside another, intervals of 2 and 3 ticks, 3 ticks: the longest interval once, wherever in it the clock is set; one step, larger than any interval - a second step is another first one, since Reconcile looks only at the deadlines |
| Round | A target is reported online only as that device, offline only where it was asked; a move is no outage; everybody due is reported; what a sweep reports was there; a network it claims was asked | 2 targets, one with a MAC; 2 devices; 2 networks that are both swept, in either order, with one address each; 2 changes between any two steps, over a table that may be stale from the start: an impostor at either address, a move from one network to the other, a link that goes or comes. A probe that fails in part does so over the two targets |
| EchoSocket | Only a host's own answer to this call counts; silence was waited for; the probe ends; nobody reads for a call that has returned | 2 addresses and a list that names one of them twice, ceilings of 0, 2 and 4 ticks with a settle window of 2: the ceiling falls before, on and after the window, and three packets can be spread over all of it |
| WindowsAgent | STOPPED is true when it is said; a service at work can be stopped; no host passes for silent unasked; the log is bounded, keeps its newest lines and a usable file; a stop ends the process | 2 hosts and 2 workers, so that each may have one in hand, or one no handle while the other asks, a log of 2 bytes and records of 1 and 2, one failing call, 2 controls (a stop and an Interrogate beside it), 2 starts (a crash, and the log of the first picked up by the second) |
| StateFile | The path is a cell; a stored identity stays; a token is not spent in vain; no litter; no shared temporary file | 2 processes, 2 tokens, 1 configuration, 3 files written, 3 starts, 1 purge: two writers at once, a second enrollment over the first, and a restart after either (half a million states) |
| Installation | An installation runs what it brought and comes back after crashes and reboots; what was removed stays gone, even if it had not stopped; a purge after a clean stop is final | 2 versions, 4 commands (install, a command that fails, install again, remove), 3 crashes, reboots, stores or runs by hand, a recovery policy that may be refused |

### Fairness and liveness

Three runs assume fairness, each weak, and each only of what the code or its platform does
by itself. Everything else - the network, the server, the operator, accidents, clocks that
are set - may happen or not.

* `Runner!FairSpec`: the loop takes its next step (a call returns: every request has a
  timeout of 30 seconds, every probe a ceiling) and time passes while the program waits.
  `Heartbeat` says that from the top of the loop another report comes within
  `SilenceLimit`, unless the process dies or the clock is set meanwhile: within one check-in
  interval, or, with a clock that has two readings and was set back before, within the
  longest interval in force, since the sleep that run Silence shows is one of those. Time is
  bounded in the instance, so the property speaks of the tops of the loop that have that
  limit left before `MaxTime`; a loop that spins is a violation because time passes only where the
  program waits, one that goes back to sleep without a report is one because the bound is
  reached.
* `EchoSocket!FairProbeSpec`: sender and reader go on, a read ends when its deadline has
  passed or the socket is closed, time passes. `ProbeEnds` then needs nothing of the network.
* `WindowsAgent!FairAgentSpec`: the main thread, the control handler and each worker go on
  (the Go scheduler starves none, and every call they make returns, `IcmpSendEcho` within a
  second). `StopIsHonoured` then says that a stop that reached the handler ends the process,
  wherever the work was - with hosts in hand, half-way through a rotation, between two
  rounds.

### Where the code and its documents disagree

Each of these runs checks one property and TLC finds it violated.

* **Silence** (`SilenceBounded`, schedule.go:208). After the wall clock is set back,
  `Wait` compares a slot without a monotonic reading to a check-in with one, picks the
  slot, and sleeps past the check-in that config.go:50 calls the longest the agent may be
  silent. The test of it passes because its instants have one kind, for
  which the bound is proved (`OnlySetBackIsSilent`). `SilenceUnlessSetBack` is what holds with the agent's own clock, and `Heartbeat` bounds
  what is lost by the longest interval (run Clock).
* **LateSync** (`StoredIsInForce`, config.go:178). On Linux and macOS Save reports failure
  after its rename took effect when the directory cannot be opened or synced. `persisted`
  stays behind the disk, a return to the configuration it names is not stored, and a restart
  runs the abandoned one; config.go:146-147 says that a failed write leaves the previous
  identity intact. `DiskHoldsLastConfiguration` is what holds otherwise.
* **LinkLost** (`ScannedWasAsked`, icmp.go:178-183). `isAbsence` counts ENETDOWN and
  ENETUNREACH, which are about this machine, as silence of the host: a link lost during a
  sweep leaves its network claimed as covered, although discover.go:33-34 leaves out one
  "whose probes could not all be put on the wire". `ScannedIsCovered` is what holds: no
  other refusal is passed over. `SilentWasAsked`, and `SilenceIsAwaited` of `EchoSocket`,
  which counts such a host as one whose absence was told, are to be read in the same way.
* **OffLAN** (`OffLANStopsNobodyElse`, agent.go:457). The second probe treats `ErrOffLAN` as
  a failure: one stale neighbour entry that places one target on a foreign network stops
  *another* target, asked on an attached network, from being reported offline, which is what
  interfaces.go:135-141 makes the error for. `EveryDueReported` is what holds without such
  an entry.
* **Upgrade** (`UpgradeRuns`, main.go:231). `service install` over a running service puts
  the new binary and definition in place and reports success; `enable --now` and
  `kickstart` leave the old process running, and launchd also keeps the old definition. The
  comment at service.go:221-223 relies on a caller that stops it first. There is none.
  `InstalledComesBack` is what holds when nothing ran.

Met while modelling and not kept as runs:

* logging.go:139-141 says that a failure of a rotation leaves a usable file behind. A Close
  that fails leaves the closed handle in place, an open that fails leaves none, and no later
  Write tries again: the agent is silent in its log until it is restarted.
  `RenameLeavesAFile` is what holds: every other failure leaves an open file.
* setRecoveryPolicy does not look whether the policy was taken (service_windows.go:371): an
  installation without it succeeds, and the first crash ends the service for good, which
  service_windows.go:354-355 calls worse than no installation. `InstallMeansRestart` is what
  was meant, `InstalledComesBack` what holds.
* Uninstall goes on when the stop failed (service_windows.go:388), the process that is left
  stores its next configuration after the purge, identity included, and
  service_windows.go:435-436 says that an uninstall does not race it. `PurgeIsFinal` is what
  holds after a stop that was seen.
* An Interrogate may read STOP_PENDING, or RUNNING, before STOPPED is reported, and report it
  afterwards (service_windows.go:228-233); service_windows.go:256 calls STOPPED the last
  thing the process says. `StoppedMeansDone` is what holds.
* After a foreground run or an enrollment by root the account of the systemd unit cannot read
  the identity, and the next start fails. `InstalledComesBack` excepts it (`foreign`).

## 4. What is proved

Every safety property of every passing run, for all values of the constants that satisfy
the named assumptions, and for unbounded time, steps, commands and launches, since the
bounds are constants too.

Assumed of the constants: `FloorAssumption` and `RunnerAssumption` (intervals have positive
floors, the shift limit reaches the ceiling of the backoff, configurations are valid);
`LanAssumption` and `RoundAssumption` (an address is of one network, a target has one
address); `SocketAssumption` (nothing but types); `PoolAssumption` (finitely many hosts, a
worker); `LogAssumption` (records are not empty and fit the limit); `ServiceAssumption`;
`FileAssumption` and `InstallationAssumption` (`None` is none of the values it stands
beside). Two theorems need more, and say so:

* `StoredIdentityStays` needs `SyncsDirectory`. Windows has no such sync, and there a power
  loss may undo the last rename.
* `NeverTwiceAtOnce` needs a monotonic clock (`HasMono`) and `BackoffBase`, `BackoffMax` of
  at least two ticks. `time.Now` has one, and the code has 5 seconds and 5 minutes
  (agent.go:27-28).

| Theorem | States | Argument |
|---|---|---|
| `RunnerProofs!TypeCorrect` | `[]TypeOK` | one typing lemma per action; the backoff ceiling from the shape of `Delay` |
| `RunnerProofs!NothingLeaks` | `[]NoLeak` | `Books`: while a process runs, deadlines and targets have one domain, and what a round holds in hand belongs to it |
| `RunnerSafetyProofs!FinalRefusalStaysSlow` | `[]TerminalIsSlowest` | `Barred`: once refused, `failures` is at least `TerminalFailure`, beyond the shift limit, so `Delay` is the ceiling |
| `RunnerSafetyProofs!OneSweepPerSilence` | `[]GoneBuysOneSweep` | `Bought`: a target that bought a sweep is remembered as not answering, until it answers or is dropped |
| `RunnerSafetyProofs!RestartRunsTheSame` | `[]DiskHoldsLastConfiguration` | `Believes`: `persisted` is what is stored, unless the last Save that replaced the file reported a failure (`unsettled`) |
| `RunnerSafetyProofs!SleepsAreBounded` | `[]SleepBounded` | `Waits`: after Reconcile every deadline is within its own interval of `now`, and when idle none has passed, so whichever Wait picks is bounded |
| `RunnerSafetyProofs!NeverOversleeps` | `[]EarliestHonoured` | `Steady`: with no step the wall and monotonic readings differ by a constant, so Before is an order after all; `Minimal`: the running minimum is below the targets already scanned |
| `RunnerSafetyProofs!OnlySetBackIsSilent` | `[]SilenceUnlessSetBack` | `Forward`: while nobody has set the wall clock back it has not lost on the monotonic one since any instant was read, so a slot that Before places ahead of the check-in is no further away; `CheckedIn`: Wait's minimum, and then the sleep, is within the distance of the check-in, which Reconcile keeps within its interval |
| `RunnerSafetyProofs!OneIntervalOneReport` | `[]SharedRounds` | `Gridded`: a deadline from the grid is on the grid of the interval its target has now; and a grid has one point within an interval after `now` (`GridPointsApart`) |
| `RunnerSafetyProofs!SweepsKeepTheirPhase` | `DiscoveryKeepsPhase` | `InHand`: a sweep that a round has in hand was due at its instant; `AdvanceKeepsPhase`: what completing it adds |
| `RunnerSafetyProofs!NeverTwiceAtOnce` | `[]NoTightLoop` | `Paced`: a round leaves every deadline of its own work ahead of its instant (`WorkAhead`), a report the check-in; at the top of the loop they still are, or the clock has moved on |
| `ProbeRoundProofs!RoundTypeCorrect` | `[]TypeOK` | `Tidy`: what is empty until a step of the round fills it |
| `ProbeRoundProofs!PresenceIsProven` | `[]DevicesWereThere` | `Witnessed`: whoever is anywhere is on record, and the table tells the truth about those that have just answered |
| `ProbeRoundProofs!AddressIsNoIdentity` | `[]OnlineIsTheDevice` | the same, at each of the three places that report a target online |
| `ProbeRoundProofs!SilenceIsNoSendFailure` | `[]SilentWasAsked` | `Asked` and `Missing`: a silent target is one the first probe asked, found by the second neither, and the second without an error asked all it had |
| `ProbeRoundProofs!MovedIsNotLost` | `[]MoveIsNoOutage` | the final pass of `rescue`, over what the sweep recorded |
| `ProbeRoundProofs!CoverageIsHonest` | `[]ScannedIsCovered` | `Visited`: networks are visited once each, and the one without an error left no address unasked, but for a link or route that was lost |
| `ProbeRoundProofs!NobodyIsForgotten` | `[]EveryDueReported` | `Complete`: until the second probe has come to nothing, nobody due is left out unless the first one failed, and it comes to nothing by a failure or by a stray entry (`strayed`) |
| `EchoSocketProofs!SocketTypeCorrect` | `[]SocketTypeOK` | `Fresh`: a call that has not begun to send has asked and heard nobody |
| `EchoSocketProofs!HeardHasAnswered` | `[]HeardIsAlive` | what the reader accepts, over everything `Arriving` |
| `EchoSocketProofs!SilenceWasAwaited` | `[]SilenceIsAwaited` | `Counted`: what was not counted as undelivered was asked; `Patient`: the reader's limit is the ceiling, or leaves every packet its settle window, and a reader that ran out of time has read up to it; `Concluded`: a result without an error is that of a call that went all the way |
| `StateFileProofs!TypeCorrect` | `[]TypeOK` | `Kept`: `Saving` says what the file in hand is at each call of `Save`, `Holding` what a process has in memory, `Disk` what the path may name |
| `StateFileProofs!StoredIdentityStays` | `[]IdentityKept` | `Promise`: after a success that was reported nothing the path may name is absence; with `Disk`, all of it is whole and of a spent token |
| `StateFileProofs!SpentTokenLeavesIdentity` | `[]TokenBuysIdentity` | `InHand`: a token spent while nothing broke is in the hands of a process that is about to store what it bought |
| `StateFileProofs!NothingLeftBehind` | `[]NoLitter` | every temporary name belongs to one that is saving, or to one that died |
| `StateFileProofs!StoreIsAtomic` | `AtomicStore`, the refinement of `StateStore` | `Kept` says that no file under the path is half-written; each action is then a step of the cell or a stutter |
| `InstallationProofs!TypeCorrect` | `[]TypeOK` | `Sound`: only a Windows service waits, and no definition is without a binary |
| `InstallationProofs!NothingComesBack` | `[]RemovedStaysGone` | `Course`: what a step says of its command; `Removed`: from the removal on there is no definition, or only until the process ends, and systemd has forgotten it; launchd may not have, and `Gone` asks that it has |
| `InstallationProofs!PurgeStaysPurged` | `[]PurgeIsFinal` | `Quiet`: after a clean stop, and while the command lasts or a purge was the last one, nothing runs and nothing is to be restarted |
| `InstallationProofs!InstallationComesBack` | `[]InstalledComesBack` | `Jobs`: launchd keeps a job only while it runs or is about to; `Underway`: an installation that began with nothing running meets nothing that runs; `Running`: from its end on the process is the one installed, or about to be, where a policy was taken |
| `WindowsPartsProofs!LogIsBounded`, `NewestLinesStay`, `LogStaysUsable` | `[]FootprintBounded`, `[]NewestKept`, `[]RenameLeavesAFile` | `Placed`: which handle and which file there is at each call; `Counted`: the size counted is the length of the open file, or less when it could not be read, and only a file that holds the newest bytes is rolled over |
| `WindowsPartsProofs!SilenceIsNoGuess` | `[]SilenceIsProven` | `Accounted`: while nothing is counted as unsent, each host is heard, proven absent, in hand or in the channel; an ended worker leaves the channel empty |
| `WindowsPartsProofs!StoppedIsDone`, `WorkStaysStoppable` | `[]StoppedMeansDone`, `[]WorkCanBeStopped` | `Honest`: STOPPED is reported by nobody but one whose work is done, and read by nobody before; `Current`: while no answer was stale, the manager shows what was reported last |
| `WindowsAgentProofs!AgentTypeCorrect`, `AgentStopsInOrder`, `AgentGuessesNoSilence`, `AgentKeepsItsLog` | the same of the whole process | `Parts`: each action of the composition is, for each component, one of its steps or a stutter, so the components' invariants hold; `Tied`: what their types say of each other |

Hardly any of the properties is inductive as it stands; the strengthenings named above are,
and TLC found them sound before the proof was tried.

The deadlines on the grid rest on `%` by an interval, which the SMT backend does not
decide. `Division` states what it is - a quotient and a remainder below the divisor - as a
lemma, and the rest of that argument is about products.

Only model-checked: the liveness properties `Heartbeat`, `ProbeEnds` and `StopIsHonoured`.
They need fairness and ENABLED, which are out of the prover's reach. What the violation
runs refute is of course not proved either; what holds in its place is.

## 5. What is not modelled

Lines of log: two of them say what is not so (that the clock stepped back, when an interval
was shortened, agent.go:169; that every target is back, when only the due ones are,
agent.go:374). The order of targets and networks in a configuration is left open; what
depends on it (`Wait`) takes any order. JSON, HTTP and TLS, parsing of neighbour tables,
reverse DNS, file permissions, wording of logs and advice, packaging scripts: straight-line
code whose every outcome the models take as possible. `InstallBinary` is one step that
replaces the binary or fails, since its rename is. Query of the three managers changes
nothing. On Linux and macOS the process under its manager has no state of its own beyond
the context that a signal cancels (run_unix.go), which `Runner!Kill` and `EchoSocket`'s
`ProbeCancel` have.

## 6. Plan

1. That the results of `EchoSocket` and `EchoPool` are among those of `Lan!Wire`, as
   theorems instead of an argument: the three modules agree on what a host may be in a
   result, and that is the condition on which what is proved of a round says something of a
   probe of either platform.
2. The same one level up: the outcomes of `ProbeRound` are among `Runner!ProbeResults`.
   `NobodyIsForgotten` and `SilenceIsNoSendFailure` are its two halves.
