------------------------------ MODULE Schedule ------------------------------
(***************************************************************************)
(* The agent's Schedule (internal/agent/schedule.go): when each piece of   *)
(* work is next due.                                                       *)
(*                                                                         *)
(* Each method is an operator over the fields of the struct, which are the *)
(* VARIABLES.  A method that changes fields constrains exactly the primed  *)
(* fields it assigns, named in the comment above it; the caller says what  *)
(* stays.  The order of a configuration's subnets and targets is left out, *)
(* and so are the counts of skipped slots, which are only logged.          *)
(***************************************************************************)
EXTENDS GoTime

CONSTANTS
  ID,                     \* target identifiers
  Address,                \* the addresses a target may be configured with
  MAC, NoMAC,             \* hardware addresses; a target may have none
  Subnet,                 \* the networks a sweep may cover
  MinTargetInterval,      \* floors applied to whatever the server sends
  MinDiscoveryInterval,
  MinCheckInInterval,
  Phase                   \* this agent's offset on the probe grid

ASSUME FloorAssumption ==
  /\ MinTargetInterval \in Nat \ {0}
  /\ MinDiscoveryInterval \in Nat \ {0}
  /\ MinCheckInInterval \in Nat \ {0}
  /\ Phase \in Nat

VARIABLES
  runtime,          \* the configuration in force
  discoveryDueAt,
  lastDiscoveryAt,
  checkInDueAt,
  targetDueAt,      \* target identifier -> instant, partial
  answering         \* target identifier -> did its last probe succeed, partial

scheduleVars ==
  <<runtime, discoveryDueAt, lastDiscoveryAt, checkInDueAt, targetDueAt,
    answering>>

-----------------------------------------------------------------------------
(* A Go map: a function on some of the keys. *)
IsMap(f, S, T) == \E D \in SUBSET S : f \in [D -> T]

EmptyMap == [x \in {} |-> x]

Target == [ip : Address, mac : MAC \cup {NoMAC}, interval : Nat]

(* A configuration that passed Validate: no negative interval, no target   *)
(* twice.                                                                  *)
IsRuntime(config) ==
  \E D \in SUBSET ID :
    config \in [discovery : Nat, discoveryMin : Nat, checkIn : Nat,
               subnets : SUBSET Subnet, targets : [D -> Target]]

ScheduleTypeOK ==
  /\ IsRuntime(runtime)
  /\ discoveryDueAt \in Time
  /\ lastDiscoveryAt \in Time
  /\ checkInDueAt \in Time
  /\ IsMap(targetDueAt, ID, Time)
  /\ IsMap(answering, ID, BOOLEAN)

-----------------------------------------------------------------------------
(* Intervals, held at their floors. *)
AtLeast(seconds, floor) == IF seconds < floor THEN floor ELSE seconds

TargetInterval(target) == AtLeast(target.interval, MinTargetInterval)

DiscoveryInterval(config) == AtLeast(config.discovery, MinDiscoveryInterval)

DiscoveryMinInterval(config) ==
  AtLeast(config.discoveryMin, MinDiscoveryInterval)

CheckInInterval(config) == AtLeast(config.checkIn, MinCheckInInterval)

(* Mutants of Slot: an interval after the work instead of a fixed grid;    *)
(* the slot that was just served instead of the one after it.              *)
SlotFromNow(interval, now) == Truncate(Add(now, interval), 1)

SlotRoundedDown(interval, now) ==
  LET offset == Phase % interval
  IN  Add(Truncate(Add(now, -offset), interval), offset)

(* The next instant on this agent's grid for an interval. *)
Slot(interval, now) ==
  LET offset == Phase % interval
      next   == Add(Truncate(Add(now, -offset), interval), interval + offset)
  IN  IF After(next, now) THEN next ELSE Add(next, interval)

(* Mutant of Advance: the period becomes the interval plus the work. *)
AdvanceFromNow(planned, interval, now) == Add(now, interval)

(* The next deadline after a slot has been served, keeping its phase. *)
Advance(planned, interval, now) ==
  IF After(planned, now)
  THEN Add(now, interval)
  ELSE Add(planned, ((Sub(now, planned) \div interval) + 1) * interval)

-----------------------------------------------------------------------------
(* What the methods that only read the fields answer. *)
Scheduled == DOMAIN runtime.targets \cap DOMAIN targetDueAt

DiscoveryDue(now) == ~After(discoveryDueAt, now)

DueTargets(now) == {id \in Scheduled : ~After(targetDueAt[id], now)}

(* Mutant of CheckInDue: at the very instant it is not due yet. *)
CheckInDueLate(now) == Before(checkInDueAt, now)

CheckInDue(now) == ~After(checkInDueAt, now)

WasAnswering(id) == id \in DOMAIN answering => answering[id]

MayDiscover(now) ==
  \/ IsZero(lastDiscoveryAt)
  \/ ~Before(now, Add(lastDiscoveryAt, DiscoveryMinInterval(runtime)))

-----------------------------------------------------------------------------
(* Apply: runtime, discoveryDueAt, targetDueAt, answering.                 *)
(* A target that is new, or that is not what it was, is due at once; one   *)
(* that has gone is forgotten.                                             *)
Kept(config) ==
  {id \in DOMAIN config.targets \cap DOMAIN targetDueAt :
     id \in DOMAIN runtime.targets /\ runtime.targets[id] = config.targets[id]}

(* Mutant of Dropped: what the server no longer names is kept. *)
DroppedNone(config) == {}

Dropped(config) == DOMAIN targetDueAt \ DOMAIN config.targets

Apply(config, now) ==
  /\ discoveryDueAt' =
       IF config.subnets # runtime.subnets THEN now ELSE discoveryDueAt
  /\ targetDueAt' = [id \in DOMAIN config.targets |->
                       IF id \in Kept(config) THEN targetDueAt[id] ELSE now]
  /\ answering' = [id \in DOMAIN answering \ Dropped(config) |-> answering[id]]
  /\ runtime' = config

(* New: every field.  Everything is due at once. *)
New(config, now) ==
  /\ runtime' = config
  /\ discoveryDueAt' = now
  /\ lastDiscoveryAt' = ZeroTime
  /\ checkInDueAt' = now
  /\ targetDueAt' = [id \in DOMAIN config.targets |-> now]
  /\ answering' = EmptyMap

(* Mutant of Clamp: deadlines are left where they are. *)
ClampNone(due, interval, now) == due

(* Reconcile: discoveryDueAt, checkInDueAt, targetDueAt, lastDiscoveryAt.  *)
(* A deadline further away than its own interval is pulled back to it.     *)
Clamp(due, interval, now) ==
  IF Sub(due, now) <= interval THEN due ELSE Add(now, interval)

Reconcile(now) ==
  /\ discoveryDueAt' = Clamp(discoveryDueAt, DiscoveryInterval(runtime), now)
  /\ checkInDueAt' = Clamp(checkInDueAt, CheckInInterval(runtime), now)
  /\ targetDueAt' =
       [id \in DOMAIN targetDueAt |->
          IF id \in DOMAIN runtime.targets
          THEN Clamp(targetDueAt[id], TargetInterval(runtime.targets[id]), now)
          ELSE targetDueAt[id]]
  /\ lastDiscoveryAt' =
       IF After(lastDiscoveryAt, now) THEN now ELSE lastDiscoveryAt

(* CompletedCheckIn: checkInDueAt. *)
CompletedCheckIn(now) ==
  checkInDueAt' = Add(now, CheckInInterval(runtime))

(* CompletedDiscovery: lastDiscoveryAt, discoveryDueAt. *)
CompletedDiscovery(now) ==
  /\ lastDiscoveryAt' = now
  /\ discoveryDueAt' =
       Advance(discoveryDueAt, DiscoveryInterval(runtime), now)

(* CompletedTarget, for every target of a round: targetDueAt. *)
CompletedTargets(served, now) ==
  targetDueAt' =
    [id \in DOMAIN targetDueAt \cup served |->
       IF id \in served
       THEN Slot(TargetInterval(runtime.targets[id]), now)
       ELSE targetDueAt[id]]

(* Mutant of RecordAnswers: only successes are remembered. *)
RecordSuccesses(online) ==
  answering' = [id \in DOMAIN answering \cup {i \in DOMAIN online : online[i]} |->
                  IF id \in DOMAIN online /\ online[id]
                  THEN TRUE ELSE answering[id]]

(* RecordAnswer, for every observation of a round: answering. *)
RecordAnswers(online) ==
  answering' = [id \in DOMAIN answering \cup DOMAIN online |->
                  IF id \in DOMAIN online THEN online[id] ELSE answering[id]]
=============================================================================
