---------------------------- MODULE RunnerProofs ----------------------------
(***************************************************************************)
(* What holds of the Runner for every server, floor, interval, phase,      *)
(* retry curve, clock and bound, with the proofs.                          *)
(***************************************************************************)
EXTENDS Runner, TLAPS

-----------------------------------------------------------------------------
(* Maps, configurations and instants. *)

LEMMA MapParts ==
  ASSUME NEW S, NEW T, NEW f, IsMap(f, S, T)
  PROVE  /\ DOMAIN f \subseteq S
         /\ f \in [DOMAIN f -> T]
         /\ \A x \in DOMAIN f : f[x] \in T
  BY DEF IsMap

LEMMA MapIntro ==
  ASSUME NEW S, NEW T, NEW D \in SUBSET S, NEW f \in [D -> T]
  PROVE  IsMap(f, S, T)
  BY DEF IsMap

LEMMA EmptyIsMap == \A S, T : IsMap(EmptyMap, S, T)
  BY DEF IsMap, EmptyMap

LEMMA RuntimeParts ==
  ASSUME NEW config, IsRuntime(config)
  PROVE  /\ config.discovery \in Nat
         /\ config.discoveryMin \in Nat
         /\ config.checkIn \in Nat
         /\ DOMAIN config.targets \subseteq ID
         /\ \A id \in DOMAIN config.targets : config.targets[id].interval \in Nat
  BY DEF IsRuntime, Target

LEMMA DefaultIsRuntime == IsRuntime(DefaultRuntime)
  <1>1. DefaultRuntime.targets \in [{} -> Target]
    BY DEF DefaultRuntime, EmptyMap
  <1> QED
    BY <1>1, RunnerAssumption DEF IsRuntime, DefaultRuntime

LEMMA StoredIsRuntime ==
  ASSUME TypeOK
  PROVE  IsRuntime(Stored)
  BY DefaultIsRuntime DEF TypeOK, WorldTypeOK, Stored

(* Every interval, held at its floor, is positive. *)
LEMMA Intervals ==
  ASSUME NEW config, IsRuntime(config)
  PROVE  /\ DiscoveryInterval(config) \in Nat \ {0}
         /\ DiscoveryMinInterval(config) \in Nat \ {0}
         /\ CheckInInterval(config) \in Nat \ {0}
         /\ \A id \in DOMAIN config.targets :
              TargetInterval(config.targets[id]) \in Nat \ {0}
  BY RuntimeParts, FloorAssumption
  DEF DiscoveryInterval, DiscoveryMinInterval, CheckInInterval, TargetInterval,
      AtLeast

LEMMA SubInt ==
  ASSUME NEW t \in Time, NEW u \in Time
  PROVE  Sub(t, u) \in Int
  BY DEF Time, Sub

LEMMA AddTime ==
  ASSUME NEW t \in Time, NEW d \in Int
  PROVE  Add(t, d) \in Time
  BY DEF Time, Add

LEMMA ZeroIsTime == ZeroTime \in Time
  BY DEF ZeroTime, Time

LEMMA NowIsTime ==
  ASSUME TypeOK
  PROVE  ClockNow \in Time
  BY RunnerAssumption DEF TypeOK, ClockTypeOK, ClockNow, Reading, Time

LEMMA SlotTime ==
  ASSUME NEW interval \in Nat \ {0}, NEW t \in Time
  PROVE  Slot(interval, t) \in Time
  BY FloorAssumption DEF Slot, Time, Add, Truncate, After, Sub

LEMMA AdvanceTime ==
  ASSUME NEW planned \in Time, NEW interval \in Nat \ {0}, NEW t \in Time
  PROVE  Advance(planned, interval, t) \in Time
  BY DEF Advance, Time, Add, After, Sub

LEMMA ClampTime ==
  ASSUME NEW due \in Time, NEW interval \in Nat, NEW t \in Time
  PROVE  Clamp(due, interval, t) \in Time
  BY AddTime DEF Clamp

(* The retry delay is positive and at its ceiling from TerminalFailure on. *)
LEMMA DelayBounds ==
  ASSUME NEW attempt \in Nat \ {0}
  PROVE  /\ Delay(attempt) \in 0 .. BackoffMax
         /\ attempt >= TerminalFailure => Delay(attempt) = BackoffMax
  <1> DEFINE shift == IF attempt - 1 < MaxShift THEN attempt - 1 ELSE MaxShift
  <1> DEFINE delay == BackoffBase * 2^shift
  <1>1. shift \in Nat
    BY RunnerAssumption
  <1>2. 2^shift \in Int
    <2> HIDE DEF shift
    <2> QED BY <1>1
  <1>3. delay \in Int
    <2> HIDE DEF shift
    <2> QED BY <1>2, RunnerAssumption
  <1>4. Delay(attempt) =
          IF delay > BackoffMax \/ delay <= 0 THEN BackoffMax ELSE delay
    BY DEF Delay
  <1>5. Delay(attempt) \in 0 .. BackoffMax
    <2> HIDE DEF delay
    <2> QED BY <1>3, <1>4, RunnerAssumption
  <1>6. attempt >= TerminalFailure => Delay(attempt) = BackoffMax
    <2>1. SUFFICES ASSUME attempt >= TerminalFailure
                   PROVE  Delay(attempt) = BackoffMax
      OBVIOUS
    <2>2. shift = MaxShift
      BY <2>1, RunnerAssumption
    <2>3. delay >= BackoffMax
      <3> HIDE DEF shift
      <3> QED BY <2>2, RunnerAssumption
    <2> HIDE DEF delay
    <2> QED BY <2>3, <1>3, <1>4, RunnerAssumption
  <1> QED BY <1>5, <1>6

-----------------------------------------------------------------------------
(* Typing and bookkeeping.  A round and a report only know targets of the  *)
(* configuration in force, and Wait only those that have a deadline: what  *)
(* makes every lookup of the loop a lookup of something there.             *)

Work ==
  /\ pc = "round" => dueTargets \subseteq DOMAIN runtime.targets
  /\ pc = "report" => DOMAIN observations \subseteq DOMAIN runtime.targets
  /\ pc = "scan" => todo \subseteq Scheduled

Books == TypeOK /\ NoLeak /\ Work

LEMMA BlankBooleans ==
  /\ FALSE \in BOOLEAN
  /\ IsMap(EmptyMap, ID, BOOLEAN)
  /\ IsMap(EmptyMap, ID, Time)
  BY EmptyIsMap

LEMMA BooksInit == Init => Books
  <1> SUFFICES ASSUME Init PROVE Books
    OBVIOUS
  <1>1. ScheduleTypeOK
    BY DefaultIsRuntime, ZeroIsTime, EmptyIsMap DEF Init, ScheduleTypeOK
  <1>2. PassTypeOK
    <2>1. discoveryDue \in BOOLEAN
      BY DEF Init
    <2>2. wakeAt \in Int /\ nap \in Nat
      BY DEF Init
    <2>3. IsMap(observations, ID, BOOLEAN)
      BY BlankBooleans DEF Init
    <2> QED
      BY <2>1, <2>2, <2>3, ZeroIsTime DEF Init, PassTypeOK
  <1>3. RunTypeOK
    BY DefaultIsRuntime, BlankBooleans DEF Init, RunTypeOK
  <1>4. HistoryTypeOK
    BY ZeroIsTime, BlankBooleans DEF Init, HistoryTypeOK
  <1>5. WorldTypeOK /\ ClockTypeOK
    BY RunnerAssumption DEF Init, WorldTypeOK, ClockTypeOK
  <1>6. TypeOK
    BY <1>1, <1>2, <1>3, <1>4, <1>5 DEF Init, TypeOK
  <1> QED
    BY <1>6 DEF Init, Books, NoLeak, Work

(* The variables of a pass, gone or left alone. *)
LEMMA PassEnds ==
  ASSUME EndPass
  PROVE  PassTypeOK'
  <1>1. discoveryDue' \in BOOLEAN
    BY DEF EndPass
  <1>2. wakeAt' \in Int /\ nap' \in Nat
    BY DEF EndPass
  <1>3. IsMap(observations', ID, BOOLEAN)
    BY BlankBooleans DEF EndPass
  <1> QED
    BY <1>1, <1>2, <1>3, ZeroIsTime DEF EndPass, PassTypeOK

LEMMA PassKept ==
  ASSUME PassTypeOK, UNCHANGED passVars
  PROVE  PassTypeOK'
  BY DEF PassTypeOK, passVars

LEMMA RunKept ==
  ASSUME RunTypeOK, UNCHANGED runVars
  PROVE  RunTypeOK'
  BY DEF RunTypeOK, runVars

LEMMA HistoryKept ==
  ASSUME HistoryTypeOK, UNCHANGED historyVars
  PROVE  HistoryTypeOK'
  BY DEF HistoryTypeOK, historyVars

LEMMA WorldKept ==
  ASSUME WorldTypeOK, UNCHANGED worldVars
  PROVE  WorldTypeOK'
  BY DEF WorldTypeOK, worldVars

LEMMA ClockKept ==
  ASSUME ClockTypeOK, UNCHANGED clockVars
  PROVE  ClockTypeOK'
  BY DEF ClockTypeOK, clockVars

LEMMA ScheduleKept ==
  ASSUME ScheduleTypeOK, UNCHANGED scheduleVars
  PROVE  ScheduleTypeOK'
  BY DEF ScheduleTypeOK, scheduleVars

(* A schedule made anew. *)
LEMMA NewTyped ==
  ASSUME NEW config, IsRuntime(config), NEW t \in Time, New(config, t)
  PROVE  ScheduleTypeOK'
  <1> DEFINE due == [id \in DOMAIN config.targets |-> t]
  <1>1. due \in [DOMAIN config.targets -> Time]
    OBVIOUS
  <1>2. DOMAIN config.targets \subseteq ID
    BY RuntimeParts
  <1>3. IsMap(due, ID, Time)
    BY <1>1, <1>2, MapIntro
  <1> QED
    BY <1>3, ZeroIsTime, BlankBooleans DEF New, ScheduleTypeOK

(* Run returns: the blank of Init, clocks and state file apart. *)
LEMMA BooksExit ==
  ASSUME Books, Exit
  PROVE  Books'
  <1>1. ScheduleTypeOK'
    BY DefaultIsRuntime, ZeroIsTime, NewTyped DEF Exit
  <1>2. PassTypeOK'
    BY PassEnds DEF Exit
  <1>3. RunTypeOK'
    BY DefaultIsRuntime, BlankBooleans DEF Exit, RunTypeOK
  <1>4. HistoryTypeOK'
    BY ZeroIsTime, BlankBooleans DEF Exit, HistoryTypeOK
  <1>5. WorldTypeOK' /\ ClockTypeOK'
    BY WorldKept, ClockKept DEF Exit, Books, TypeOK
  <1>6. TypeOK'
    BY <1>1, <1>2, <1>3, <1>4, <1>5 DEF Exit, TypeOK
  <1> QED
    BY <1>6 DEF Exit, Books, NoLeak, Work

LEMMA BooksLaunch ==
  ASSUME Books, Launch
  PROVE  Books'
  <1>1. IsRuntime(Stored) /\ ClockNow \in Time
    BY StoredIsRuntime, NowIsTime DEF Books
  <1>2. ScheduleTypeOK'
    BY <1>1, NewTyped DEF Launch
  <1>3. PassTypeOK' /\ HistoryTypeOK' /\ ClockTypeOK'
    BY PassKept, HistoryKept, ClockKept DEF Launch, Books, TypeOK
  <1>4. RunTypeOK'
    BY <1>1, BlankBooleans DEF Launch, RunTypeOK
  <1>5. WorldTypeOK'
    BY DEF Launch, Books, TypeOK, WorldTypeOK
  <1>6. TypeOK'
    BY <1>2, <1>3, <1>4, <1>5 DEF Launch, TypeOK
  <1>7. NoLeak'
    BY DEF Launch, New, EmptyMap, NoLeak
  <1> QED
    BY <1>6, <1>7 DEF Launch, Books, Work

(* The steps that only move the program counter and locals of the pass.    *)
LEMMA BooksPass ==
  ASSUME Books,
         StartRound \/ StartWait \/ Sleep \/ Wake \/ \E id \in ID : ScanTarget(id)
  PROVE  Books'
  <1>1. UNCHANGED <<scheduleVars, clockVars, runVars, historyVars, worldVars>>
    BY DEF StartRound, StartWait, Sleep, Wake, ScanTarget
  <1>2. /\ ScheduleTypeOK' /\ ClockTypeOK' /\ RunTypeOK'
        /\ HistoryTypeOK' /\ WorldTypeOK'
    BY <1>1, ScheduleKept, ClockKept, RunKept, HistoryKept, WorldKept
    DEF Books, TypeOK
  <1>3. pc # "down" /\ pc' \in {"round", "scan", "waiting", "top"}
    BY DEF StartRound, StartWait, Sleep, Wake, ScanTarget
  <1>4. PassTypeOK'
    <2>1. CASE StartRound
      <3>1. DueTargets(now) \subseteq ID
        BY RuntimeParts DEF DueTargets, Scheduled, Books, TypeOK, ScheduleTypeOK
      <3>2. DiscoveryDue(now) \in BOOLEAN
        BY DEF DiscoveryDue, After
      <3> QED
        BY <2>1, <3>1, <3>2 DEF StartRound, Books, TypeOK, PassTypeOK
    <2>2. CASE StartWait
      <3>1. FirstDeadline \in Time
        BY DEF FirstDeadline, Books, TypeOK, ScheduleTypeOK
      <3>2. Scheduled \subseteq ID
        BY RuntimeParts DEF Scheduled, Books, TypeOK, ScheduleTypeOK
      <3> QED
        BY <2>2, <3>1, <3>2 DEF StartWait, Books, TypeOK, PassTypeOK
    <2>3. CASE Sleep
      <3>1. Sub(earliest, now) \in Int
        BY SubInt DEF Books, TypeOK, PassTypeOK
      <3>2. nap' \in Nat /\ wakeAt' \in Int
        BY <2>3, <3>1 DEF Sleep, SleepFor, Books, TypeOK, ClockTypeOK
      <3> QED
        BY <2>3, <3>2 DEF Sleep, Books, TypeOK, PassTypeOK
    <2>4. CASE Wake
      BY <2>4, PassEnds DEF Wake
    <2>5. CASE \E id \in ID : ScanTarget(id)
      <3>1. PICK id \in ID : ScanTarget(id)
        BY <2>5
      <3>2. targetDueAt[id] \in Time
        BY <3>1, MapParts
        DEF ScanTarget, Scheduled, Books, TypeOK, ScheduleTypeOK, Work
      <3>3. earliest' \in Time /\ todo' \subseteq ID
        BY <3>1, <3>2 DEF ScanTarget, Books, TypeOK, PassTypeOK
      <3> QED
        BY <3>1, <3>3 DEF ScanTarget, Books, TypeOK, PassTypeOK
    <2> QED
      BY <2>1, <2>2, <2>3, <2>4, <2>5
  <1>5. TypeOK'
    BY <1>2, <1>3, <1>4 DEF TypeOK
  <1>6. NoLeak'
    BY <1>1, <1>3 DEF NoLeak, Books, scheduleVars, runVars
  <1>7. Work'
    BY <1>1
    DEF Work, Books, StartRound, StartWait, Sleep, Wake, ScanTarget, DueTargets,
        Scheduled, scheduleVars
  <1> QED
    BY <1>5, <1>6, <1>7 DEF Books

(* The top of the loop: Reconcile keeps every map on its keys. *)
LEMMA BooksBegin ==
  ASSUME Books, Begin
  PROVE  Books'
  <1> DEFINE due == [id \in DOMAIN targetDueAt |->
                       IF id \in DOMAIN runtime.targets
                       THEN Clamp(targetDueAt[id],
                                  TargetInterval(runtime.targets[id]), ClockNow)
                       ELSE targetDueAt[id]]
  <1>1. ClockNow \in Time
    BY NowIsTime DEF Books
  <1>2. IsRuntime(runtime) /\ ScheduleTypeOK
    BY DEF Books, TypeOK, ScheduleTypeOK
  <1>3. IsMap(due, ID, Time)
    <2>1. due \in [DOMAIN targetDueAt -> Time]
      BY <1>1, <1>2, MapParts, Intervals, ClampTime DEF ScheduleTypeOK
    <2>2. DOMAIN targetDueAt \subseteq ID
      BY <1>2, MapParts DEF ScheduleTypeOK
    <2> QED
      BY <2>1, <2>2, MapIntro
  <1>4. discoveryDueAt' \in Time /\ checkInDueAt' \in Time
    BY <1>1, <1>2, Intervals, ClampTime DEF Begin, Reconcile, ScheduleTypeOK
  <1>5. ScheduleTypeOK'
    BY <1>1, <1>2, <1>3, <1>4 DEF Begin, Reconcile, ScheduleTypeOK
  <1>6. PassTypeOK'
    BY <1>1 DEF Begin, Books, TypeOK, PassTypeOK
  <1>7. /\ ClockTypeOK' /\ RunTypeOK' /\ HistoryTypeOK' /\ WorldTypeOK'
    BY ClockKept, RunKept, HistoryKept, WorldKept DEF Begin, Books, TypeOK
  <1>8. TypeOK'
    BY <1>5, <1>6, <1>7 DEF Begin, TypeOK
  <1>9. NoLeak'
    BY DEF Begin, Reconcile, NoLeak, Books, runVars
  <1> QED
    BY <1>8, <1>9 DEF Begin, Work, Books

(* The two clocks. *)
LEMMA BooksTime ==
  ASSUME Books, Tick \/ \E d \in ClockSteps : StepClock(d)
  PROVE  Books'
  <1>1. UNCHANGED <<scheduleVars, pc, passVars, runVars>>
    BY DEF Tick, StepClock
  <1>2. ClockTypeOK'
    BY RunnerAssumption DEF Tick, StepClock, Books, TypeOK, ClockTypeOK
  <1>3. WorldTypeOK'
    BY DEF Tick, StepClock, Books, TypeOK, WorldTypeOK, worldVars
  <1>4. ScheduleTypeOK' /\ PassTypeOK' /\ RunTypeOK'
    BY <1>1, ScheduleKept, PassKept, RunKept DEF Books, TypeOK
  <1>5. HistoryTypeOK'
    BY DEF Tick, StepClock, historyVars, Books, TypeOK, HistoryTypeOK
  <1>6. TypeOK'
    BY <1>1, <1>2, <1>3, <1>4, <1>5 DEF Books, TypeOK, passVars
  <1>7. NoLeak' /\ Work'
    BY <1>1
    DEF Books, NoLeak, Work, Scheduled, scheduleVars, passVars, runVars
  <1> QED
    BY <1>6, <1>7 DEF Books

-----------------------------------------------------------------------------
(* A round, taken apart: what its choices come to. *)
LEMMA RoundParts ==
  ASSUME Books, Round
  PROVE  /\ DOMAIN observations' \subseteq dueTargets
         /\ IsMap(observations', ID, BOOLEAN)
         /\ RecordAnswers(observations')
         /\ \/ CompletedDiscovery(now)
            \/ UNCHANGED <<lastDiscoveryAt, discoveryDueAt>>
         /\ discoveryDue => CompletedDiscovery(now)
         /\ sweepsBought' \in [ID -> Nat]
  <1>1. PICK answers \in ProbeResults :
          LET unresolved  == {id \in dueTargets : answers[id] = "silent"}
              justMissing == {id \in unresolved : WasAnswering(id)}
              extra       == /\ justMissing # {}
                             /\ ~discoveryDue
                             /\ MayDiscover(now)
              sweeping    == discoveryDue \/ extra
              findable    == {id \in unresolved : runtime.targets[id].mac # NoMAC}
              observed    == {id \in dueTargets : answers[id] # "unknown"}
          IN  \E found \in SUBSET (IF sweeping THEN findable ELSE {}) :
                LET online == [id \in observed |->
                                 answers[id] = "online" \/ id \in found]
                IN  /\ observations' = online
                    /\ RecordAnswers(online)
                    /\ IF sweeping
                       THEN CompletedDiscovery(now)
                       ELSE UNCHANGED <<lastDiscoveryAt, discoveryDueAt>>
                    /\ sweepsBought' =
                         [id \in ID |->
                            IF id \in observed /\ online[id] THEN 0
                            ELSE IF extra /\ id \in justMissing
                                 THEN sweepsBought[id] + 1
                                 ELSE sweepsBought[id]]
    BY DEF Round
  <1> DEFINE observed == {id \in dueTargets : answers[id] # "unknown"}
  <1>2. /\ \/ CompletedDiscovery(now)
           \/ UNCHANGED <<lastDiscoveryAt, discoveryDueAt>>
        /\ discoveryDue => CompletedDiscovery(now)
        /\ RecordAnswers(observations')
    BY <1>1
  <1>3. observations' \in [observed -> BOOLEAN]
    <2>1. PICK found :
            observations' = [id \in observed |->
                               answers[id] = "online" \/ id \in found]
      BY <1>1
    <2>2. \A id \in observed : (answers[id] = "online" \/ id \in found) \in BOOLEAN
      OBVIOUS
    <2> QED
      BY <2>1, <2>2
  <1>4. IsMap(observations', ID, BOOLEAN)
    <2>1. observed \in SUBSET ID
      BY DEF Books, TypeOK, PassTypeOK
    <2> QED
      BY <1>3, <2>1, MapIntro
  <1>5. sweepsBought' \in [ID -> Nat]
    <2>1. sweepsBought \in [ID -> Nat]
      BY DEF Books, TypeOK, HistoryTypeOK
    <2> QED
      BY <1>1, <2>1
  <1> QED
    BY <1>2, <1>3, <1>4, <1>5

LEMMA BooksRound ==
  ASSUME Books, Round
  PROVE  Books'
  <1> DEFINE due == [id \in DOMAIN targetDueAt \cup dueTargets |->
                       IF id \in dueTargets
                       THEN Slot(TargetInterval(runtime.targets[id]), now)
                       ELSE targetDueAt[id]]
  <1> DEFINE heard == [id \in DOMAIN answering \cup DOMAIN observations' |->
                         IF id \in DOMAIN observations'
                         THEN observations'[id] ELSE answering[id]]
  <1>1. /\ pc = "round" /\ pc' = "report" /\ lastRound' = now
        /\ targetDueAt' = due
        /\ UNCHANGED <<runtime, checkInDueAt, clockVars, runVars, worldVars>>
        /\ UNCHANGED <<now, discoveryDue, dueTargets, earliest, todo,
                       wakeAt, nap, barred, saveFailed, unsettled, setBack>>
    BY DEF Round, CompletedTargets
  <1>2. /\ IsRuntime(runtime) /\ ScheduleTypeOK /\ now \in Time
        /\ dueTargets \subseteq DOMAIN runtime.targets
        /\ DOMAIN targetDueAt = DOMAIN runtime.targets
    BY <1>1 DEF Books, TypeOK, ScheduleTypeOK, PassTypeOK, Work, NoLeak
  <1>3. IsMap(targetDueAt', ID, Time)
    <2>1. \A id \in dueTargets :
            Slot(TargetInterval(runtime.targets[id]), now) \in Time
      BY <1>2, Intervals, SlotTime
    <2>2. \A id \in DOMAIN targetDueAt : targetDueAt[id] \in Time
      BY <1>2, MapParts DEF ScheduleTypeOK
    <2>3. due \in [DOMAIN runtime.targets -> Time]
      BY <1>2, <2>1, <2>2
    <2> QED
      BY <1>1, <1>2, <2>3, RuntimeParts, MapIntro
  <1>4. answering' = heard
    BY RoundParts DEF RecordAnswers
  <1>5. IsMap(answering', ID, BOOLEAN)
    <2>1. \A id \in DOMAIN observations' : observations'[id] \in BOOLEAN
      BY RoundParts, MapParts
    <2>2. \A id \in DOMAIN answering : answering[id] \in BOOLEAN
      BY <1>2, MapParts DEF ScheduleTypeOK
    <2>3. heard \in [DOMAIN answering \cup DOMAIN observations' -> BOOLEAN]
      BY <2>1, <2>2
    <2>4. DOMAIN answering \cup DOMAIN observations' \in SUBSET ID
      BY <1>2, RoundParts, MapParts DEF ScheduleTypeOK
    <2> QED
      BY <1>4, <2>3, <2>4, MapIntro
  <1>6. lastDiscoveryAt' \in Time /\ discoveryDueAt' \in Time
    BY <1>2, RoundParts, Intervals, AdvanceTime
    DEF CompletedDiscovery, ScheduleTypeOK
  <1>7. ScheduleTypeOK'
    BY <1>1, <1>2, <1>3, <1>5, <1>6 DEF ScheduleTypeOK
  <1>8. PassTypeOK'
    BY <1>1, RoundParts DEF Books, TypeOK, PassTypeOK
  <1>9. HistoryTypeOK'
    BY <1>1, <1>2, RoundParts DEF Books, TypeOK, HistoryTypeOK
  <1>10. ClockTypeOK' /\ RunTypeOK' /\ WorldTypeOK'
    BY <1>1, ClockKept, RunKept, WorldKept DEF Books, TypeOK
  <1>11. TypeOK'
    BY <1>1, <1>7, <1>8, <1>9, <1>10 DEF TypeOK
  <1>12. NoLeak'
    <2>1. DOMAIN targetDueAt' = DOMAIN runtime'.targets
      BY <1>1, <1>2
    <2>2. DOMAIN answering' \subseteq DOMAIN runtime'.targets
      BY <1>1, <1>2, <1>4, RoundParts DEF Books, NoLeak
    <2>3. DOMAIN reported' \subseteq DOMAIN runtime'.targets
      BY <1>1 DEF Books, NoLeak, runVars
    <2> QED
      BY <2>1, <2>2, <2>3 DEF NoLeak
  <1>13. Work'
    BY <1>1, <1>2, RoundParts DEF Work
  <1> QED
    BY <1>11, <1>12, <1>13 DEF Books

LEMMA BooksReported ==
  ASSUME Books, NEW config \in ServerConfigs, Reported(config)
  PROVE  Books'
  <1> DEFINE sent == [id \in DOMAIN reported \cup DOMAIN observations |->
                        IF id \in DOMAIN observations
                        THEN observations[id] ELSE reported[id]]
  <1>1. /\ pc = "report" /\ pc' \in {"apply", "save"} /\ reported' = sent
        /\ IsRuntime(config) /\ IsRuntime(runtime) /\ ClockNow \in Time
    BY RunnerAssumption, NowIsTime
    DEF Reported, NoteAnswers, Books, TypeOK, ScheduleTypeOK
  <1>2. checkInDueAt' \in Time
    BY <1>1, Intervals, AddTime DEF Reported, CompletedCheckIn
  <1>3. ScheduleTypeOK'
    BY <1>2 DEF Reported, Books, TypeOK, ScheduleTypeOK
  <1>4. IsMap(reported', ID, BOOLEAN)
    <2>1. IsMap(reported, ID, BOOLEAN) /\ IsMap(observations, ID, BOOLEAN)
      BY DEF Books, TypeOK, RunTypeOK, PassTypeOK
    <2>2. sent \in [DOMAIN reported \cup DOMAIN observations -> BOOLEAN]
      BY <2>1, MapParts
    <2>3. DOMAIN reported \cup DOMAIN observations \in SUBSET ID
      BY <2>1, MapParts
    <2> QED
      BY <1>1, <2>2, <2>3, MapIntro
  <1>5. RunTypeOK'
    BY <1>1, <1>4 DEF Reported, Books, TypeOK, RunTypeOK
  <1>6. HistoryTypeOK'
    BY DEF Reported, Books, TypeOK, HistoryTypeOK
  <1>7. ClockTypeOK' /\ PassTypeOK' /\ WorldTypeOK'
    BY ClockKept, PassKept, WorldKept DEF Reported, Books, TypeOK
  <1>8. TypeOK'
    BY <1>1, <1>3, <1>5, <1>6, <1>7 DEF TypeOK
  <1>9. NoLeak'
    BY <1>1 DEF Reported, Books, NoLeak, Work
  <1> QED
    BY <1>1, <1>8, <1>9 DEF Books, Work

(* The failure count grows past zero, and the jittered sleep lies between  *)
(* half the delay and the whole of it.                                     *)
LEMMA BackoffSleep ==
  ASSUME Books, NEW terminal \in BOOLEAN, ReportFailed(terminal)
  PROVE  /\ failures' \in Nat \ {0}
         /\ failures' = Attempt(terminal)
         /\ nap' \in Nat /\ wakeAt' \in Int
         /\ nap' <= BackoffMax
         /\ nap' >= Delay(failures') \div 2
  <1>1. failures' = Attempt(terminal)
    BY DEF ReportFailed
  <1>2. failures' \in Nat \ {0}
    BY <1>1, RunnerAssumption DEF Attempt, Books, TypeOK, RunTypeOK
  <1> DEFINE delay == Delay(failures')
  <1>3. delay \in 0 .. BackoffMax
    BY <1>2, DelayBounds
  <1>4. PICK jitter \in 0 .. delay \div 2 : SleepFor(delay \div 2 + jitter)
    BY <1>1 DEF ReportFailed
  <1> HIDE DEF delay
  <1>5. /\ delay \div 2 \in Nat
        /\ delay \div 2 + delay \div 2 <= delay
    BY <1>3, RunnerAssumption
  <1>6. nap' = delay \div 2 + jitter /\ wakeAt' = mono + nap'
    BY <1>4 DEF SleepFor
  <1>7. nap' \in Nat /\ nap' <= BackoffMax /\ nap' >= delay \div 2
    BY <1>3, <1>4, <1>5, <1>6, RunnerAssumption
  <1>8. wakeAt' \in Int
    BY <1>6, <1>7 DEF Books, TypeOK, ClockTypeOK
  <1> QED
    BY <1>1, <1>2, <1>7, <1>8 DEF delay

LEMMA BooksReportFailed ==
  ASSUME Books, NEW terminal \in BOOLEAN, ReportFailed(terminal)
  PROVE  Books'
  <1>1. UNCHANGED <<scheduleVars, clockVars, worldVars>>
    BY DEF ReportFailed
  <1>2. ScheduleTypeOK' /\ ClockTypeOK' /\ WorldTypeOK'
    BY <1>1, ScheduleKept, ClockKept, WorldKept DEF Books, TypeOK
  <1>3. PassTypeOK'
    BY BackoffSleep DEF ReportFailed, Books, TypeOK, PassTypeOK
  <1>4. RunTypeOK'
    BY BackoffSleep DEF ReportFailed, Books, TypeOK, RunTypeOK
  <1>5. HistoryTypeOK'
    BY DEF ReportFailed, Books, TypeOK, HistoryTypeOK
  <1>6. pc = "report" /\ pc' = "backoff"
    BY DEF ReportFailed
  <1>7. TypeOK'
    BY <1>2, <1>3, <1>4, <1>5, <1>6, BackoffSleep DEF TypeOK
  <1>8. NoLeak'
    BY <1>6 DEF ReportFailed, Books, NoLeak, scheduleVars
  <1> QED
    BY <1>6, <1>7, <1>8 DEF Books, Work

LEMMA BooksSave ==
  ASSUME Books, NEW outcome \in SaveOutcomes, Save(outcome)
  PROVE  Books'
  <1>1. ScheduleTypeOK' /\ ClockTypeOK' /\ PassTypeOK'
    BY ScheduleKept, ClockKept, PassKept DEF Save, Books, TypeOK
  <1>2. RunTypeOK' /\ WorldTypeOK'
    BY DEF Save, Believed, Books, TypeOK, RunTypeOK, WorldTypeOK
  <1>3. HistoryTypeOK'
    BY DEF Save, Books, TypeOK, HistoryTypeOK
  <1>4. pc = "save" /\ pc' = "apply"
    BY DEF Save
  <1>5. TypeOK'
    BY <1>1, <1>2, <1>3, <1>4 DEF TypeOK
  <1>6. NoLeak'
    BY <1>4 DEF Save, Books, NoLeak, scheduleVars
  <1> QED
    BY <1>4, <1>5, <1>6 DEF Books, Work

LEMMA BooksAdopt ==
  ASSUME Books, Adopt
  PROVE  Books'
  <1> DEFINE due == [id \in DOMAIN updated.targets |->
                       IF id \in Kept(updated) THEN targetDueAt[id]
                                               ELSE ClockNow]
  <1> DEFINE heard == [id \in DOMAIN answering \ Dropped(updated) |->
                         answering[id]]
  <1> DEFINE sent == [id \in DOMAIN reported \cap DOMAIN updated.targets |->
                        reported[id]]
  <1>1. /\ pc = "apply" /\ pc' = "top" /\ EndPass
        /\ runtime' = updated /\ targetDueAt' = due
        /\ answering' = heard /\ reported' = sent
        /\ UNCHANGED <<lastDiscoveryAt, checkInDueAt, clockVars, worldVars>>
        /\ UNCHANGED <<once, failures, updated, persisted, barred, saveFailed,
                       unsettled, setBack>>
    BY DEF Adopt, Apply
  <1>2. /\ IsRuntime(updated) /\ ScheduleTypeOK /\ ClockNow \in Time
        /\ DOMAIN targetDueAt = DOMAIN runtime.targets
        /\ DOMAIN answering \subseteq DOMAIN runtime.targets
    BY <1>1, NowIsTime DEF Books, TypeOK, RunTypeOK, NoLeak
  <1>3. IsMap(targetDueAt', ID, Time)
    <2>1. \A id \in Kept(updated) : targetDueAt[id] \in Time
      BY <1>2, MapParts DEF Kept, ScheduleTypeOK
    <2>2. due \in [DOMAIN updated.targets -> Time]
      BY <1>2, <2>1
    <2> QED
      BY <1>1, <1>2, <2>2, RuntimeParts, MapIntro
  <1>4. IsMap(answering', ID, BOOLEAN)
    <2>1. heard \in [DOMAIN answering \ Dropped(updated) -> BOOLEAN]
      BY <1>2, MapParts DEF ScheduleTypeOK
    <2>2. DOMAIN answering \ Dropped(updated) \in SUBSET ID
      BY <1>2, MapParts DEF ScheduleTypeOK
    <2> QED
      BY <1>1, <2>1, <2>2, MapIntro
  <1>5. IsMap(reported', ID, BOOLEAN)
    <2>1. IsMap(reported, ID, BOOLEAN)
      BY DEF Books, TypeOK, RunTypeOK
    <2>2. sent \in [DOMAIN reported \cap DOMAIN updated.targets -> BOOLEAN]
      BY <2>1, MapParts
    <2>3. DOMAIN reported \cap DOMAIN updated.targets \in SUBSET ID
      BY <2>1, MapParts
    <2> QED
      BY <1>1, <2>2, <2>3, MapIntro
  <1>6. ScheduleTypeOK'
    BY <1>1, <1>2, <1>3, <1>4 DEF Adopt, Apply, ScheduleTypeOK
  <1>7. RunTypeOK'
    BY <1>1, <1>5 DEF Books, TypeOK, RunTypeOK
  <1>8. HistoryTypeOK'
    <2>1. sweepsBought' \in [ID -> Nat]
      BY DEF Adopt, Books, TypeOK, HistoryTypeOK
    <2>2. lastRound' \in Time
      BY ZeroIsTime DEF Adopt, Books, TypeOK, HistoryTypeOK
    <2> QED
      BY <1>1, <2>1, <2>2 DEF Books, TypeOK, HistoryTypeOK
  <1>9. ClockTypeOK' /\ WorldTypeOK' /\ PassTypeOK'
    BY <1>1, ClockKept, WorldKept, PassEnds DEF Books, TypeOK
  <1>10. TypeOK'
    BY <1>1, <1>6, <1>7, <1>8, <1>9 DEF TypeOK
  <1>11. NoLeak'
    <2>1. DOMAIN targetDueAt' = DOMAIN updated.targets
      BY <1>1
    <2>2. DOMAIN answering' \subseteq DOMAIN updated.targets
      BY <1>1, <1>2 DEF Dropped
    <2>3. DOMAIN reported' \subseteq DOMAIN updated.targets
      BY <1>1
    <2> QED
      BY <1>1, <2>1, <2>2, <2>3 DEF NoLeak
  <1> QED
    BY <1>1, <1>10, <1>11 DEF Books, Work

LEMMA BooksStutter ==
  ASSUME Books, UNCHANGED vars
  PROVE  Books'
  <1>1. UNCHANGED <<scheduleVars, clockVars, pc, passVars, runVars, historyVars,
                    worldVars>>
    BY DEF vars
  <1>2. /\ ScheduleTypeOK' /\ ClockTypeOK' /\ PassTypeOK'
        /\ RunTypeOK' /\ HistoryTypeOK' /\ WorldTypeOK'
    BY <1>1, ScheduleKept, ClockKept, PassKept, RunKept, HistoryKept, WorldKept
    DEF Books, TypeOK
  <1>3. TypeOK'
    BY <1>1, <1>2 DEF Books, TypeOK, passVars
  <1> QED
    BY <1>1, <1>3
    DEF Books, NoLeak, Work, Scheduled, scheduleVars, passVars, runVars

LEMMA BooksStep == Books /\ [Next]_vars => Books'
  <1> SUFFICES ASSUME Books, [Next]_vars PROVE Books'
    OBVIOUS
  <1>1. CASE Launch
    BY <1>1, BooksLaunch
  <1>2. CASE Kill \/ ReturnOnce
    BY <1>2, BooksExit DEF Kill, ReturnOnce
  <1>3. CASE Begin
    BY <1>3, BooksBegin
  <1>4. CASE StartRound \/ StartWait \/ Sleep \/ Wake
               \/ \E id \in ID : ScanTarget(id)
    BY <1>4, BooksPass
  <1>5. CASE Round
    BY <1>5, BooksRound
  <1>6. CASE \E config \in ServerConfigs : Reported(config)
    BY <1>6, BooksReported
  <1>7. CASE \E terminal \in BOOLEAN : ReportFailed(terminal)
    BY <1>7, BooksReportFailed
  <1>8. CASE \E outcome \in SaveOutcomes : Save(outcome)
    BY <1>8, BooksSave
  <1>9. CASE Adopt
    BY <1>9, BooksAdopt
  <1>10. CASE Tick \/ \E d \in ClockSteps : StepClock(d)
    BY <1>10, BooksTime
  <1>11. CASE UNCHANGED vars
    BY <1>11, BooksStutter
  <1> QED
    BY <1>1, <1>2, <1>3, <1>4, <1>5, <1>6, <1>7, <1>8, <1>9, <1>10, <1>11
    DEF Next, LoopStep

(* Every variable always holds a value the program could hold: no lookup   *)
(* of the loop misses, no retry is slower than the ceiling.                *)
THEOREM TypeCorrect == Spec => []TypeOK
  <1>1. Books => TypeOK
    BY DEF Books
  <1> QED
    BY <1>1, BooksInit, BooksStep, PTL DEF Spec

(* The maps of the schedule and of the runner never outgrow the target     *)
(* list the server last sent, for every sequence of lists.                 *)
THEOREM NothingLeaks == Spec => []NoLeak
  <1>1. Books => NoLeak
    BY DEF Books
  <1> QED
    BY <1>1, BooksInit, BooksStep, PTL DEF Spec
=============================================================================
