------------------------- MODULE RunnerSafetyProofs -------------------------
(***************************************************************************)
(* The Runner's safety properties for every value of the constants, each   *)
(* from an inductive invariant of its own over the bookkeeping invariant   *)
(* of RunnerProofs.                                                        *)
(***************************************************************************)
EXTENDS RunnerProofs

-----------------------------------------------------------------------------
(* Retries after a final refusal. *)

(* Once barred, the failure count is past the point where the delay is at  *)
(* its ceiling, and no later failure brings it back.                       *)
Barred ==
  /\ barred => failures >= TerminalFailure
  /\ pc = "down" => ~barred
  /\ TerminalIsSlowest

LEMMA BarredStep == Books /\ Barred /\ [Next]_vars => Barred'
  <1> SUFFICES ASSUME Books, Barred, [Next]_vars PROVE Barred'
    OBVIOUS
  <1>1. CASE Launch
    BY <1>1 DEF Launch, historyVars, Barred, TerminalIsSlowest
  <1>2. CASE Kill \/ ReturnOnce
    BY <1>2
    DEF Kill, ReturnOnce, Exit, Barred,
        TerminalIsSlowest
  <1>3. CASE \E terminal \in BOOLEAN : ReportFailed(terminal)
    <2>1. PICK terminal \in BOOLEAN : ReportFailed(terminal)
      BY <1>3
    <2>2. barred' => failures' >= TerminalFailure
      BY <2>1, BackoffSleep, RunnerAssumption
      DEF ReportFailed, Attempt, Barred, Books, TypeOK, RunTypeOK
    <2>3. barred' => nap' >= BackoffMax \div 2
      <3>1. failures' \in Nat \ {0} /\ nap' >= Delay(failures') \div 2
        BY <2>1, BackoffSleep
      <3> QED
        BY <2>2, <3>1, DelayBounds
    <2>4. pc' = "backoff"
      BY <2>1 DEF ReportFailed
    <2> QED
      BY <2>2, <2>3, <2>4 DEF Barred, TerminalIsSlowest
  <1>4. CASE \E config \in ServerConfigs : Reported(config)
    BY <1>4 DEF Reported, Barred, TerminalIsSlowest
  <1>5. CASE Begin \/ StartRound \/ StartWait \/ Sleep \/ Wake \/ Round \/ Adopt
             \/ \E outcome \in SaveOutcomes : Save(outcome)
    <2>1. UNCHANGED <<barred, failures>> /\ pc' \notin {"down", "backoff"}
      BY <1>5
      DEF Begin, StartRound, StartWait, Sleep, Wake, Round, Adopt, Save,
          historyVars, runVars
    <2> QED
      BY <2>1 DEF Barred, TerminalIsSlowest
  <1>6. CASE Tick \/ (\E d \in ClockSteps : StepClock(d)) \/ UNCHANGED vars
             \/ \E id \in ID : ScanTarget(id)
    <2>1. UNCHANGED <<barred, failures, pc, nap>>
      BY <1>6
      DEF Tick, StepClock, ScanTarget, vars, historyVars, runVars, passVars
    <2> QED
      BY <2>1 DEF Barred, TerminalIsSlowest
  <1> QED
    BY <1>1, <1>2, <1>3, <1>4, <1>5, <1>6 DEF Next, LoopStep

(* After a final refusal every retry is at the slowest pace until the      *)
(* server accepts a report, whatever other failures come in between        *)
(* (agent.go:205-208).                                                     *)
THEOREM FinalRefusalStaysSlow == Spec => []TerminalIsSlowest
  <1>1. Init => Barred
    BY DEF Init, Barred, TerminalIsSlowest
  <1>2. Barred => TerminalIsSlowest
    BY DEF Barred
  <1> QED
    BY <1>1, <1>2, BooksInit, BooksStep, BarredStep, PTL DEF Spec

-----------------------------------------------------------------------------
(* Extra sweeps. *)

(* A target that has bought a sweep is remembered as not answering, which  *)
(* is what keeps it from buying another.                                   *)
Bought ==
  /\ pc = "down" => \A id \in ID : sweepsBought[id] = 0
  /\ \A id \in ID :
       /\ sweepsBought[id] <= 1
       /\ sweepsBought[id] = 1 => id \in DOMAIN answering /\ ~WasAnswering(id)

(* What a round adds to the count of a target, and when. *)
LEMMA RoundBuys ==
  ASSUME Books, Round, NEW id \in ID
  PROVE  \/ sweepsBought'[id] = 0
         \/ /\ sweepsBought'[id] = sweepsBought[id]
            /\ id \in DOMAIN observations' => observations'[id] = FALSE
         \/ /\ sweepsBought'[id] = sweepsBought[id] + 1
            /\ WasAnswering(id)
            /\ id \in DOMAIN observations'
            /\ observations'[id] = FALSE
  BY DEF Round

LEMMA BoughtRound ==
  ASSUME Books, Bought, Round
  PROVE  Bought'
  <1>1. pc' = "report"
    BY DEF Round
  <1>2. SUFFICES ASSUME NEW id \in ID
                 PROVE  /\ sweepsBought'[id] <= 1
                        /\ sweepsBought'[id] = 1 =>
                             id \in DOMAIN answering' /\ ~answering'[id]
    BY <1>1 DEF Bought, WasAnswering
  <1>3. answering' = [i \in DOMAIN answering \cup DOMAIN observations' |->
                        IF i \in DOMAIN observations'
                        THEN observations'[i] ELSE answering[i]]
    BY RoundParts DEF RecordAnswers
  <1>4. sweepsBought[id] \in Nat
    BY DEF Books, TypeOK, HistoryTypeOK
  <1>5. CASE sweepsBought'[id] = 0
    BY <1>5
  <1>6. CASE /\ sweepsBought'[id] = sweepsBought[id]
             /\ id \in DOMAIN observations' => observations'[id] = FALSE
    BY <1>3, <1>6 DEF Bought, WasAnswering
  <1>7. CASE /\ sweepsBought'[id] = sweepsBought[id] + 1
             /\ WasAnswering(id)
             /\ id \in DOMAIN observations'
             /\ observations'[id] = FALSE
    <2>1. sweepsBought[id] = 0
      BY <1>4, <1>7 DEF Bought
    <2> QED
      BY <1>3, <1>7, <2>1
  <1> QED
    BY <1>5, <1>6, <1>7, RoundBuys

LEMMA BoughtStep == Books /\ Bought /\ [Next]_vars => Bought'
  <1> SUFFICES ASSUME Books, Bought, [Next]_vars PROVE Bought'
    OBVIOUS
  <1>1. CASE Launch
    BY <1>1 DEF Launch, historyVars, Bought
  <1>2. CASE Kill \/ ReturnOnce
    BY <1>2
    DEF Kill, ReturnOnce, Exit, Bought
  <1>3. CASE Round
    BY <1>3, BoughtRound
  <1>4. CASE Adopt
    <2>1. /\ answering' = [id \in DOMAIN answering \ Dropped(updated) |->
                             answering[id]]
          /\ sweepsBought' =
               [id \in ID |->
                  IF id \in Dropped(updated) THEN 0 ELSE sweepsBought[id]]
          /\ pc' = "top"
      BY <1>4 DEF Adopt, Apply
    <2> QED
      BY <2>1 DEF Bought, WasAnswering
  <1>5. CASE \/ Begin \/ StartRound \/ StartWait \/ Sleep \/ Wake
             \/ Tick \/ UNCHANGED vars
             \/ \E id \in ID : ScanTarget(id)
             \/ \E config \in ServerConfigs : Reported(config)
             \/ \E terminal \in BOOLEAN : ReportFailed(terminal)
             \/ \E outcome \in SaveOutcomes : Save(outcome)
             \/ \E d \in ClockSteps : StepClock(d)
    <2>1. UNCHANGED <<sweepsBought, answering>> /\ (pc' = "down" => pc = "down")
      BY <1>5
      DEF Begin, StartRound, StartWait, Sleep, Wake, Tick, ScanTarget, Reported,
          ReportFailed, Save, StepClock, vars, historyVars, scheduleVars
    <2> QED
      BY <2>1 DEF Bought, WasAnswering
  <1> QED
    BY <1>1, <1>2, <1>3, <1>4, <1>5 DEF Next, LoopStep

(* A device that has gone quiet buys at most one extra sweep until it is   *)
(* heard again, over any number of rounds (agent.go:277-279).              *)
THEOREM OneSweepPerSilence == Spec => []GoneBuysOneSweep
  <1>1. Init => Bought
    BY DEF Init, Bought
  <1>2. Bought => GoneBuysOneSweep
    BY DEF Bought, GoneBuysOneSweep
  <1> QED
    BY <1>1, <1>2, BooksInit, BooksStep, BoughtStep, PTL DEF Spec

-----------------------------------------------------------------------------
(* The state file. *)

(* What Run believes to be stored is what a restart would find, unless a   *)
(* Save failed behind its rename, and what it runs is what it believes to  *)
(* be stored, unless its last Save failed.                                 *)
Believes ==
  /\ pc # "down" /\ ~unsettled => persisted = Stored
  /\ pc = "apply" /\ ~saveFailed => updated = persisted
  /\ pc \notin {"down", "save", "apply"} /\ ~saveFailed => runtime = persisted

LEMMA BelievesSave ==
  ASSUME Books, Believes, NEW outcome \in SaveOutcomes, Save(outcome)
  PROVE  Believes'
  <1>1. outcome \in {"stored", "early", "late"}
    BY DEF SaveOutcomes
  <1>2. updated # NoRuntime
    BY RunnerAssumption DEF Books, TypeOK, RunTypeOK
  <1>3. pc = "save" /\ pc' = "apply" /\ UNCHANGED <<updated, runtime>>
    BY DEF Save, scheduleVars
  <1>4. CASE outcome = "stored"
    <2>1. disk' = updated /\ persisted' = updated
      BY <1>4 DEF Save, Believed
    <2> QED
      BY <1>2, <1>3, <2>1 DEF Believes, Stored
  <1>5. CASE outcome = "early"
    <2>1. /\ disk' = disk /\ persisted' = persisted
          /\ saveFailed' = TRUE /\ unsettled' = unsettled
      BY <1>5 DEF Save, Believed
    <2> QED
      BY <1>3, <2>1 DEF Believes, Stored
  <1>6. CASE outcome = "late"
    <2>1. unsettled' = TRUE /\ saveFailed' = TRUE
      BY <1>6 DEF Save
    <2> QED
      BY <1>3, <2>1 DEF Believes
  <1> QED
    BY <1>1, <1>4, <1>5, <1>6

LEMMA BelievesStep == Books /\ Believes /\ [Next]_vars => Believes'
  <1> SUFFICES ASSUME Books, Believes, [Next]_vars PROVE Believes'
    OBVIOUS
  <1>1. CASE Launch
    BY <1>1 DEF Launch, New, Believes, Stored
  <1>2. CASE Kill \/ ReturnOnce
    BY <1>2 DEF Kill, ReturnOnce, Exit, Believes
  <1>3. CASE \E outcome \in SaveOutcomes : Save(outcome)
    BY <1>3, BelievesSave
  <1>4. CASE \E config \in ServerConfigs : Reported(config)
    BY <1>4 DEF Reported, Believes, Stored, worldVars
  <1>5. CASE Adopt
    BY <1>5 DEF Adopt, Apply, Believes, Stored, worldVars
  <1>6. CASE \/ Begin \/ StartRound \/ StartWait \/ Sleep \/ Wake \/ Round
             \/ \E id \in ID : ScanTarget(id)
             \/ \E terminal \in BOOLEAN : ReportFailed(terminal)
    <2>1. /\ UNCHANGED <<runtime, disk, persisted, saveFailed, unsettled>>
          /\ pc \notin {"down", "save", "apply"}
          /\ pc' \notin {"down", "save", "apply"}
      BY <1>6
      DEF Begin, StartRound, StartWait, Sleep, Wake, Round, ScanTarget,
          ReportFailed, scheduleVars, worldVars, runVars, historyVars
    <2> QED
      BY <2>1 DEF Believes, Stored
  <1>7. CASE Tick \/ UNCHANGED vars \/ \E d \in ClockSteps : StepClock(d)
    <2>1. UNCHANGED <<pc, runtime, updated, disk, persisted, saveFailed,
                      unsettled>>
      BY <1>7
      DEF Tick, StepClock, vars, scheduleVars, worldVars, runVars, historyVars
    <2> QED
      BY <2>1 DEF Believes, Stored
  <1> QED
    BY <1>1, <1>2, <1>3, <1>4, <1>5, <1>6, <1>7 DEF Next, LoopStep

(* Whatever fails before the rename, and whichever way the server's        *)
(* configurations alternate: unless a Save reported a failure after it had *)
(* replaced the file, a restart runs what the agent runs now.              *)
THEOREM RestartRunsTheSame == Spec => []DiskHoldsLastConfiguration
  <1>1. Init => Believes
    BY DEF Init, Believes
  <1>2. Believes => DiskHoldsLastConfiguration
    BY DEF Believes, DiskHoldsLastConfiguration, StoredIsInForce
  <1> QED
    BY <1>1, <1>2, BooksInit, BooksStep, BelievesStep, PTL DEF Spec

-----------------------------------------------------------------------------
(* How long the Runner sleeps. *)

(* Deadlines, one by one: a formula about all of them is one about the     *)
(* sweep, the check-in and every target.                                   *)
LEMMA EachDeadline ==
  ASSUME NEW deadline \in Deadlines
  PROVE  \/ deadline = <<discoveryDueAt, DiscoveryInterval(runtime)>>
         \/ deadline = <<checkInDueAt, CheckInInterval(runtime)>>
         \/ \E id \in Scheduled :
              deadline = <<targetDueAt[id], TargetInterval(runtime.targets[id])>>
  BY DEF Deadlines

LEMMA DeadlineTyped ==
  ASSUME Books, NEW deadline \in Deadlines
  PROVE  deadline[1] \in Time /\ deadline[2] \in Nat \ {0}
  <1>1. IsRuntime(runtime) /\ ScheduleTypeOK
    BY DEF Books, TypeOK, ScheduleTypeOK
  <1>2. \A id \in Scheduled : targetDueAt[id] \in Time
    BY <1>1, MapParts DEF Scheduled, ScheduleTypeOK
  <1> QED
    BY <1>1, <1>2, EachDeadline, Intervals DEF Scheduled, ScheduleTypeOK

(* A deadline that was clamped is at most its interval away. *)
LEMMA ClampWithin ==
  ASSUME NEW due \in Time, NEW interval \in Nat, NEW t \in Time
  PROVE  Sub(Clamp(due, interval, t), t) <= interval
  BY DEF Clamp, Time, Sub, Add

-----------------------------------------------------------------------------
(* Between the top of the loop and the sleep no deadline moves: they stay  *)
(* within their intervals, and once the loop has found nothing to do they  *)
(* stay ahead.  Wait's minimum is one of them, and so is the sleep.        *)
Within(t) == \A deadline \in Deadlines : Sub(deadline[1], t) <= deadline[2]

Ahead(t) == \A deadline \in Deadlines : Sub(deadline[1], t) > 0

Waits ==
  /\ pc \in {"decide", "scan", "waiting"} => Within(now)
  /\ pc \in {"scan", "waiting"} => Ahead(now)
  /\ pc = "scan" => \E deadline \in Deadlines : earliest = deadline[1]
  /\ pc = "waiting" => \E deadline \in Deadlines : nap = Sub(deadline[1], now)

LEMMA WaitsBegin ==
  ASSUME Books, Begin
  PROVE  Waits'
  <1>1. /\ IsRuntime(runtime) /\ ScheduleTypeOK /\ ClockNow \in Time
        /\ now' = ClockNow /\ runtime' = runtime /\ pc' = "decide"
    BY NowIsTime DEF Begin, Books, TypeOK, ScheduleTypeOK
  <1>2. Sub(discoveryDueAt', now') <= DiscoveryInterval(runtime')
    BY <1>1, Intervals, ClampWithin DEF Begin, Reconcile, ScheduleTypeOK
  <1>3. Sub(checkInDueAt', now') <= CheckInInterval(runtime')
    BY <1>1, Intervals, ClampWithin DEF Begin, Reconcile, ScheduleTypeOK
  <1>4. ASSUME NEW id \in Scheduled'
        PROVE  Sub(targetDueAt'[id], now') <= TargetInterval(runtime'.targets[id])
    <2>1. /\ id \in DOMAIN runtime.targets /\ id \in DOMAIN targetDueAt
          /\ targetDueAt'[id] = Clamp(targetDueAt[id],
                                      TargetInterval(runtime.targets[id]), ClockNow)
      BY <1>1, <1>4 DEF Scheduled, Begin, Reconcile
    <2>2. targetDueAt[id] \in Time
      BY <1>1, <2>1, MapParts DEF ScheduleTypeOK
    <2>3. TargetInterval(runtime.targets[id]) \in Nat
      BY <1>1, <2>1, Intervals
    <2> QED
      BY <1>1, <2>1, <2>2, <2>3, ClampWithin
  <1>5. Within(now)'
    <2> SUFFICES ASSUME NEW deadline \in Deadlines'
                 PROVE  Sub(deadline[1], now') <= deadline[2]
      BY DEF Within
    <2> QED
      BY <1>2, <1>3, <1>4 DEF Deadlines
  <1> QED
    BY <1>1, <1>5 DEF Waits

LEMMA WaitsStartWait ==
  ASSUME Books, Waits, StartWait
  PROVE  Waits'
  <1>1. /\ pc = "decide" /\ pc' = "scan"
        /\ UNCHANGED <<scheduleVars, now>>
        /\ earliest' = FirstDeadline
    BY DEF StartWait
  <1>2. Deadlines' = Deadlines
    BY <1>1 DEF Deadlines, Scheduled, scheduleVars
  <1>3. Ahead(now)
    BY EachDeadline
    DEF StartWait, Idle, DiscoveryDue, CheckInDue, DueTargets, After, Ahead
  <1>4. \E deadline \in Deadlines : FirstDeadline = deadline[1]
    <2>1. /\ <<discoveryDueAt, DiscoveryInterval(runtime)>> \in Deadlines
          /\ <<checkInDueAt, CheckInInterval(runtime)>> \in Deadlines
      BY DEF Deadlines
    <2>2. /\ <<discoveryDueAt, DiscoveryInterval(runtime)>>[1] = discoveryDueAt
          /\ <<checkInDueAt, CheckInInterval(runtime)>>[1] = checkInDueAt
      OBVIOUS
    <2> QED
      BY <2>1, <2>2 DEF FirstDeadline
  <1> QED
    BY <1>1, <1>2, <1>3, <1>4 DEF Waits, Within, Ahead

LEMMA WaitsScan ==
  ASSUME Books, Waits, NEW id \in ID, ScanTarget(id)
  PROVE  Waits'
  <1>1. /\ pc = "scan" /\ pc' = "scan"
        /\ UNCHANGED <<scheduleVars, now>>
        /\ id \in Scheduled
    BY DEF ScanTarget, Books, Work
  <1>2. Deadlines' = Deadlines
    BY <1>1 DEF Deadlines, Scheduled, scheduleVars
  <1>3. \E deadline \in Deadlines : targetDueAt[id] = deadline[1]
    <2>1. <<targetDueAt[id], TargetInterval(runtime.targets[id])>> \in Deadlines
      BY <1>1 DEF Deadlines
    <2>2. <<targetDueAt[id], TargetInterval(runtime.targets[id])>>[1] =
            targetDueAt[id]
      OBVIOUS
    <2> QED
      BY <2>1, <2>2
  <1>4. \E deadline \in Deadlines : earliest = deadline[1]
    BY <1>1 DEF Waits
  <1>5. earliest' = earliest \/ earliest' = targetDueAt[id]
    BY DEF ScanTarget
  <1> QED
    BY <1>1, <1>2, <1>3, <1>4, <1>5 DEF Waits, Within, Ahead

LEMMA WaitsSleep ==
  ASSUME Books, Waits, Sleep
  PROVE  Waits'
  <1>1. /\ pc = "scan" /\ pc' = "waiting"
        /\ UNCHANGED <<scheduleVars, now, earliest>>
    BY DEF Sleep
  <1>2. Deadlines' = Deadlines
    BY <1>1 DEF Deadlines, Scheduled, scheduleVars
  <1>3. PICK deadline \in Deadlines : earliest = deadline[1]
    BY <1>1 DEF Waits
  <1>4. Sub(earliest, now) > 0
    BY <1>1, <1>3 DEF Waits, Ahead
  <1>5. nap' = Sub(earliest, now)
    BY <1>4 DEF Sleep, SleepFor
  <1> QED
    BY <1>1, <1>2, <1>3, <1>5 DEF Waits, Within, Ahead

LEMMA WaitsStep == Books /\ Waits /\ [Next]_vars => Waits'
  <1> SUFFICES ASSUME Books, Waits, [Next]_vars PROVE Waits'
    OBVIOUS
  <1>1. CASE Begin
    BY <1>1, WaitsBegin
  <1>2. CASE StartWait
    BY <1>2, WaitsStartWait
  <1>3. CASE \E id \in ID : ScanTarget(id)
    BY <1>3, WaitsScan
  <1>4. CASE Sleep
    BY <1>4, WaitsSleep
  <1>5. CASE \/ Tick \/ UNCHANGED vars \/ \E d \in ClockSteps : StepClock(d)
    <2>1. UNCHANGED <<scheduleVars, pc, passVars>>
      BY <1>5 DEF Tick, StepClock, vars
    <2>2. Deadlines' = Deadlines
      BY <2>1 DEF Deadlines, Scheduled, scheduleVars
    <2> QED
      BY <2>1, <2>2 DEF Waits, Within, Ahead, passVars
  <1>6. CASE \/ Launch \/ Kill \/ ReturnOnce
             \/ StartRound \/ Wake \/ Round \/ Adopt
             \/ \E config \in ServerConfigs : Reported(config)
             \/ \E terminal \in BOOLEAN : ReportFailed(terminal)
             \/ \E outcome \in SaveOutcomes : Save(outcome)
    <2>1. pc' \notin {"decide", "scan", "waiting"}
      BY <1>6
      DEF Launch, Kill, ReturnOnce, Exit, StartRound,
          Wake, Round, Adopt, Reported, ReportFailed, Save
    <2> QED
      BY <2>1 DEF Waits
  <1> QED
    BY <1>1, <1>2, <1>3, <1>4, <1>5, <1>6 DEF Next, LoopStep

(* However the wall clock is set and by however much, a sleep between two  *)
(* rounds is never empty and never longer than an interval in force        *)
(* (schedule.go:123-131).                                                  *)
THEOREM SleepsAreBounded == Spec => []SleepBounded
  <1>1. Init => Waits
    BY DEF Init, Waits
  <1>2. Waits => SleepBounded
    BY DEF Waits, Within, Ahead, SleepBounded
  <1> QED
    BY <1>1, <1>2, BooksInit, BooksStep, WaitsStep, PTL DEF Spec

-----------------------------------------------------------------------------
(* Instants that can be compared.  While the wall clock is left alone every *)
(* instant with a monotonic reading is as far from the wall clock as the    *)
(* clocks are from each other; with an injected clock none has a reading.   *)
(* Either way every comparison is one of wall readings.                     *)
Comparable == steps = 0 \/ ~HasMono

Coherent(t, w, m, s) ==
  t.hasMono => HasMono /\ (s = 0 => t.wall - t.mono = w - m)

LEMMA CoherentSub ==
  ASSUME Books, Comparable, NEW t \in Time, NEW u \in Time,
         Coherent(t, wall, mono, steps), Coherent(u, wall, mono, steps)
  PROVE  Sub(t, u) = t.wall - u.wall
  BY DEF Books, TypeOK, ClockTypeOK, Comparable, Coherent, Sub, Time

LEMMA CoherentNow ==
  ASSUME Books
  PROVE  Coherent(ClockNow, wall, mono, steps)
  BY RunnerAssumption
  DEF Books, TypeOK, ClockTypeOK, Coherent, ClockNow, Reading

LEMMA CoherentAdd ==
  ASSUME NEW w \in Nat, NEW m \in Nat, NEW s,
         NEW t \in Time, Coherent(t, w, m, s), NEW d \in Int
  PROVE  Coherent(Add(t, d), w, m, s)
  BY DEF Coherent, Add, Time

LEMMA CoherentClamp ==
  ASSUME NEW w \in Nat, NEW m \in Nat, NEW s,
         NEW due \in Time, Coherent(due, w, m, s),
         NEW t \in Time, Coherent(t, w, m, s), NEW interval \in Nat
  PROVE  Coherent(Clamp(due, interval, t), w, m, s)
  BY CoherentAdd DEF Clamp

LEMMA CoherentAdvance ==
  ASSUME NEW w \in Nat, NEW m \in Nat, NEW s,
         NEW due \in Time, Coherent(due, w, m, s),
         NEW t \in Time, Coherent(t, w, m, s), NEW interval \in Nat \ {0}
  PROVE  Coherent(Advance(due, interval, t), w, m, s)
  <1>1. Sub(t, due) \in Int
    BY SubInt
  <1>2. ((Sub(t, due) \div interval) + 1) * interval \in Int
    BY <1>1
  <1> QED
    BY <1>2, CoherentAdd DEF Advance

LEMMA CoherentSlot ==
  ASSUME NEW w, NEW m, NEW s, NEW interval, NEW t
  PROVE  Coherent(Slot(interval, t), w, m, s)
  BY DEF Coherent, Slot, Add, Truncate

LEMMA CoherentZero ==
  ASSUME NEW w, NEW m, NEW s
  PROVE  Coherent(ZeroTime, w, m, s)
  BY DEF Coherent, ZeroTime

Steady ==
  /\ Coherent(discoveryDueAt, wall, mono, steps)
  /\ Coherent(checkInDueAt, wall, mono, steps)
  /\ \A id \in DOMAIN targetDueAt : Coherent(targetDueAt[id], wall, mono, steps)
  /\ Coherent(now, wall, mono, steps)

(* The clocks move, the instants stay. *)
LEMMA SteadyTime ==
  ASSUME Books, Steady, Tick \/ \E d \in ClockSteps : StepClock(d)
  PROVE  Steady'
  <1>1. UNCHANGED <<discoveryDueAt, checkInDueAt, targetDueAt, now>>
    BY DEF Tick, StepClock, scheduleVars, passVars
  <1>2. ASSUME NEW t, Coherent(t, wall, mono, steps)
        PROVE  Coherent(t, wall', mono', steps')
    <2>1. CASE Tick
      <3>1. wall' - mono' = wall - mono /\ steps' = steps
        BY <2>1 DEF Tick, worldVars, Books, TypeOK, ClockTypeOK
      <3> QED
        BY <1>2, <3>1 DEF Coherent
    <2>2. CASE \E d \in ClockSteps : StepClock(d)
      <3>1. steps' # 0
        BY <2>2 DEF StepClock, Books, TypeOK, WorldTypeOK
      <3> QED
        BY <1>2, <3>1 DEF Coherent
    <2> QED
      BY <2>1, <2>2
  <1> QED
    BY <1>1, <1>2 DEF Steady

(* The instants move, the clocks stay: every new one is built from the     *)
(* clock, from now or from an older deadline.                              *)
LEMMA SteadyBegin ==
  ASSUME Books, Steady, Begin
  PROVE  Steady'
  <1> DEFINE C(t) == Coherent(t, wall, mono, steps)
  <1>1. UNCHANGED <<wall, mono, steps>> /\ now' = ClockNow
    BY DEF Begin, clockVars, worldVars
  <1>2. /\ IsRuntime(runtime) /\ ScheduleTypeOK /\ ClockNow \in Time
        /\ wall \in Nat /\ mono \in Nat /\ C(ClockNow)
    BY NowIsTime, CoherentNow DEF Books, TypeOK, ClockTypeOK, ScheduleTypeOK
  <1>3. C(discoveryDueAt') /\ C(checkInDueAt')
    BY <1>2, Intervals, CoherentClamp
    DEF Begin, Reconcile, Steady, ScheduleTypeOK
  <1>4. ASSUME NEW id \in DOMAIN targetDueAt'
        PROVE  C(targetDueAt'[id])
    <2>1. id \in DOMAIN targetDueAt /\ targetDueAt[id] \in Time
      BY <1>2, <1>4, MapParts DEF Begin, Reconcile, ScheduleTypeOK
    <2>2. CASE id \in DOMAIN runtime.targets
      <3>1. TargetInterval(runtime.targets[id]) \in Nat
        BY <1>2, <2>2, Intervals
      <3>2. C(Clamp(targetDueAt[id], TargetInterval(runtime.targets[id]), ClockNow))
        BY <1>2, <2>1, <3>1, CoherentClamp DEF Steady
      <3> QED
        BY <2>1, <2>2, <3>2 DEF Begin, Reconcile
    <2>3. CASE id \notin DOMAIN runtime.targets
      BY <2>1, <2>3 DEF Begin, Reconcile, Steady
    <2> QED
      BY <2>2, <2>3
  <1> QED
    BY <1>1, <1>2, <1>3, <1>4 DEF Steady

LEMMA SteadyRound ==
  ASSUME Books, Steady, Round
  PROVE  Steady'
  <1> DEFINE C(t) == Coherent(t, wall, mono, steps)
  <1>1. UNCHANGED <<wall, mono, steps, now, checkInDueAt>>
    BY DEF Round, clockVars, worldVars
  <1>2. /\ IsRuntime(runtime) /\ ScheduleTypeOK /\ now \in Time
        /\ wall \in Nat /\ mono \in Nat
    BY DEF Books, TypeOK, ClockTypeOK, ScheduleTypeOK, PassTypeOK
  <1>3. C(discoveryDueAt')
    BY <1>2, RoundParts, Intervals, CoherentAdvance
    DEF CompletedDiscovery, Steady, ScheduleTypeOK
  <1>4. \A id \in DOMAIN targetDueAt' : C(targetDueAt'[id])
    BY CoherentSlot DEF Round, CompletedTargets, Steady
  <1> QED
    BY <1>1, <1>3, <1>4 DEF Steady

LEMMA SteadyOther ==
  ASSUME Books, Steady,
         \/ Launch \/ Adopt \/ Wake
         \/ Kill \/ ReturnOnce
         \/ \E config \in ServerConfigs : Reported(config)
  PROVE  Steady'
  <1> DEFINE C(t) == Coherent(t, wall, mono, steps)
  <1>1. UNCHANGED <<wall, mono, steps>>
    BY DEF Launch, Adopt, Wake, Kill, ReturnOnce, Exit,
           Reported, clockVars, worldVars
  <1>2. /\ IsRuntime(runtime) /\ ClockNow \in Time /\ C(ClockNow) /\ C(ZeroTime)
        /\ wall \in Nat /\ mono \in Nat
    BY NowIsTime, CoherentNow, CoherentZero
    DEF Books, TypeOK, ClockTypeOK, ScheduleTypeOK
  <1>3. CASE Launch
    BY <1>1, <1>2, <1>3 DEF Launch, New, Steady, passVars
  <1>4. CASE Kill \/ ReturnOnce
    BY <1>1, <1>2, <1>4
    DEF Kill, ReturnOnce, Exit, EndPass, New, Steady
  <1>5. CASE Wake
    BY <1>1, <1>2, <1>5 DEF Wake, EndPass, Steady, scheduleVars
  <1>6. CASE Adopt
    BY <1>1, <1>2, <1>6 DEF Adopt, Apply, Kept, EndPass, Steady
  <1>7. CASE \E config \in ServerConfigs : Reported(config)
    <2>1. C(checkInDueAt')
      BY <1>2, <1>7, Intervals, CoherentAdd DEF Reported, CompletedCheckIn
    <2> QED
      BY <1>1, <1>7, <2>1 DEF Reported, Steady, passVars
  <1> QED
    BY <1>3, <1>4, <1>5, <1>6, <1>7

LEMMA SteadyStep == Books /\ Steady /\ [Next]_vars => Steady'
  <1> SUFFICES ASSUME Books, Steady, [Next]_vars PROVE Steady'
    OBVIOUS
  <1>1. CASE Tick \/ \E d \in ClockSteps : StepClock(d)
    BY <1>1, SteadyTime
  <1>2. CASE Begin
    BY <1>2, SteadyBegin
  <1>3. CASE Round
    BY <1>3, SteadyRound
  <1>4. CASE \/ Launch \/ Adopt \/ Wake
             \/ Kill \/ ReturnOnce
             \/ \E config \in ServerConfigs : Reported(config)
    BY <1>4, SteadyOther
  <1>5. CASE \/ StartRound \/ StartWait \/ Sleep \/ UNCHANGED vars
             \/ \E id \in ID : ScanTarget(id)
             \/ \E terminal \in BOOLEAN : ReportFailed(terminal)
             \/ \E outcome \in SaveOutcomes : Save(outcome)
    <2>1. UNCHANGED <<wall, mono, steps, discoveryDueAt, checkInDueAt,
                      targetDueAt, now>>
      BY <1>5
      DEF StartRound, StartWait, Sleep, ScanTarget, ReportFailed, Save, vars,
          scheduleVars, clockVars, worldVars, passVars
    <2> QED
      BY <2>1 DEF Steady
  <1> QED
    BY <1>1, <1>2, <1>3, <1>4, <1>5 DEF Next, LoopStep

-----------------------------------------------------------------------------
(* Wait's minimum is one: no deadline it has looked at is before it. *)
Minimal ==
  Comparable =>
    /\ pc = "scan" =>
         /\ Sub(earliest, now) <= Sub(discoveryDueAt, now)
         /\ Sub(earliest, now) <= Sub(checkInDueAt, now)
         /\ \A id \in Scheduled \ todo :
              Sub(earliest, now) <= Sub(targetDueAt[id], now)
    /\ EarliestHonoured

LEMMA ComparableStays == Books /\ [Next]_vars /\ Comparable' => Comparable
  <1> SUFFICES ASSUME Books, [Next]_vars, Comparable' PROVE Comparable
    OBVIOUS
  <1>1. CASE \E d \in ClockSteps : StepClock(d)
    BY <1>1 DEF StepClock, Comparable, Books, TypeOK, WorldTypeOK
  <1>2. CASE steps' = steps
    BY <1>2 DEF Comparable
  <1> QED
    BY <1>1, <1>2
    DEF Next, LoopStep, Launch, Kill, Begin, StartRound, ReturnOnce, StartWait,
        ScanTarget, Sleep, Wake, Round, Reported, ReportFailed, Save,
        Adopt, Exit, Tick, worldVars, vars

LEMMA EarliestCoherent ==
  ASSUME Books, Waits, Steady, pc = "scan"
  PROVE  earliest \in Time /\ Coherent(earliest, wall, mono, steps)
  <1>1. PICK deadline \in Deadlines : earliest = deadline[1]
    BY DEF Waits
  <1>2. Coherent(deadline[1], wall, mono, steps)
    BY EachDeadline DEF Steady, Scheduled
  <1> QED
    BY <1>1, <1>2, DeadlineTyped

LEMMA MinimalStartWait ==
  ASSUME Books, Steady, StartWait, Comparable
  PROVE  /\ Sub(earliest', now) <= Sub(discoveryDueAt, now)
         /\ Sub(earliest', now) <= Sub(checkInDueAt, now)
  <1>1. /\ discoveryDueAt \in Time /\ checkInDueAt \in Time /\ now \in Time
    BY DEF Books, TypeOK, ScheduleTypeOK, PassTypeOK
  <1>2. /\ Sub(discoveryDueAt, now) = discoveryDueAt.wall - now.wall
        /\ Sub(checkInDueAt, now) = checkInDueAt.wall - now.wall
        /\ Sub(checkInDueAt, discoveryDueAt) =
             checkInDueAt.wall - discoveryDueAt.wall
    BY <1>1, CoherentSub DEF Steady
  <1>3. earliest' = FirstDeadline
    BY DEF StartWait
  <1> QED
    BY <1>1, <1>2, <1>3 DEF FirstDeadline, Before, Time

LEMMA MinimalScan ==
  ASSUME Books, Waits, Steady, NEW id \in ID, ScanTarget(id), Comparable
  PROVE  /\ Sub(earliest', now) <= Sub(earliest, now)
         /\ Sub(earliest', now) <= Sub(targetDueAt[id], now)
  <1>1. /\ now \in Time /\ earliest \in Time
        /\ Coherent(earliest, wall, mono, steps)
    BY EarliestCoherent DEF ScanTarget, Books, TypeOK, PassTypeOK
  <1>2. id \in DOMAIN targetDueAt
    BY DEF ScanTarget, Books, Work, Scheduled
  <1>3. targetDueAt[id] \in Time
    BY <1>2, MapParts DEF Books, TypeOK, ScheduleTypeOK
  <1>4. /\ Sub(targetDueAt[id], now) = targetDueAt[id].wall - now.wall
        /\ Sub(earliest, now) = earliest.wall - now.wall
        /\ Sub(targetDueAt[id], earliest) = targetDueAt[id].wall - earliest.wall
    BY <1>1, <1>2, <1>3, CoherentSub DEF Steady
  <1>5. earliest' = IF Before(targetDueAt[id], earliest)
                    THEN targetDueAt[id] ELSE earliest
    BY DEF ScanTarget
  <1> QED
    BY <1>1, <1>3, <1>4, <1>5 DEF Before, Time

LEMMA MinimalStep ==
  Books /\ Waits /\ Steady /\ Minimal /\ [Next]_vars => Minimal'
  <1> SUFFICES ASSUME Books, Waits, Steady, Minimal, [Next]_vars, Comparable'
               PROVE  Minimal'
    BY DEF Minimal
  <1>1. Comparable
    BY ComparableStays
  <1>2. CASE StartWait
    <2>1. pc' = "scan" /\ todo' = Scheduled /\ UNCHANGED <<scheduleVars, now>>
      BY <1>2 DEF StartWait
    <2> QED
      BY <1>1, <1>2, <2>1, MinimalStartWait
      DEF Minimal, EarliestHonoured, Scheduled, scheduleVars
  <1>3. CASE \E id \in ID : ScanTarget(id)
    <2>1. PICK id \in ID : ScanTarget(id)
      BY <1>3
    <2>2. /\ pc = "scan" /\ pc' = "scan" /\ todo' = todo \ {id}
          /\ UNCHANGED <<scheduleVars, now>>
      BY <2>1 DEF ScanTarget
    <2>3. /\ discoveryDueAt \in Time /\ checkInDueAt \in Time /\ now \in Time
          /\ earliest \in Time /\ earliest' \in Time
          /\ \A i \in Scheduled : targetDueAt[i] \in Time
      <3>1. Books'
        BY BooksStep
      <3> QED
        BY <3>1, MapParts
        DEF Books, TypeOK, ScheduleTypeOK, PassTypeOK, Scheduled
    <2>4. /\ Sub(earliest, now) \in Int /\ Sub(earliest', now) \in Int
          /\ Sub(discoveryDueAt, now) \in Int /\ Sub(checkInDueAt, now) \in Int
          /\ \A i \in Scheduled : Sub(targetDueAt[i], now) \in Int
      BY <2>3, SubInt
    <2>5. /\ Sub(earliest', now) <= Sub(earliest, now)
          /\ Sub(earliest', now) <= Sub(targetDueAt[id], now)
      BY <1>1, <2>1, MinimalScan
    <2>6. /\ Sub(earliest, now) <= Sub(discoveryDueAt, now)
          /\ Sub(earliest, now) <= Sub(checkInDueAt, now)
          /\ \A i \in Scheduled \ todo :
               Sub(earliest, now) <= Sub(targetDueAt[i], now)
      BY <1>1, <2>2 DEF Minimal
    <2>7. /\ Sub(earliest', now) <= Sub(discoveryDueAt, now)
          /\ Sub(earliest', now) <= Sub(checkInDueAt, now)
          /\ \A i \in Scheduled \ todo' :
               Sub(earliest', now) <= Sub(targetDueAt[i], now)
      BY <2>2, <2>4, <2>5, <2>6
    <2> QED
      BY <2>2, <2>7 DEF Minimal, EarliestHonoured, Scheduled, scheduleVars
  <1>4. CASE Sleep
    <2>1. /\ pc = "scan" /\ pc' = "waiting" /\ todo = {}
          /\ UNCHANGED <<scheduleVars, now>>
      BY <1>4 DEF Sleep
    <2>2. nap' = Sub(earliest, now)
      <3>1. \E deadline \in Deadlines : Sub(earliest, now) = Sub(deadline[1], now)
        BY <2>1 DEF Waits
      <3>2. Sub(earliest, now) > 0
        BY <2>1, <3>1 DEF Waits, Ahead
      <3> QED
        BY <1>4, <3>2 DEF Sleep, SleepFor
    <2>3. Deadlines' = Deadlines
      BY <2>1 DEF Deadlines, Scheduled, scheduleVars
    <2>4. \A deadline \in Deadlines : nap' <= Sub(deadline[1], now)
      BY <1>1, <2>1, <2>2, EachDeadline DEF Minimal
    <2> QED
      BY <2>1, <2>3, <2>4 DEF Minimal, EarliestHonoured
  <1>5. CASE \/ Tick \/ UNCHANGED vars \/ \E d \in ClockSteps : StepClock(d)
    <2>1. UNCHANGED <<scheduleVars, pc, passVars>>
      BY <1>5 DEF Tick, StepClock, vars
    <2>2. Deadlines' = Deadlines /\ Scheduled' = Scheduled
      BY <2>1 DEF Deadlines, Scheduled, scheduleVars
    <2> QED
      BY <1>1, <2>1, <2>2
      DEF Minimal, EarliestHonoured, Comparable, scheduleVars, passVars
  <1>6. CASE pc' \notin {"scan", "waiting"}
    BY <1>6 DEF Minimal, EarliestHonoured
  <1> QED
    BY <1>2, <1>3, <1>4, <1>5, <1>6
    DEF Next, LoopStep, Launch, Kill, Begin, StartRound, ReturnOnce, Wake, Round, Reported,
        ReportFailed, Save, Adopt, Exit

(* While the wall clock is left alone, and with a clock that has no second *)
(* reading always, the agent never sleeps past a deadline of any kind.     *)
THEOREM NeverOversleeps == Spec => []EarliestHonoured
  <1>1. Init => Waits /\ Steady /\ Minimal
    BY CoherentZero
    DEF Init, Waits, Steady, Minimal, EarliestHonoured, EmptyMap
  <1>2. Minimal => EarliestHonoured
    BY DEF Minimal, EarliestHonoured, Comparable
  <1> QED
    BY <1>1, <1>2, BooksInit, BooksStep, WaitsStep, SteadyStep, MinimalStep, PTL
    DEF Spec

-----------------------------------------------------------------------------
(* The arithmetic of grids: intervals are positive, whatever their number. *)
LEMMA Division ==
  ASSUME NEW x \in Int, NEW i \in Nat \ {0}
  PROVE  /\ x = (x \div i) * i + (x % i)
         /\ x \div i \in Int /\ x % i \in 0 .. i - 1
  OBVIOUS

LEMMA MultipleIsEven ==
  ASSUME NEW k \in Int, NEW i \in Nat \ {0}
  PROVE  (k * i) % i = 0
  OBVIOUS

(* Two points of one grid that are less than an interval apart are one.    *)
LEMMA GridPointsApart ==
  ASSUME NEW x \in Int, NEW y \in Int, NEW i \in Nat \ {0},
         x % i = 0, y % i = 0, x - y < i, y - x < i
  PROVE  x = y
  <1> DEFINE k == x \div i
  <1> DEFINE l == y \div i
  <1>1. x = k * i /\ y = l * i /\ k \in Int /\ l \in Int
    BY Division
  <1>2. (k - l) * i < i /\ (l - k) * i < i
    BY <1>1
  <1>3. k - l < 1 /\ l - k < 1
    BY <1>1, <1>2
  <1> QED
    BY <1>1, <1>3

(* A slot is ahead of the instant it is computed for, on the grid of its   *)
(* interval, and carries no monotonic reading.                             *)
LEMMA SlotOnGrid ==
  ASSUME NEW interval \in Nat \ {0}, NEW t \in Time
  PROVE  /\ Sub(Slot(interval, t), t) > 0
         /\ (Slot(interval, t).wall - (Phase % interval)) % interval = 0
         /\ Slot(interval, t).mono = 0 /\ ~Slot(interval, t).hasMono
  <1> DEFINE offset == Phase % interval
  <1> DEFINE x == t.wall - offset
  <1> DEFINE next == Add(Truncate(Add(t, -offset), interval), interval + offset)
  <1>1. t.wall \in Int /\ offset \in Int /\ x \in Int /\ x = t.wall - offset
    BY FloorAssumption, Division DEF Time
  <1>2. /\ next.wall = x - (x % interval) + (interval + offset)
        /\ next.mono = 0 /\ ~next.hasMono
    BY <1>1 DEF Add, Truncate
  <1>3. Slot(interval, t) = IF After(next, t) THEN next ELSE Add(next, interval)
    BY DEF Slot
  <1>4. offset = Phase % interval
    OBVIOUS
  <1> HIDE DEF next, x, offset
  <1>5. x = (x \div interval) * interval + (x % interval)
        /\ x \div interval \in Int /\ x % interval \in 0 .. interval - 1
    BY <1>1, Division
  <1>6. next.wall \in Int /\ next.wall > t.wall
    <2> DEFINE r == x % interval
    <2>1. next.wall = x - r + (interval + offset) /\ r \in 0 .. interval - 1
      BY <1>2, <1>5
    <2> HIDE DEF r
    <2> QED
      BY <1>1, <2>1
  <1>7. Sub(next, t) > 0
    BY <1>1, <1>2, <1>6 DEF Sub
  <1>8. Slot(interval, t) = next
    BY <1>3, <1>7 DEF After
  <1>9. next.wall - offset = ((x \div interval) + 1) * interval
    BY <1>1, <1>2, <1>5
  <1>10. (next.wall - offset) % interval = 0
    BY <1>5, <1>9, MultipleIsEven
  <1>11. /\ Sub(Slot(interval, t), t) > 0
         /\ Slot(interval, t).mono = 0 /\ ~Slot(interval, t).hasMono
    BY ONLY <1>2, <1>7, <1>8
  <1>12. (Slot(interval, t).wall - (Phase % interval)) % interval = 0
    BY ONLY <1>4, <1>8, <1>10
  <1> QED
    BY <1>11, <1>12

(* A deadline that is served on time, or late, keeps its phase and is next *)
(* due within an interval.                                                 *)
LEMMA AdvanceKeepsPhase ==
  ASSUME NEW planned \in Time, NEW interval \in Nat \ {0}, NEW t \in Time
  PROVE  /\ Sub(Advance(planned, interval, t), t) > 0
         /\ ~After(planned, t) =>
              /\ Sub(Advance(planned, interval, t), planned) % interval = 0
              /\ Sub(Advance(planned, interval, t), t) \in 1 .. interval
  <1>1. CASE After(planned, t)
    BY <1>1 DEF Advance, After, Add, Sub, Time
  <1>2. CASE ~After(planned, t)
    <2> DEFINE late == Sub(t, planned)
    <2> DEFINE slots == (late \div interval) + 1
    <2>1. late \in Int /\ late >= 0 /\ Sub(planned, t) = -late
      BY <1>2 DEF After, Sub, Time
    <2>2. /\ late = (late \div interval) * interval + (late % interval)
          /\ late \div interval \in Int /\ late % interval \in 0 .. interval - 1
      BY <2>1, Division
    <2>3. slots * interval - late \in 1 .. interval /\ slots \in Int
      <3> HIDE DEF late
      <3>1. slots * interval = (late \div interval) * interval + interval
        BY <2>2
      <3>2. (late \div interval) * interval \in Int
        BY <2>2
      <3> QED
        BY <2>1, <2>2, <3>1, <3>2
    <2>4. Advance(planned, interval, t) = Add(planned, slots * interval)
      BY <1>2 DEF Advance
    <2>5. /\ Sub(Add(planned, slots * interval), planned) = slots * interval
          /\ Sub(Add(planned, slots * interval), t) =
               slots * interval + Sub(planned, t)
      <3> HIDE DEF slots
      <3>1. slots * interval \in Int
        BY <2>3
      <3> QED
        BY <3>1 DEF Add, Sub, Time
    <2>6. (slots * interval) % interval = 0
      BY <2>3, MultipleIsEven
    <2>7. slots * interval + Sub(planned, t) \in 1 .. interval
      <3> HIDE DEF late, slots
      <3>1. slots * interval \in Int
        BY <2>3
      <3> QED
        BY <2>1, <2>3, <3>1
    <2> QED
      BY <2>4, <2>5, <2>6, <2>7
  <1> QED
    BY <1>1, <1>2

-----------------------------------------------------------------------------
(* The deadlines of a round's own work, the check-in left out. *)
WorkAhead(t) ==
  /\ Sub(discoveryDueAt, t) > 0
  /\ \A id \in Scheduled : Sub(targetDueAt[id], t) > 0

LEMMA AheadParts ==
  ASSUME NEW t
  PROVE  Ahead(t) <=> WorkAhead(t) /\ Sub(checkInDueAt, t) > 0
  <1>1. ASSUME Ahead(t)
        PROVE  WorkAhead(t) /\ Sub(checkInDueAt, t) > 0
    <2>1. /\ <<discoveryDueAt, DiscoveryInterval(runtime)>> \in Deadlines
          /\ <<checkInDueAt, CheckInInterval(runtime)>> \in Deadlines
          /\ \A id \in Scheduled :
               <<targetDueAt[id], TargetInterval(runtime.targets[id])>>
                 \in Deadlines
      BY DEF Deadlines
    <2>2. /\ Sub(discoveryDueAt, t) > 0 /\ Sub(checkInDueAt, t) > 0
          /\ \A id \in Scheduled : Sub(targetDueAt[id], t) > 0
      BY <1>1, <2>1 DEF Ahead
    <2> QED
      BY <2>2 DEF WorkAhead
  <1>2. ASSUME WorkAhead(t), Sub(checkInDueAt, t) > 0
        PROVE  Ahead(t)
    BY <1>2, EachDeadline DEF WorkAhead, Ahead
  <1> QED
    BY <1>1, <1>2

-----------------------------------------------------------------------------
(* Silence.  While nobody has set the wall clock back, it never falls      *)
(* behind the monotonic one: an instant read earlier shows at most as much *)
(* wall time over its monotonic reading as the clocks do now.              *)
Lagging(t) == t.hasMono /\ t.wall - t.mono <= wall - mono

(* A target's deadline that still has a monotonic reading was set by Apply *)
(* and has passed; a slot is at most its interval away.                    *)
Near(id) ==
  IF targetDueAt[id].hasMono
  THEN targetDueAt[id].mono <= mono
  ELSE targetDueAt[id].wall - wall <= TargetInterval(runtime.targets[id])

Onward == HasMono /\ ~setBack /\ pc # "down"

Forward ==
  Onward =>
    /\ Lagging(discoveryDueAt) /\ Lagging(checkInDueAt)
    /\ \A id \in Scheduled : Near(id)
    /\ pc \in {"decide", "scan", "round"} => now = ClockNow

(* Wait's minimum is no further away than the check-in, and it is a slot   *)
(* or an instant that does not run ahead of the clocks.                    *)
CheckedIn ==
  Onward =>
    /\ pc = "scan" =>
         /\ Sub(earliest, now) <= Sub(checkInDueAt, now)
         /\ earliest.hasMono => Lagging(earliest)
    /\ pc = "waiting" => nap <= Sub(checkInDueAt, now)

LEMMA SlotWithin ==
  ASSUME NEW interval \in Nat \ {0}, NEW t \in Time
  PROVE  /\ Slot(interval, t).wall - t.wall <= interval
         /\ ~Slot(interval, t).hasMono
  <1> DEFINE offset == Phase % interval
  <1> DEFINE x == t.wall - offset
  <1> DEFINE next == Add(Truncate(Add(t, -offset), interval), interval + offset)
  <1>1. t.wall \in Int /\ offset \in Int /\ x \in Int /\ x = t.wall - offset
    BY FloorAssumption, Division DEF Time
  <1>2. /\ next.wall = x - (x % interval) + (interval + offset)
        /\ ~next.hasMono
    BY <1>1 DEF Add, Truncate
  <1>3. Slot(interval, t) = IF After(next, t) THEN next ELSE Add(next, interval)
    BY DEF Slot
  <1> HIDE DEF next, x, offset
  <1>4. x % interval \in 0 .. interval - 1
    BY <1>1, Division
  <1> DEFINE r == x % interval
  <1>5. next.wall = x - r + (interval + offset) /\ r \in 0 .. interval - 1
    BY <1>2, <1>4
  <1> HIDE DEF r
  <1>6. next.wall - t.wall \in 1 .. interval
    BY <1>1, <1>5
  <1>7. After(next, t)
    BY <1>1, <1>2, <1>5, <1>6 DEF After, Sub
  <1> QED
    BY <1>1, <1>2, <1>3, <1>5, <1>6, <1>7

LEMMA LaggingNow ==
  ASSUME Books, HasMono
  PROVE  Lagging(ClockNow) /\ ClockNow \in Time /\ ClockNow.mono = mono
  BY NowIsTime DEF Lagging, ClockNow, Reading, Books, TypeOK, ClockTypeOK

LEMMA LaggingAdd ==
  ASSUME Books, NEW t \in Time, Lagging(t), NEW d \in Int
  PROVE  Lagging(Add(t, d))
  BY DEF Books, TypeOK, ClockTypeOK, Lagging, Add, Time

LEMMA LaggingClamp ==
  ASSUME Books, NEW due \in Time, Lagging(due), NEW t \in Time, Lagging(t),
         NEW interval \in Nat
  PROVE  Lagging(Clamp(due, interval, t))
  BY LaggingAdd DEF Clamp

LEMMA LaggingAdvance ==
  ASSUME Books, NEW due \in Time, Lagging(due), NEW t \in Time, Lagging(t),
         NEW interval \in Nat \ {0}
  PROVE  Lagging(Advance(due, interval, t))
  <1>1. Sub(t, due) \in Int
    BY SubInt
  <1>2. ((Sub(t, due) \div interval) + 1) * interval \in Int
    BY <1>1
  <1> QED
    BY <1>2, LaggingAdd DEF Advance

(* What time does to the clocks of a process that was never set back.      *)
LEMMA OnwardTime ==
  ASSUME Books, Onward',
         Tick \/ UNCHANGED vars \/ \E d \in ClockSteps : StepClock(d)
  PROVE  /\ Onward
         /\ wall' \in Int /\ mono' \in Int /\ mono' >= mono
         /\ wall' - mono' >= wall - mono /\ wall' >= wall
  <1>1. wall \in Nat /\ mono \in Nat /\ setBack \in BOOLEAN
    BY DEF Books, TypeOK, ClockTypeOK, HistoryTypeOK
  <1>2. CASE \E d \in ClockSteps : StepClock(d)
    <2>1. PICK d \in ClockSteps : StepClock(d)
      BY <1>2
    <2>2. d \in Int /\ wall' = wall + d /\ mono' = mono /\ pc' = pc
      BY <2>1, RunnerAssumption DEF StepClock
    <2>3. setBack' = (setBack \/ d < 0) /\ ~setBack'
      BY <2>1 DEF StepClock, Onward
    <2>4. ~setBack /\ ~(d < 0)
      BY <2>3
    <2>5. Onward
      BY <2>2, <2>4 DEF Onward
    <2> QED
      BY <1>1, <2>2, <2>4, <2>5
  <1>3. CASE Tick \/ UNCHANGED vars
    <2>1. UNCHANGED <<pc, setBack>>
      BY <1>3 DEF Tick, vars, historyVars
    <2>2. Onward
      BY <2>1 DEF Onward
    <2> QED
      BY <1>1, <1>3, <2>2 DEF Tick, vars, clockVars
  <1> QED
    BY <1>2, <1>3

LEMMA ForwardBegin ==
  ASSUME Books, Forward, Begin, Onward
  PROVE  Forward'
  <1>1. /\ UNCHANGED <<runtime, wall, mono>> /\ now' = ClockNow
        /\ ClockNow' = ClockNow /\ pc # "down"
    BY DEF Begin, clockVars, ClockNow
  <1>2. /\ IsRuntime(runtime) /\ ScheduleTypeOK /\ ClockNow \in Time
        /\ Lagging(ClockNow) /\ ClockNow.mono = mono /\ ClockNow.hasMono
    BY LaggingNow DEF Books, TypeOK, ScheduleTypeOK, Onward, Lagging
  <1>3. Lagging(discoveryDueAt') /\ Lagging(checkInDueAt')
    BY <1>2, Intervals, LaggingClamp
    DEF Begin, Reconcile, Forward, ScheduleTypeOK
  <1>4. ASSUME NEW id \in Scheduled'
        PROVE  targetDueAt'[id] = targetDueAt[id] /\ Near(id)
    <2>1. /\ id \in Scheduled
          /\ targetDueAt'[id] = Clamp(targetDueAt[id],
                                   TargetInterval(runtime.targets[id]), ClockNow)
      BY <1>1, <1>4 DEF Begin, Reconcile, Scheduled
    <2>2. /\ targetDueAt[id] \in Time
          /\ TargetInterval(runtime.targets[id]) \in Nat \ {0}
      BY <1>2, <2>1, MapParts, Intervals DEF Scheduled, ScheduleTypeOK
    <2>3. Near(id)
      BY <2>1 DEF Forward
    <2>4. Sub(targetDueAt[id], ClockNow) <= TargetInterval(runtime.targets[id])
      BY <1>2, <2>2, <2>3
      DEF Near, Sub, ClockNow, Reading, Time, Books, TypeOK, ClockTypeOK
    <2> QED
      BY <2>1, <2>3, <2>4 DEF Clamp
  <1> QED
    BY <1>1, <1>3, <1>4 DEF Forward, Lagging, Near

LEMMA ForwardRound ==
  ASSUME Books, Forward, Round, Onward
  PROVE  Forward'
  <1>1. /\ UNCHANGED <<runtime, wall, mono, checkInDueAt, now>>
        /\ pc = "round" /\ pc' = "report"
    BY DEF Round, clockVars
  <1>2. /\ IsRuntime(runtime) /\ ScheduleTypeOK /\ now = ClockNow
        /\ ClockNow \in Time /\ Lagging(ClockNow)
        /\ dueTargets \subseteq DOMAIN runtime.targets
    BY <1>1, LaggingNow
    DEF Books, Work, TypeOK, ScheduleTypeOK, Onward, Forward
  <1>3. Lagging(discoveryDueAt')
    BY <1>2, RoundParts, Intervals, LaggingAdvance
    DEF CompletedDiscovery, Forward, ScheduleTypeOK
  <1>4. ASSUME NEW id \in Scheduled'
        PROVE  Near(id)'
    <2>1. CASE id \in dueTargets
      <3>1. targetDueAt'[id] = Slot(TargetInterval(runtime.targets[id]), now)
        BY <2>1 DEF Round, CompletedTargets
      <3>2. TargetInterval(runtime.targets[id]) \in Nat \ {0}
        BY <1>2, <2>1, Intervals
      <3>3. now.wall = wall /\ now \in Time
        BY <1>2 DEF ClockNow, Reading
      <3> QED
        BY <1>1, <3>1, <3>2, <3>3, SlotWithin DEF Near
    <2>2. CASE id \notin dueTargets
      <3>1. targetDueAt'[id] = targetDueAt[id] /\ id \in Scheduled
        BY <1>1, <1>4, <2>2 DEF Round, CompletedTargets, Scheduled
      <3> QED
        BY <1>1, <3>1 DEF Near, Forward
    <2> QED
      BY <2>1, <2>2
  <1> QED
    BY <1>1, <1>3, <1>4 DEF Forward, Lagging

LEMMA ForwardAdopt ==
  ASSUME Books, Forward, Adopt, Onward
  PROVE  Forward'
  <1>1. /\ UNCHANGED <<wall, mono, checkInDueAt>> /\ pc' = "top"
        /\ runtime' = updated
        /\ discoveryDueAt' \in {discoveryDueAt, ClockNow}
    BY DEF Adopt, Apply, clockVars
  <1>2. Lagging(ClockNow) /\ ClockNow \in Time /\ ClockNow.mono = mono
    BY LaggingNow DEF Onward
  <1>3. ASSUME NEW id \in Scheduled'
        PROVE  Near(id)'
    <2>1. CASE id \in Kept(updated)
      <3>1. /\ targetDueAt'[id] = targetDueAt[id] /\ id \in Scheduled
            /\ runtime.targets[id] = updated.targets[id]
        BY <2>1 DEF Adopt, Apply, Kept, Scheduled
      <3> QED
        BY <1>1, <3>1 DEF Near, Forward
    <2>2. CASE id \notin Kept(updated)
      <3>1. targetDueAt'[id] = ClockNow
        BY <1>1, <1>3, <2>2 DEF Adopt, Apply, Scheduled
      <3> QED
        BY <1>1, <1>2, <3>1 DEF Near, Lagging, Books, TypeOK, ClockTypeOK
    <2> QED
      BY <2>1, <2>2
  <1> QED
    BY <1>1, <1>2, <1>3 DEF Forward, Lagging

LEMMA ForwardOther ==
  ASSUME Books, Forward, Onward',
         \/ Launch \/ Tick \/ UNCHANGED vars \/ \E d \in ClockSteps : StepClock(d)
         \/ \E config \in ServerConfigs : Reported(config)
  PROVE  Forward'
  <1>1. /\ wall \in Nat /\ mono \in Nat /\ ScheduleTypeOK /\ IsRuntime(runtime)
        /\ \A id \in Scheduled :
             /\ targetDueAt[id] \in Time
             /\ TargetInterval(runtime.targets[id]) \in Nat \ {0}
    BY MapParts, Intervals
    DEF Books, TypeOK, ClockTypeOK, ScheduleTypeOK, Scheduled
  <1>2. CASE Launch
    <2>1. /\ UNCHANGED <<wall, mono>> /\ pc' = "top"
          /\ discoveryDueAt' = ClockNow /\ checkInDueAt' = ClockNow
          /\ \A id \in Scheduled' : targetDueAt'[id] = ClockNow
      BY <1>2 DEF Launch, New, clockVars, Scheduled
    <2>2. Lagging(ClockNow) /\ ClockNow.mono = mono
      BY LaggingNow DEF Onward
    <2> QED
      BY <1>1, <2>1, <2>2 DEF Forward, Lagging, Near
  <1>3. CASE Tick \/ UNCHANGED vars \/ \E d \in ClockSteps : StepClock(d)
    <2>1. UNCHANGED <<scheduleVars, pc, now>>
      BY <1>3 DEF Tick, StepClock, vars, passVars
    <2>2. /\ Onward
          /\ wall' \in Int /\ mono' \in Int /\ mono' >= mono
          /\ wall' - mono' >= wall - mono /\ wall' >= wall
      BY <1>3, OnwardTime
    <2>3. pc \in {"decide", "scan", "round"} => ClockNow' = ClockNow
      BY <1>3 DEF Tick, StepClock, vars, clockVars, ClockNow
    <2>4. Scheduled' = Scheduled
      BY <2>1 DEF Scheduled, scheduleVars
    <2>5. /\ Lagging(discoveryDueAt) /\ Lagging(checkInDueAt)
          /\ \A id \in Scheduled : Near(id)
          /\ pc \in {"decide", "scan", "round"} => now = ClockNow
      BY <2>2 DEF Forward
    <2>6. Lagging(discoveryDueAt)' /\ Lagging(checkInDueAt)'
      BY <1>1, <2>1, <2>2, <2>5
      DEF Lagging, scheduleVars, ScheduleTypeOK, Time
    <2>7. \A id \in Scheduled' : Near(id)'
      BY <1>1, <2>1, <2>2, <2>4, <2>5 DEF Near, scheduleVars, Time
    <2> QED
      BY <2>1, <2>3, <2>5, <2>6, <2>7 DEF Forward
  <1>4. CASE \E config \in ServerConfigs : Reported(config)
    <2>1. /\ UNCHANGED <<wall, mono, runtime, discoveryDueAt, targetDueAt, setBack>>
          /\ checkInDueAt' = Add(ClockNow, CheckInInterval(runtime))
          /\ pc = "report" /\ pc' \in {"apply", "save"}
      BY <1>4 DEF Reported, CompletedCheckIn, clockVars
    <2>2. Onward
      BY <2>1 DEF Onward
    <2>3. Lagging(checkInDueAt')
      BY <1>1, <2>1, <2>2, LaggingNow, LaggingAdd, Intervals DEF Onward
    <2> QED
      BY <2>1, <2>2, <2>3 DEF Forward, Lagging, Near, Scheduled
  <1> QED
    BY <1>2, <1>3, <1>4

LEMMA ForwardStep == Books /\ Forward /\ [Next]_vars => Forward'
  <1> SUFFICES ASSUME Books, Forward, [Next]_vars, Onward' PROVE Forward'
    BY DEF Forward
  <1>1. CASE \/ Launch \/ Tick \/ UNCHANGED vars
             \/ \E d \in ClockSteps : StepClock(d)
             \/ \E config \in ServerConfigs : Reported(config)
    BY <1>1, ForwardOther
  <1>2. CASE Kill \/ ReturnOnce
    BY <1>2 DEF Kill, ReturnOnce, Exit, Onward
  <1>3. CASE Begin
    BY <1>3, ForwardBegin DEF Begin, historyVars, Onward
  <1>4. CASE Round
    BY <1>4, ForwardRound DEF Round, Onward
  <1>5. CASE Adopt
    BY <1>5, ForwardAdopt DEF Adopt, Onward
  <1>6. CASE \/ StartRound \/ StartWait \/ Sleep \/ Wake
             \/ \E id \in ID : ScanTarget(id)
             \/ \E terminal \in BOOLEAN : ReportFailed(terminal)
             \/ \E outcome \in SaveOutcomes : Save(outcome)
    <2>1. UNCHANGED <<scheduleVars, clockVars, setBack>> /\ pc # "down"
      BY <1>6
      DEF StartRound, StartWait, Sleep, Wake, ScanTarget, ReportFailed, Save,
          historyVars
    <2>2. \/ pc' \notin {"decide", "scan", "round"}
          \/ pc \in {"decide", "scan", "round"} /\ now' = now
      BY <1>6
      DEF StartRound, StartWait, Sleep, Wake, ScanTarget, ReportFailed, Save
    <2>3. ClockNow' = ClockNow
      BY <2>1 DEF ClockNow, clockVars
    <2> QED
      BY <2>1, <2>2, <2>3
      DEF Forward, Onward, Lagging, Near, Scheduled, scheduleVars, clockVars
  <1> QED
    BY <1>1, <1>2, <1>3, <1>4, <1>5, <1>6 DEF Next, LoopStep

LEMMA CheckedInScan ==
  ASSUME Books, Waits, Forward, CheckedIn, Onward, NEW id \in ID, ScanTarget(id)
  PROVE  CheckedIn'
  <1>1. /\ pc = "scan" /\ pc' = "scan" /\ id \in Scheduled
        /\ UNCHANGED <<checkInDueAt, wall, mono, now, setBack>>
        /\ earliest' = IF Before(targetDueAt[id], earliest)
                       THEN targetDueAt[id] ELSE earliest
    BY DEF ScanTarget, scheduleVars, clockVars, historyVars, Books, Work
  <1>2. /\ now = ClockNow /\ now.hasMono /\ now.mono = mono /\ now.wall = wall
        /\ wall \in Nat /\ mono \in Nat /\ now \in Time
    BY <1>1
    DEF Forward, Onward, ClockNow, Reading, Books, TypeOK, ClockTypeOK, PassTypeOK
  <1>3. /\ targetDueAt[id] \in Time /\ earliest \in Time /\ checkInDueAt \in Time
    BY <1>1, MapParts DEF Scheduled, Books, TypeOK, ScheduleTypeOK, PassTypeOK
  <1>4. ~targetDueAt[id].hasMono
    <2>1. Sub(targetDueAt[id], now) > 0
      BY <1>1, AheadParts DEF Waits, WorkAhead
    <2>2. targetDueAt[id].hasMono => targetDueAt[id].mono <= mono
      BY <1>1 DEF Forward, Near
    <2> QED
      BY <1>2, <1>3, <2>1, <2>2 DEF Sub, Time
  <1>5. /\ Sub(earliest, now) <= Sub(checkInDueAt, now)
        /\ earliest.hasMono => Lagging(earliest)
    BY <1>1 DEF CheckedIn
  <1>6. Sub(earliest', now) <= Sub(checkInDueAt, now)
    <2>1. CASE ~Before(targetDueAt[id], earliest)
      BY <1>1, <1>5, <2>1
    <2>2. CASE Before(targetDueAt[id], earliest)
      <3>1. earliest' = targetDueAt[id]
        BY <1>1, <2>2
      <3>2. targetDueAt[id].wall < earliest.wall
        BY <1>3, <1>4, <2>2 DEF Before, Sub, Time
      <3>3. Sub(targetDueAt[id], now) = targetDueAt[id].wall - wall
        BY <1>2, <1>4 DEF Sub
      <3>4. Sub(earliest, now) >= earliest.wall - wall
        BY <1>2, <1>3, <1>5 DEF Sub, Lagging, Time
      <3>5. Sub(checkInDueAt, now) \in Int /\ Sub(earliest, now) \in Int
        BY <1>2, <1>3, SubInt
      <3> QED
        BY <1>2, <1>3, <1>5, <3>1, <3>2, <3>3, <3>4, <3>5 DEF Time
    <2> QED
      BY <2>1, <2>2
  <1>7. earliest'.hasMono => Lagging(earliest')
    BY <1>1, <1>4, <1>5
  <1> QED
    BY <1>1, <1>6, <1>7 DEF CheckedIn, Lagging

LEMMA CheckedInStep ==
  Books /\ Waits /\ Forward /\ CheckedIn /\ [Next]_vars => CheckedIn'
  <1> SUFFICES ASSUME Books, Waits, Forward, CheckedIn, [Next]_vars, Onward',
                      pc' \in {"scan", "waiting"}
               PROVE  CheckedIn'
    BY DEF CheckedIn
  <1>1. CASE StartWait
    <2>1. /\ pc' = "scan" /\ pc = "decide"
          /\ UNCHANGED <<checkInDueAt, wall, mono, now, setBack>>
          /\ earliest' = FirstDeadline
      BY <1>1 DEF StartWait, scheduleVars, clockVars, historyVars
    <2>2. Onward /\ Lagging(discoveryDueAt) /\ Lagging(checkInDueAt)
      BY <2>1 DEF Forward, Onward
    <2>3. now.hasMono
      BY <2>1, <2>2 DEF Forward, Onward, ClockNow, Reading
    <2>4. /\ discoveryDueAt \in Time /\ checkInDueAt \in Time /\ now \in Time
      BY DEF Books, TypeOK, ScheduleTypeOK, PassTypeOK
    <2>5. Sub(FirstDeadline, now) <= Sub(checkInDueAt, now)
      BY <2>2, <2>3, <2>4 DEF FirstDeadline, Before, Sub, Lagging, Time
    <2>6. Lagging(FirstDeadline)
      BY <2>2 DEF FirstDeadline
    <2> QED
      BY <2>1, <2>5, <2>6 DEF CheckedIn, Lagging
  <1>2. CASE \E id \in ID : ScanTarget(id)
    <2>1. Onward
      BY <1>2 DEF ScanTarget, historyVars, Onward
    <2> QED
      BY <1>2, <2>1, CheckedInScan
  <1>3. CASE Sleep
    <2>1. /\ pc = "scan" /\ pc' = "waiting"
          /\ UNCHANGED <<checkInDueAt, now, setBack>>
      BY <1>3 DEF Sleep, scheduleVars, historyVars
    <2>2. nap' = Sub(earliest, now)
      <3>1. \E deadline \in Deadlines : earliest = deadline[1]
        BY <2>1 DEF Waits
      <3>2. Sub(earliest, now) > 0
        BY <2>1, <3>1 DEF Waits, Ahead
      <3> QED
        BY <1>3, <3>2 DEF Sleep, SleepFor
    <2> QED
      BY <2>1, <2>2 DEF CheckedIn, Onward
  <1>4. CASE Tick \/ UNCHANGED vars \/ \E d \in ClockSteps : StepClock(d)
    <2>1. UNCHANGED <<checkInDueAt, now, nap, earliest, pc>> /\ Onward
      BY <1>4, OnwardTime DEF Tick, StepClock, vars, scheduleVars, passVars
    <2>2. pc = "scan" => UNCHANGED <<wall, mono>>
      BY <1>4 DEF Tick, StepClock, vars, clockVars
    <2> QED
      BY <2>1, <2>2 DEF CheckedIn, Lagging
  <1> QED
    BY <1>1, <1>2, <1>3, <1>4
    DEF Next, LoopStep, Launch, Kill, Begin, StartRound, ReturnOnce, Wake, Round,
        Reported, ReportFailed, Save, Adopt, Exit

(* With any clock, no sleep between two reports is longer than the         *)
(* check-in interval, however the wall clock was set ahead; with one that  *)
(* has no second reading even when it was set back.  With the clock the    *)
(* agent runs on only a step back can make it silent for longer            *)
(* (config.go:50).                                                         *)
THEOREM OnlySetBackIsSilent == Spec => []SilenceUnlessSetBack
  <1>1. Books /\ Waits /\ Minimal /\ CheckedIn => SilenceUnlessSetBack
    <2> SUFFICES ASSUME Books, Waits, Minimal, CheckedIn, pc = "waiting",
                        setBack => ~HasMono
                 PROVE  nap <= CheckInInterval(runtime)
      BY DEF SilenceUnlessSetBack, SilenceBounded
    <2> DEFINE checkIn == <<checkInDueAt, CheckInInterval(runtime)>>
    <2>1. checkIn \in Deadlines
      BY DEF Deadlines
    <2>2. nap <= Sub(checkInDueAt, now)
      <3>1. CASE HasMono
        BY <3>1 DEF CheckedIn, Onward
      <3>2. CASE ~HasMono
        BY <2>1, <3>2 DEF Minimal, EarliestHonoured, Comparable
      <3> QED
        BY <3>1, <3>2
    <2>3. Sub(checkInDueAt, now) <= CheckInInterval(runtime)
      BY <2>1 DEF Waits, Within
    <2>4. /\ Sub(checkInDueAt, now) \in Int /\ nap \in Int
          /\ CheckInInterval(runtime) \in Int
      BY SubInt, Intervals DEF Books, TypeOK, ScheduleTypeOK, PassTypeOK
    <2> QED
      BY <2>2, <2>3, <2>4
  <1>2. Init => Waits /\ Steady /\ Minimal /\ Forward /\ CheckedIn
    BY CoherentZero
    DEF Init, Waits, Steady, Minimal, EarliestHonoured, EmptyMap, Forward,
        CheckedIn, Onward
  <1> QED
    BY <1>1, <1>2, BooksInit, BooksStep, WaitsStep, SteadyStep, MinimalStep,
       ForwardStep, CheckedInStep, PTL DEF Spec

-----------------------------------------------------------------------------
(* A deadline that came from the grid is still on the grid of the interval *)
(* that its target has now.                                                *)
Gridded ==
  \A id \in Scheduled :
    OnGrid(id) =>
      LET interval == TargetInterval(runtime.targets[id])
      IN  /\ (targetDueAt[id].wall - (Phase % interval)) % interval = 0
          /\ targetDueAt[id].mono = 0

(* A round has in hand what Due found at its instant. *)
InHand ==
  pc = "round" =>
    dueTargets = DueTargets(now) /\ discoveryDue = DiscoveryDue(now)

(* With a monotonic clock: a round leaves every deadline of its own work   *)
(* ahead of its instant, a report the check-in; either the clock has moved *)
(* on before the loop is back at its top or all of them are still ahead.   *)
Paced ==
  /\ now.mono <= mono
  /\ pc \in {"decide", "round"} => now.hasMono
  /\ pc = "round" => now # lastRound
  /\ pc = "decide" /\ now = lastRound => Ahead(now)
  /\ lastRound.hasMono =>
       /\ pc # "down" /\ lastRound.mono <= mono
       /\ pc \in {"waiting", "backoff"} => lastRound.mono < wakeAt
       /\ pc = "report" => WorkAhead(lastRound)
       /\ pc \in {"save", "apply"} => Ahead(lastRound)
       /\ pc = "top" => lastRound.mono < mono \/ Ahead(lastRound)

LEMMA GriddedBegin ==
  ASSUME Books, Gridded, Begin
  PROVE  Gridded'
  <1> SUFFICES ASSUME NEW id \in Scheduled', OnGrid(id)'
               PROVE  LET interval == TargetInterval(runtime'.targets[id])
                      IN  /\ (targetDueAt'[id].wall - (Phase % interval))
                                % interval = 0
                          /\ targetDueAt'[id].mono = 0
    BY DEF Gridded
  <1>1. /\ runtime' = runtime
        /\ id \in DOMAIN runtime.targets /\ id \in DOMAIN targetDueAt
        /\ targetDueAt'[id] = Clamp(targetDueAt[id],
                                    TargetInterval(runtime.targets[id]), ClockNow)
    BY DEF Begin, Reconcile, Scheduled
  <1>2. HasMono /\ ~targetDueAt'[id].hasMono
    BY DEF OnGrid
  <1>3. targetDueAt'[id] = targetDueAt[id]
    BY <1>1, <1>2 DEF Clamp, Add, ClockNow, Reading
  <1>4. id \in Scheduled /\ OnGrid(id)
    BY <1>1, <1>2, <1>3 DEF Scheduled, OnGrid
  <1> QED
    BY <1>1, <1>3, <1>4 DEF Gridded

LEMMA GriddedRound ==
  ASSUME Books, Gridded, Round
  PROVE  Gridded'
  <1> SUFFICES ASSUME NEW id \in Scheduled', OnGrid(id)'
               PROVE  LET interval == TargetInterval(runtime'.targets[id])
                      IN  /\ (targetDueAt'[id].wall - (Phase % interval))
                                % interval = 0
                          /\ targetDueAt'[id].mono = 0
    BY DEF Gridded
  <1>1. runtime' = runtime /\ id \in DOMAIN runtime.targets
        /\ id \in DOMAIN targetDueAt \cup dueTargets
    BY DEF Round, CompletedTargets, Scheduled
  <1>2. CASE id \in dueTargets
    <2>1. targetDueAt'[id] = Slot(TargetInterval(runtime.targets[id]), now)
      BY <1>1, <1>2 DEF Round, CompletedTargets
    <2>2. now \in Time /\ TargetInterval(runtime.targets[id]) \in Nat \ {0}
      BY <1>1, Intervals DEF Books, TypeOK, ScheduleTypeOK, PassTypeOK
    <2> QED
      BY <1>1, <2>1, <2>2, SlotOnGrid
  <1>3. CASE id \notin dueTargets
    <2>1. targetDueAt'[id] = targetDueAt[id] /\ id \in Scheduled
      BY <1>1, <1>3 DEF Round, CompletedTargets, Scheduled
    <2> QED
      BY <1>1, <2>1 DEF Gridded, OnGrid
  <1> QED
    BY <1>2, <1>3

LEMMA GriddedAdopt ==
  ASSUME Books, Gridded, Adopt
  PROVE  Gridded'
  <1> SUFFICES ASSUME NEW id \in Scheduled', OnGrid(id)'
               PROVE  LET interval == TargetInterval(runtime'.targets[id])
                      IN  /\ (targetDueAt'[id].wall - (Phase % interval))
                                % interval = 0
                          /\ targetDueAt'[id].mono = 0
    BY DEF Gridded
  <1>1. /\ runtime' = updated /\ id \in DOMAIN updated.targets
        /\ targetDueAt'[id] =
             IF id \in Kept(updated) THEN targetDueAt[id] ELSE ClockNow
    BY DEF Adopt, Apply, Scheduled
  <1>2. HasMono /\ ~targetDueAt'[id].hasMono
    BY DEF OnGrid
  <1>3. id \in Kept(updated) /\ targetDueAt'[id] = targetDueAt[id]
    BY <1>1, <1>2 DEF ClockNow, Reading
  <1>4. id \in Scheduled /\ runtime.targets[id] = updated.targets[id]
    BY <1>3 DEF Kept, Scheduled
  <1> QED
    BY <1>1, <1>2, <1>3, <1>4 DEF Gridded, OnGrid

LEMMA GriddedStep == Books /\ Gridded /\ [Next]_vars => Gridded'
  <1> SUFFICES ASSUME Books, Gridded, [Next]_vars PROVE Gridded'
    OBVIOUS
  <1>1. CASE Begin
    BY <1>1, GriddedBegin
  <1>2. CASE Round
    BY <1>2, GriddedRound
  <1>3. CASE Adopt
    BY <1>3, GriddedAdopt
  <1>4. CASE Launch
    <2>1. \A id \in Scheduled' : ~OnGrid(id)'
      BY <1>4 DEF Launch, New, Scheduled, OnGrid, ClockNow, Reading
    <2> QED
      BY <2>1 DEF Gridded
  <1>5. CASE Kill \/ ReturnOnce
    <2>1. Scheduled' = {}
      BY <1>5
      DEF Kill, ReturnOnce, Exit, New, Scheduled,
          DefaultRuntime, EmptyMap
    <2> QED
      BY <2>1 DEF Gridded
  <1>6. CASE UNCHANGED <<runtime, targetDueAt>>
    BY <1>6 DEF Gridded, Scheduled, OnGrid
  <1> QED
    BY <1>1, <1>2, <1>3, <1>4, <1>5, <1>6
    DEF Next, LoopStep, StartRound, StartWait, ScanTarget, Sleep, Wake, Reported,
        ReportFailed, Save, Tick, StepClock, scheduleVars, vars

(* Targets of one interval that are on the grid leave in one report: when  *)
(* the agent sleeps each is ahead by no more than its interval, and a grid *)
(* has one such point (schedule.go:248-252).                               *)
THEOREM OneIntervalOneReport == Spec => []SharedRounds
  <1>1. Books /\ Waits /\ Gridded => SharedRounds
    <2> SUFFICES ASSUME Books, Waits, Gridded, pc = "waiting",
                        NEW x \in Scheduled, NEW y \in Scheduled,
                        OnGrid(x), OnGrid(y),
                        TargetInterval(runtime.targets[x]) =
                          TargetInterval(runtime.targets[y])
                 PROVE  targetDueAt[x] = targetDueAt[y]
      BY DEF SharedRounds
    <2> DEFINE interval == TargetInterval(runtime.targets[x])
    <2> DEFINE offset == Phase % interval
    <2>1. /\ targetDueAt[x] \in Time /\ targetDueAt[y] \in Time /\ now \in Time
          /\ interval \in Nat \ {0}
      BY MapParts, Intervals
      DEF Books, TypeOK, ScheduleTypeOK, PassTypeOK, Scheduled
    <2>2. /\ <<targetDueAt[x], interval>> \in Deadlines
          /\ <<targetDueAt[y], interval>> \in Deadlines
      BY DEF Deadlines
    <2>3. /\ Sub(targetDueAt[x], now) > 0 /\ Sub(targetDueAt[x], now) <= interval
          /\ Sub(targetDueAt[y], now) > 0 /\ Sub(targetDueAt[y], now) <= interval
      BY <2>2 DEF Waits, Within, Ahead
    <2>4. /\ (targetDueAt[x].wall - offset) % interval = 0
          /\ (targetDueAt[y].wall - offset) % interval = 0
          /\ targetDueAt[x].mono = 0 /\ targetDueAt[y].mono = 0
      BY DEF Gridded
    <2>5. ~targetDueAt[x].hasMono /\ ~targetDueAt[y].hasMono
      BY DEF OnGrid
    <2>6. offset \in Int
      BY <2>1, FloorAssumption, Division
    <2> HIDE DEF interval, offset
    <2>7. /\ targetDueAt[x].wall - now.wall \in 1 .. interval
          /\ targetDueAt[y].wall - now.wall \in 1 .. interval
      BY <2>1, <2>3, <2>5 DEF Sub, Time
    <2>8. targetDueAt[x].wall - offset = targetDueAt[y].wall - offset
      <3> DEFINE p == targetDueAt[x].wall - offset
      <3> DEFINE q == targetDueAt[y].wall - offset
      <3>1. p \in Int /\ q \in Int /\ p - q < interval /\ q - p < interval
        BY <2>1, <2>6, <2>7 DEF Time
      <3>2. (p % interval) = 0 /\ (q % interval) = 0
        BY <2>4
      <3> HIDE DEF p, q
      <3>3. p = q
        BY <2>1, <3>1, <3>2, GridPointsApart
      <3> QED
        BY <3>3 DEF p, q
    <2>9. targetDueAt[x].wall = targetDueAt[y].wall
      BY <2>1, <2>6, <2>8 DEF Time
    <2> QED
      BY <2>1, <2>4, <2>5, <2>9 DEF Time
  <1>2. Init => Waits /\ Gridded
    BY DEF Init, Waits, Gridded, Scheduled, EmptyMap
  <1> QED
    BY <1>1, <1>2, BooksInit, BooksStep, WaitsStep, GriddedStep, PTL DEF Spec

-----------------------------------------------------------------------------
LEMMA InHandStep == Books /\ InHand /\ [Next]_vars => InHand'
  <1> SUFFICES ASSUME Books, InHand, [Next]_vars, pc' = "round" PROVE InHand'
    BY DEF InHand
  <1>1. CASE StartRound
    BY <1>1
    DEF StartRound, InHand, DueTargets, DiscoveryDue, Scheduled, scheduleVars
  <1>2. CASE UNCHANGED vars
    BY <1>2
    DEF vars, InHand, DueTargets, DiscoveryDue, Scheduled, scheduleVars, passVars
  <1> QED
    BY <1>1, <1>2
    DEF Next, LoopStep, Launch, Kill, Begin, ReturnOnce, StartWait, ScanTarget,
        Sleep, Wake, Round, Reported, ReportFailed, Save, Adopt, Exit, Tick, StepClock

(* A sweep that was due when it was made is next due at a whole number of  *)
(* intervals from then, within one interval, however late it was made; one *)
(* made early is next due an interval from its round                       *)
(* (schedule.go:322-327).                                                  *)
THEOREM SweepsKeepTheirPhase == Spec => DiscoveryKeepsPhase
  <1>1. Init => InHand
    BY DEF Init, InHand
  <1> DEFINE interval == DiscoveryInterval(runtime)
  <1> DEFINE Keeps ==
        pc = "round" /\ pc' = "report" =>
          /\ discoveryDue =>
               /\ Sub(discoveryDueAt', discoveryDueAt) % interval = 0
               /\ Sub(discoveryDueAt', now) \in 1 .. interval
          /\ ~discoveryDue /\ discoveryDueAt' # discoveryDueAt =>
               Sub(discoveryDueAt', now) = interval
  <1>2. Books /\ InHand /\ [Next]_vars => [Keeps]_vars
    <2> SUFFICES ASSUME Books, InHand, [Next]_vars, pc = "round", pc' = "report"
                 PROVE  Keeps
      OBVIOUS
    <2>1. Round
      BY DEF Next, LoopStep, Launch, Kill, Begin, StartRound, ReturnOnce,
             StartWait, ScanTarget, Sleep, Wake, Reported, ReportFailed, Save,
             Adopt, Exit, Tick, StepClock, vars
    <2>2. /\ interval \in Nat \ {0}
          /\ discoveryDueAt \in Time /\ now \in Time
      BY Intervals DEF Books, TypeOK, ScheduleTypeOK, PassTypeOK
    <2>3. CASE discoveryDue
      <3>1. discoveryDueAt' = Advance(discoveryDueAt, interval, now)
        BY <2>1, <2>3, RoundParts DEF CompletedDiscovery
      <3>2. ~After(discoveryDueAt, now)
        BY <2>3 DEF InHand, DiscoveryDue
      <3> QED
        BY <2>2, <2>3, <3>1, <3>2, AdvanceKeepsPhase
    <2>4. CASE ~discoveryDue
      <3>1. \/ discoveryDueAt' = discoveryDueAt
            \/ discoveryDueAt' = Advance(discoveryDueAt, interval, now)
        BY <2>1, RoundParts DEF CompletedDiscovery
      <3>2. After(discoveryDueAt, now)
        BY <2>4 DEF InHand, DiscoveryDue
      <3>3. Sub(Add(now, interval), now) = interval
        BY <2>2 DEF Sub, Add, Time
      <3> QED
        BY <2>4, <3>1, <3>2, <3>3 DEF Advance
    <2> QED
      BY <2>3, <2>4
  <1> QED
    BY <1>1, <1>2, BooksInit, BooksStep, InHandStep, PTL
    DEF Spec, DiscoveryKeepsPhase

-----------------------------------------------------------------------------
LEMMA ClampAhead ==
  ASSUME NEW due \in Time, NEW interval \in Nat \ {0}, NEW t \in Time,
         Sub(due, t) > 0
  PROVE  Sub(Clamp(due, interval, t), t) > 0
  BY DEF Clamp, Sub, Add, Time

(* With a base and a ceiling of more than a tick no retry follows at once. *)
LEMMA BackoffIsNoBlink ==
  ASSUME NEW attempt \in Nat \ {0}, BackoffBase >= 2, BackoffMax >= 2
  PROVE  Delay(attempt) \in Nat /\ Delay(attempt) >= 2
  <1> DEFINE shift == IF attempt - 1 < MaxShift THEN attempt - 1 ELSE MaxShift
  <1>1. shift \in Nat
    BY RunnerAssumption
  <1>2. 2^shift \in Int
    BY <1>1
  <1> DEFINE times == 2^shift
  <1>3. Delay(attempt) = IF BackoffBase * times > BackoffMax
                            \/ BackoffBase * times <= 0
                         THEN BackoffMax ELSE BackoffBase * times
    BY DEF Delay
  <1>4. times \in Int /\ BackoffBase \in Nat /\ BackoffMax \in Nat
    BY <1>2, RunnerAssumption
  <1> HIDE DEF times, shift
  <1>5. BackoffBase * times > 0 => times >= 1
    BY <1>4
  <1>6. times >= 1 => BackoffBase * times >= BackoffBase
    BY <1>4
  <1>7. BackoffBase * times \in Int
    BY <1>4
  <1> QED
    BY <1>3, <1>4, <1>5, <1>6, <1>7

LEMMA PacedBegin ==
  ASSUME Books, Paced, HasMono, Begin
  PROVE  Paced'
  <1>1. /\ pc = "top" /\ pc' = "decide" /\ now' = ClockNow
        /\ UNCHANGED <<runtime, lastRound, mono>>
    BY DEF Begin, historyVars, clockVars
  <1>2. /\ ClockNow \in Time /\ ClockNow.hasMono /\ ClockNow.mono = mono
        /\ mono \in Nat
    BY NowIsTime DEF Books, TypeOK, ClockTypeOK, ClockNow, Reading
  <1>3. ASSUME ClockNow = lastRound
        PROVE  Ahead(now)'
    <2>1. Ahead(ClockNow)
      BY <1>1, <1>2, <1>3 DEF Paced
    <2>2. /\ Sub(discoveryDueAt, ClockNow) > 0 /\ Sub(checkInDueAt, ClockNow) > 0
          /\ \A id \in Scheduled : Sub(targetDueAt[id], ClockNow) > 0
      BY <2>1, AheadParts DEF WorkAhead
    <2>3. IsRuntime(runtime) /\ ScheduleTypeOK
      BY DEF Books, TypeOK, ScheduleTypeOK
    <2>4. Sub(discoveryDueAt', ClockNow) > 0 /\ Sub(checkInDueAt', ClockNow) > 0
      BY <1>2, <2>2, <2>3, Intervals, ClampAhead
      DEF Begin, Reconcile, ScheduleTypeOK
    <2>5. ASSUME NEW id \in Scheduled'
          PROVE  Sub(targetDueAt'[id], ClockNow) > 0
      <3>1. /\ id \in Scheduled
            /\ targetDueAt'[id] = Clamp(targetDueAt[id],
                                     TargetInterval(runtime.targets[id]), ClockNow)
        BY <1>1, <2>5 DEF Begin, Reconcile, Scheduled
      <3>2. /\ targetDueAt[id] \in Time
            /\ TargetInterval(runtime.targets[id]) \in Nat \ {0}
        BY <2>3, <3>1, MapParts, Intervals DEF Scheduled, ScheduleTypeOK
      <3> QED
        BY <1>2, <2>2, <3>1, <3>2, ClampAhead
    <2> QED
      BY <1>1, <2>4, <2>5, EachDeadline DEF Ahead, Deadlines
  <1> QED
    BY <1>1, <1>2, <1>3 DEF Paced

(* What is ahead of the loop's own instant leaves it nothing to do.        *)
LEMMA AheadIsIdle == Ahead(now) => Idle
  BY AheadParts DEF WorkAhead, Idle, DiscoveryDue, CheckInDue, DueTargets, After

LEMMA PacedStartRound ==
  ASSUME Books, Paced, StartRound
  PROVE  Paced'
  <1>1. /\ pc = "decide" /\ pc' = "round" /\ ~Idle
        /\ UNCHANGED <<now, lastRound, mono>>
    BY DEF StartRound, historyVars, clockVars
  <1>2. now # lastRound
    BY <1>1, AheadIsIdle DEF Paced
  <1> QED
    BY <1>1, <1>2 DEF Paced

LEMMA PacedRound ==
  ASSUME Books, InHand, Paced, Round
  PROVE  Paced'
  <1>1. /\ pc = "round" /\ pc' = "report" /\ lastRound' = now
        /\ UNCHANGED <<runtime, now, mono, checkInDueAt>>
    BY DEF Round, clockVars
  <1>2. IsRuntime(runtime) /\ ScheduleTypeOK /\ now \in Time
    BY DEF Books, TypeOK, ScheduleTypeOK, PassTypeOK
  <1>3. dueTargets = DueTargets(now) /\ (~discoveryDue => ~DiscoveryDue(now))
    BY <1>1 DEF InHand
  <1>4. Sub(discoveryDueAt', now) > 0
    <2>1. CASE CompletedDiscovery(now)
      BY <1>2, <2>1, Intervals, AdvanceKeepsPhase
      DEF CompletedDiscovery, ScheduleTypeOK
    <2>2. CASE ~CompletedDiscovery(now)
      <3>1. ~discoveryDue /\ discoveryDueAt' = discoveryDueAt
        BY <2>2, RoundParts
      <3> QED
        BY <1>3, <3>1 DEF DiscoveryDue, After
    <2> QED
      BY <2>1, <2>2
  <1>5. ASSUME NEW id \in Scheduled'
        PROVE  Sub(targetDueAt'[id], now) > 0
    <2>1. CASE id \in dueTargets
      <3>1. targetDueAt'[id] = Slot(TargetInterval(runtime.targets[id]), now)
        BY <2>1 DEF Round, CompletedTargets
      <3>2. TargetInterval(runtime.targets[id]) \in Nat \ {0}
        BY <1>1, <1>2, <1>5, Intervals DEF Scheduled
      <3> QED
        BY <1>2, <3>1, <3>2, SlotOnGrid
    <2>2. CASE id \notin dueTargets
      <3>1. targetDueAt'[id] = targetDueAt[id] /\ id \in Scheduled
        BY <1>1, <1>5, <2>2 DEF Round, CompletedTargets, Scheduled
      <3> QED
        BY <1>3, <2>2, <3>1 DEF DueTargets, After
    <2> QED
      BY <2>1, <2>2
  <1>6. WorkAhead(now)'
    BY <1>1, <1>4, <1>5 DEF WorkAhead
  <1> QED
    BY <1>1, <1>6 DEF Paced

LEMMA PacedReported ==
  ASSUME Books, Paced, HasMono, NEW config \in ServerConfigs, Reported(config)
  PROVE  Paced'
  <1>1. /\ pc = "report" /\ pc' \in {"apply", "save"}
        /\ UNCHANGED <<runtime, now, mono, lastRound, discoveryDueAt, targetDueAt>>
        /\ checkInDueAt' = Add(ClockNow, CheckInInterval(runtime))
    BY DEF Reported, CompletedCheckIn, passVars, clockVars
  <1>2. ASSUME lastRound.hasMono
        PROVE  Ahead(lastRound)'
    <2>1. WorkAhead(lastRound)'
      BY <1>1, <1>2 DEF Paced, WorkAhead, Scheduled
    <2>2. /\ mono \in Nat /\ lastRound.mono \in Int /\ lastRound.mono <= mono
          /\ CheckInInterval(runtime) \in Nat \ {0} /\ lastRound \in Time
          /\ ClockNow \in Time
      BY <1>2, Intervals, NowIsTime
      DEF Books, TypeOK, ScheduleTypeOK, ClockTypeOK, HistoryTypeOK, Time, Paced
    <2>3. Sub(checkInDueAt', lastRound) =
            mono + CheckInInterval(runtime) - lastRound.mono
      BY <1>1, <1>2, <2>2 DEF Add, ClockNow, Reading, Sub
    <2>4. Sub(checkInDueAt', lastRound) > 0
      BY <2>2, <2>3
    <2>5. ASSUME NEW deadline \in Deadlines'
          PROVE  Sub(deadline[1], lastRound') > 0
      BY <1>1, <2>1, <2>4 DEF Deadlines, WorkAhead
    <2> QED
      BY <2>5 DEF Ahead
  <1> QED
    BY <1>1, <1>2 DEF Paced

LEMMA PacedAdopt ==
  ASSUME Books, Paced, Adopt
  PROVE  Paced'
  <1>1. /\ pc = "apply" /\ pc' = "top" /\ runtime' = updated
        /\ UNCHANGED <<mono, checkInDueAt>> /\ now' = ZeroTime
    BY DEF Adopt, Apply, EndPass, clockVars
  <1>2. now'.mono <= mono /\ mono \in Nat
    BY <1>1 DEF ZeroTime, Books, TypeOK, ClockTypeOK
  <1>3. CASE updated = runtime
    <2>1. /\ lastRound' = lastRound /\ runtime' = runtime
          /\ discoveryDueAt' = discoveryDueAt
      BY <1>3 DEF Adopt, Apply
    <2>2. /\ DOMAIN targetDueAt = DOMAIN runtime.targets
          /\ DOMAIN targetDueAt' = DOMAIN runtime.targets
      BY <1>1, <1>3 DEF Books, NoLeak, Adopt, Apply
    <2>3. \A id \in DOMAIN targetDueAt' : targetDueAt'[id] = targetDueAt[id]
      BY <1>3, <2>2 DEF Adopt, Apply, Kept
    <2>4. Deadlines' = Deadlines
      BY <1>1, <2>1, <2>2, <2>3 DEF Deadlines, Scheduled
    <2> QED
      BY <1>1, <1>2, <2>1, <2>4 DEF Paced, Ahead
  <1>4. CASE updated # runtime
    <2>1. ~lastRound'.hasMono
      BY <1>4 DEF Adopt, ZeroTime
    <2> QED
      BY <1>1, <1>2, <2>1 DEF Paced
  <1> QED
    BY <1>3, <1>4

LEMMA PacedSleep ==
  ASSUME Books, Waits, Paced, Sleep
  PROVE  Paced'
  <1>1. /\ pc = "scan" /\ pc' = "waiting" /\ wakeAt' = mono + nap'
        /\ UNCHANGED <<now, lastRound, mono>>
    BY DEF Sleep, SleepFor, historyVars, clockVars
  <1>2. nap' > 0 /\ nap' \in Int
    <2>1. PICK deadline \in Deadlines : earliest = deadline[1]
      BY <1>1 DEF Waits
    <2>2. Sub(earliest, now) > 0
      BY <1>1, <2>1 DEF Waits, Ahead
    <2>3. Sub(earliest, now) \in Int
      BY SubInt DEF Books, TypeOK, PassTypeOK
    <2> QED
      BY <2>2, <2>3 DEF Sleep, SleepFor
  <1>3. mono \in Int /\ lastRound.mono \in Int
    BY DEF Books, TypeOK, ClockTypeOK, HistoryTypeOK, Time
  <1> QED
    BY <1>1, <1>2, <1>3 DEF Paced

LEMMA PacedBackoff ==
  ASSUME Books, Paced, BackoffBase >= 2, BackoffMax >= 2,
         NEW terminal \in BOOLEAN, ReportFailed(terminal)
  PROVE  Paced'
  <1>1. /\ pc = "report" /\ pc' = "backoff" /\ wakeAt' = mono + nap'
        /\ UNCHANGED <<now, lastRound, mono>>
    BY DEF ReportFailed, SleepFor, historyVars, clockVars
  <1>2. nap' >= 1 /\ nap' \in Int
    <2>1. /\ failures' \in Nat \ {0} /\ nap' \in Nat
          /\ nap' >= Delay(failures') \div 2
      BY BackoffSleep
    <2>2. Delay(failures') \in Nat /\ Delay(failures') >= 2
      BY <2>1, BackoffIsNoBlink
    <2> QED
      BY <2>1, <2>2
  <1>3. mono \in Int /\ lastRound.mono \in Int
    BY DEF Books, TypeOK, ClockTypeOK, HistoryTypeOK, Time
  <1> QED
    BY <1>1, <1>2, <1>3 DEF Paced

LEMMA PacedOther ==
  ASSUME Books, Paced,
         \/ Launch \/ Kill \/ ReturnOnce
         \/ StartWait \/ Wake \/ Tick \/ UNCHANGED vars
         \/ \E id \in ID : ScanTarget(id)
         \/ \E outcome \in SaveOutcomes : Save(outcome)
         \/ \E d \in ClockSteps : StepClock(d)
  PROVE  Paced'
  <1>1. /\ mono \in Nat /\ now.mono \in Int /\ wakeAt \in Int
        /\ lastRound.mono \in Int
    BY DEF Books, TypeOK, ClockTypeOK, PassTypeOK, HistoryTypeOK, Time
  <1>2. CASE Launch
    <2>1. /\ pc = "down" /\ pc' = "top"
          /\ UNCHANGED <<now, lastRound, mono>>
      BY <1>2 DEF Launch, passVars, historyVars, clockVars
    <2> QED
      BY <2>1 DEF Paced
  <1>3. CASE Kill \/ ReturnOnce
    <2>1. /\ pc' = "down" /\ now' = ZeroTime /\ lastRound' = ZeroTime
          /\ mono' = mono
      BY <1>3
      DEF Kill, ReturnOnce, Exit, EndPass, clockVars
    <2> QED
      BY <1>1, <2>1 DEF Paced, ZeroTime
  <1>4. CASE StartWait \/ \E id \in ID : ScanTarget(id)
    <2>1. pc' = "scan" /\ pc \in {"decide", "scan"}
          /\ UNCHANGED <<now, lastRound, mono>>
      BY <1>4 DEF StartWait, ScanTarget, historyVars, clockVars
    <2> QED
      BY <2>1 DEF Paced
  <1>5. CASE Wake
    <2>1. /\ pc \in {"waiting", "backoff"} /\ pc' = "top" /\ mono >= wakeAt
          /\ now' = ZeroTime /\ UNCHANGED <<lastRound, mono>>
      BY <1>5 DEF Wake, EndPass, historyVars, clockVars
    <2> QED
      BY <1>1, <2>1 DEF Paced, ZeroTime
  <1>6. CASE \E outcome \in SaveOutcomes : Save(outcome)
    <2>1. /\ pc = "save" /\ pc' = "apply"
          /\ UNCHANGED <<scheduleVars, now, lastRound, mono>>
      BY <1>6 DEF Save, passVars, clockVars
    <2>2. Deadlines' = Deadlines
      BY <2>1 DEF Deadlines, Scheduled, scheduleVars
    <2> QED
      BY <2>1, <2>2 DEF Paced, Ahead
  <1>7. CASE Tick \/ UNCHANGED vars \/ \E d \in ClockSteps : StepClock(d)
    <2>1. /\ UNCHANGED <<scheduleVars, pc, now, wakeAt, lastRound>>
          /\ mono' \in Nat /\ mono' >= mono
      BY <1>1, <1>7
      DEF Tick, StepClock, vars, passVars, historyVars, clockVars
    <2>2. Deadlines' = Deadlines /\ Scheduled' = Scheduled
      BY <2>1 DEF Deadlines, Scheduled, scheduleVars
    <2>3. /\ discoveryDueAt' = discoveryDueAt /\ targetDueAt' = targetDueAt
      BY <2>1 DEF scheduleVars
    <2> QED
      BY <1>1, <2>1, <2>2, <2>3 DEF Paced, Ahead, WorkAhead
  <1> QED
    BY <1>2, <1>3, <1>4, <1>5, <1>6, <1>7

LEMMA PacedStep ==
  ASSUME HasMono, BackoffBase >= 2, BackoffMax >= 2
  PROVE  Books /\ Waits /\ InHand /\ Paced /\ [Next]_vars => Paced'
  <1> SUFFICES ASSUME Books, Waits, InHand, Paced, [Next]_vars PROVE Paced'
    OBVIOUS
  <1>1. CASE Begin
    BY <1>1, PacedBegin
  <1>2. CASE StartRound
    BY <1>2, PacedStartRound
  <1>3. CASE Round
    BY <1>3, PacedRound
  <1>4. CASE \E config \in ServerConfigs : Reported(config)
    BY <1>4, PacedReported
  <1>5. CASE Adopt
    BY <1>5, PacedAdopt
  <1>6. CASE Sleep
    BY <1>6, PacedSleep
  <1>7. CASE \E terminal \in BOOLEAN : ReportFailed(terminal)
    BY <1>7, PacedBackoff
  <1>8. CASE \/ Launch \/ Kill \/ ReturnOnce
             \/ StartWait \/ Wake \/ Tick \/ UNCHANGED vars
             \/ \E id \in ID : ScanTarget(id)
             \/ \E outcome \in SaveOutcomes : Save(outcome)
             \/ \E d \in ClockSteps : StepClock(d)
    BY <1>8, PacedOther
  <1> QED
    BY <1>1, <1>2, <1>3, <1>4, <1>5, <1>6, <1>7, <1>8 DEF Next, LoopStep

(* With a monotonic clock, and a retry that is more than a tick away, the  *)
(* agent never works twice at one instant on the same configuration: what  *)
(* a round has served is ahead of it, and so is the check-in once it has   *)
(* been heard (schedule.go:12-13).                                         *)
THEOREM NeverTwiceAtOnce ==
  ASSUME HasMono, BackoffBase >= 2, BackoffMax >= 2
  PROVE  Spec => []NoTightLoop
  <1>1. Init => Waits /\ InHand /\ Paced
    BY DEF Init, Waits, InHand, Paced, ZeroTime
  <1>2. Paced => NoTightLoop
    BY DEF Paced, NoTightLoop
  <1>3. Books /\ Waits /\ InHand /\ Paced /\ [Next]_vars => Paced'
    BY PacedStep
  <1> QED
    BY <1>1, <1>2, <1>3, BooksInit, BooksStep, WaitsStep, InHandStep, PTL DEF Spec
=============================================================================
