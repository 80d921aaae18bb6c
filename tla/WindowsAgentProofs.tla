------------------------- MODULE WindowsAgentProofs -------------------------
(***************************************************************************)
(* Theorems about WindowsAgent: put together, the service, the pool and    *)
(* the log each do only what they do alone, so what is proved of them      *)
(* holds of the process.                                                   *)
(***************************************************************************)
EXTENDS WindowsAgent, WindowsPartsProofs

LEMMA AgentInits == AgentInit => ServiceInit /\ PoolInit /\ LogInit
  BY DEF AgentInit

LEMMA ServiceSteps ==
  ASSUME [AgentNext]_agentVars
  PROVE  [ServiceNext]_serviceVars
  <1>1. CASE \/ Start \/ Fails \/ Crash \/ Connect \/ Announce \/ Return \/ Stopped
             \/ Leave \/ Controlled \/ Handle
    BY <1>1
    DEF Start, Fails, Crash, Connect, Announce, Return, Stopped, Leave,
        Controlled, Handle, ServiceNext
  <1>2. CASE \/ OpenLog \/ Probe \/ PoolEnds \/ Tell \/ Log \/ NextRound \/ LastLine
             \/ (\E w \in Workers : PoolWorks(w)) \/ PoolTimesOut \/ Outsider
    BY <1>2
    DEF OpenLog, Probe, PoolEnds, Tell, Log, NextRound, LastLine, PoolWorks,
        PoolTimesOut, Outsider
  <1> QED
    BY <1>1, <1>2 DEF AgentNext, MainStep, agentVars

LEMMA PoolSteps ==
  ASSUME ServiceTypeOK, [AgentNext]_agentVars
  PROVE  [PoolNext]_poolVars
  <1>1. CASE Probe
    BY <1>1 DEF Probe, PoolNext
  <1>2. CASE \E w \in Workers : PoolWorks(w)
    <2>1. PICK w \in Workers : PoolStep(w, cancelled)
      BY <1>2 DEF PoolWorks
    <2>2. cancelled \in BOOLEAN
      BY DEF ServiceTypeOK
    <2> QED
      BY <2>1, <2>2 DEF PoolNext
  <1>3. CASE PoolTimesOut \/ PoolEnds \/ Tell \/ Crash \/ Leave
    BY <1>3
    DEF PoolTimesOut, PoolEnds, Tell, Crash, Leave, NoWork, PoolNext
  <1>4. CASE \/ Start \/ OpenLog \/ Fails \/ Connect \/ Announce \/ Log
             \/ NextRound \/ Return \/ Stopped \/ LastLine \/ Controlled
             \/ Handle \/ Outsider
    BY <1>4
    DEF Start, OpenLog, Fails, Connect, Announce, Log, NextRound, Return,
        Stopped, LastLine, Controlled, Handle, Outsider
  <1> QED
    BY <1>1, <1>2, <1>3, <1>4 DEF AgentNext, MainStep, agentVars

LEMMA LogSteps ==
  ASSUME [AgentNext]_agentVars
  PROVE  [LogNext]_logVars
  <1>1. CASE Tell \/ LastLine
    BY <1>1 DEF Tell, LastLine, Line, LogNext
  <1>2. CASE OpenLog \/ Fails \/ Crash \/ Log \/ Leave \/ Outsider
    BY <1>2 DEF OpenLog, Fails, Crash, Log, Leave, Outsider, LogNext
  <1>3. CASE \/ Start \/ Connect \/ Announce \/ Probe \/ PoolEnds \/ NextRound
             \/ Return \/ Stopped \/ PoolTimesOut \/ Controlled \/ Handle
             \/ \E w \in Workers : PoolWorks(w)
    BY <1>3
    DEF Start, Connect, Announce, Probe, PoolEnds, NextRound, Return, Stopped,
        PoolTimesOut, Controlled, Handle, PoolWorks
  <1> QED
    BY <1>1, <1>2, <1>3 DEF AgentNext, MainStep, agentVars

(* What holds of the three. *)
Parts == Orderly /\ Sound /\ Kept

LEMMA PartsInit == AgentInit => Parts
  BY AgentInits, OrderlyInit, SoundInit, LogInitKept DEF Parts

LEMMA PartsStep == Parts /\ [AgentNext]_agentVars => Parts'
  <1> SUFFICES ASSUME Parts, [AgentNext]_agentVars PROVE Parts'
    OBVIOUS
  <1>1. Orderly'
    BY ServiceSteps, OrderlyStep DEF Parts
  <1>2. Sound'
    BY PoolSteps, SoundStep DEF Parts, Orderly
  <1>3. Kept'
    BY LogSteps, LogStepKept DEF Parts
  <1> QED
    BY <1>1, <1>2, <1>3 DEF Parts
-----------------------------------------------------------------------------
(* How the three are tied together. *)
Tied ==
  /\ work \in {"none", "top", "probing", "telling", "leaving"}
  /\ work = "none" <=> main \in {"none", "starting", "registered", "announced"}
  /\ pool # "idle" => work = "probing"
  /\ main \in {"registered", "announced", "working", "worked", "stopped"} =>
       logAt # "off"

(* The log is open from LogStart to LogEnd. *)
LEMMA LogStaysOn ==
  ASSUME LogStep \/ (\E n \in RecordSizes : LogWrite(n)) \/ LogTaken \/ LogStart
  PROVE  logAt' = logAt \/ logAt' # "off"
  BY DEF LogStep, LogWrite, LogTaken, LogStart, LogClose, LogCloseFails, LogRename,
         LogRenameNothing, LogRenameFails, AfterRename, LogOpen, LogOpenFails,
         LogAppend, LogAppendFails, WriteReturns

LEMMA TiedEnds ==
  ASSUME Tied, Start \/ OpenLog \/ Fails \/ Crash \/ Connect \/ Announce \/ Leave
  PROVE  Tied'
  <1> USE DEF Tied
  <1>1. CASE Start
    BY <1>1 DEF Start, ServiceStart, poolVars, logVars
  <1>2. CASE OpenLog
    BY <1>2 DEF OpenLog, serviceVars, poolVars
  <1>3. CASE Fails
    BY <1>3 DEF Fails, StartFails, ProcessGone, poolVars
  <1>4. CASE Crash
    BY <1>4 DEF Crash, ServiceCrash, ProcessGone, NoWork, NoCall
  <1>5. CASE Connect
    BY <1>5 DEF Connect, Register, poolVars, logVars
  <1>6. CASE Announce
    BY <1>6 DEF Announce, AnnounceStart, AnnounceRunning, poolVars, logVars
  <1>7. CASE Leave
    BY <1>7 DEF Leave, ServiceEnds, ProcessGone, NoWork, NoCall
  <1> QED
    BY <1>1, <1>2, <1>3, <1>4, <1>5, <1>6, <1>7

LEMMA TiedWork ==
  ASSUME Tied,
         \/ Probe \/ PoolTimesOut \/ PoolEnds \/ Tell \/ NextRound
         \/ \E w \in Workers : PoolWorks(w)
  PROVE  Tied'
  <1> USE DEF Tied
  <1>1. CASE Probe
    BY <1>1 DEF Probe, AtTop, serviceVars, logVars
  <1>2. CASE PoolTimesOut
    BY <1>2 DEF PoolTimesOut, PoolExpires, serviceVars, logVars
  <1>3. CASE PoolEnds
    BY <1>3 DEF PoolEnds, PoolReturn, serviceVars, logVars
  <1>4. CASE Tell
    <2>1. logAt' = logAt \/ logAt' # "off"
      BY <1>4, LogStaysOn DEF Tell, Line, logVars
    <2>2. pool' = "idle" /\ pool # "idle" /\ main' = main /\ work' = "telling"
      BY <1>4 DEF Tell, PoolTaken, NoCall, serviceVars
    <2> QED
      BY <2>1, <2>2
  <1>5. CASE NextRound
    BY <1>5 DEF NextRound, serviceVars, poolVars, logVars
  <1>6. CASE \E w \in Workers : PoolWorks(w)
    <2>1. pool' = pool
      BY <1>6
      DEF PoolWorks, PoolStep, PoolHandle, PoolSkip, PoolAsk, PoolAnswer,
          PoolWorkerEnds
    <2>2. UNCHANGED <<main, work, logAt>>
      BY <1>6 DEF PoolWorks, serviceVars, logVars
    <2> QED
      BY <2>1, <2>2
  <1> QED
    BY <1>1, <1>2, <1>3, <1>4, <1>5, <1>6

LEMMA TiedRest ==
  ASSUME Tied,
         \/ Log \/ Return \/ Stopped \/ LastLine \/ Controlled \/ Handle
         \/ Outsider \/ UNCHANGED agentVars
  PROVE  Tied'
  <1> USE DEF Tied
  <1>1. CASE Log \/ Outsider
    <2>1. logAt' = logAt \/ logAt' # "off"
      BY <1>1, LogStaysOn DEF Log, Outsider
    <2>2. UNCHANGED <<main, pool, work>>
      BY <1>1 DEF Log, Outsider, serviceVars, poolVars
    <2> QED
      BY <2>1, <2>2
  <1>2. CASE Return
    BY <1>2 DEF Return, AtTop, WorkReturns, poolVars, logVars
  <1>3. CASE Stopped
    BY <1>3 DEF Stopped, ReportStopped, poolVars, logVars
  <1>4. CASE LastLine
    <2>1. logAt' = logAt \/ logAt' # "off"
      BY <1>4, LogStaysOn DEF LastLine, Line, logVars
    <2>2. work = "top" /\ work' = "leaving" /\ UNCHANGED <<main, pool>>
      BY <1>4 DEF LastLine, serviceVars, poolVars
    <2> QED
      BY <2>1, <2>2
  <1>5. CASE Controlled
    BY <1>5
    DEF Controlled, ControlStop, ControlInterrogate, Control, poolVars, logVars
  <1>6. CASE Handle
    BY <1>6
    DEF Handle, HandlerStep, HandleStop, HandleCancel, HandleInterrogate,
        HandleAnswer, poolVars, logVars
  <1>7. CASE UNCHANGED agentVars
    BY <1>7 DEF agentVars, serviceVars, poolVars, logVars
  <1> QED
    BY <1>1, <1>2, <1>3, <1>4, <1>5, <1>6, <1>7

LEMMA TiedStep == Tied /\ [AgentNext]_agentVars => Tied'
  <1> SUFFICES ASSUME Tied, [AgentNext]_agentVars PROVE Tied'
    OBVIOUS
  <1> QED
    BY TiedEnds, TiedWork, TiedRest DEF AgentNext, MainStep

LEMMA TiedInit == AgentInit => Tied
  BY DEF AgentInit, ServiceInit, PoolInit, LogInit, Tied
-----------------------------------------------------------------------------
(* Every state of the process is well typed: work only in a service at     *)
(* work, a pool only in a round, a service only with its log.              *)
THEOREM AgentTypeCorrect == AgentSpec => []AgentTypeOK
  <1>1. Parts /\ Tied => AgentTypeOK
    BY DEF Parts, Tied, Orderly, Sound, Kept, AgentTypeOK
  <1> QED
    BY <1>1, PartsInit, PartsStep, TiedInit, TiedStep, PTL DEF AgentSpec

(* Of the process, what is proved of the service alone: STOPPED is true    *)
(* when it is said; and while no Interrogate answered with what was no     *)
(* longer so, a service at work can be stopped and a stop is not taken for *)
(* a crash.                                                                *)
THEOREM AgentStopsInOrder ==
  AgentSpec => [](StoppedMeansDone /\ WorkCanBeStopped)
  <1>1. Parts => StoppedMeansDone /\ WorkCanBeStopped
    BY DEF Parts, Orderly, Honest, Current, StoppedMeansDone, WorkCanBeStopped
  <1> QED
    BY <1>1, PartsInit, PartsStep, PTL DEF AgentSpec

(* Of the process, what is proved of the pool alone: a stop that cancels   *)
(* a probe half-way makes no device look silent.                           *)
THEOREM AgentGuessesNoSilence == AgentSpec => []SilenceIsProven
  <1>1. Parts => SilenceIsProven
    BY DEF Parts, Sound, PoolTypeOK, Accounted, InView, SilenceIsProven
  <1> QED
    BY <1>1, PartsInit, PartsStep, PTL DEF AgentSpec

(* Of the process, what is proved of the log alone, over any number of     *)
(* restarts and crashes of the service.                                    *)
THEOREM AgentKeepsItsLog ==
  AgentSpec => [](FootprintBounded /\ NewestKept /\ RenameLeavesAFile)
  <1>1. Parts => FootprintBounded /\ NewestKept /\ RenameLeavesAFile
    BY DEF Parts, Kept, Counted, Placed
  <1> QED
    BY <1>1, PartsInit, PartsStep, PTL DEF AgentSpec
=============================================================================
