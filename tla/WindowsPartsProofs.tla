------------------------- MODULE WindowsPartsProofs -------------------------
(***************************************************************************)
(* Theorems about the parts of the Windows process - WindowsService,       *)
(* EchoPool and RotatingLog - each on its own: for any number of starts    *)
(* and controls; any hosts and any number of workers; any limit, any       *)
(* records that fit into it, and any number of failures.                   *)
(***************************************************************************)
EXTENDS WindowsService, EchoPool, RotatingLog, FiniteSetTheorems, TLAPS

-----------------------------------------------------------------------------
(* The service. *)

(* STOPPED is said by a process that is done, and by nobody before it;     *)
(* stops are accepted exactly in RUNNING.                                  *)
Honest ==
  /\ lastState = "STOPPED" => main = "stopped"
  /\ readState = "STOPPED" => main = "stopped"
  /\ scmState = "STOPPED" => main \in {"none", "stopped"}
  /\ lastAccepted <=> lastState = "RUNNING"
  /\ readAccepted <=> readState = "RUNNING"
  /\ main \in {"worked", "stopped"} => cancelled

(* While no Interrogate was answered with what was no longer so, the       *)
(* manager sends one stop at most, and to a service at work.               *)
Current ==
  /\ main \in {"none", "starting", "registered", "announced"} =>
       /\ ~scmAccepts /\ ~cancelled /\ handler \notin {"stop", "cancel"}
       /\ lastState # "RUNNING"
  /\ cancelled \/ handler = "cancel" =>
       /\ lastState \in {"STOP_PENDING", "STOPPED"}
       /\ ~scmAccepts /\ handler # "stop"
  /\ main = "working" /\ ~cancelled /\ handler # "cancel" =>
       lastState = "RUNNING" /\ scmAccepts
  /\ main = "stopped" => lastState = "STOPPED" /\ scmState = "STOPPED"

Orderly == ServiceTypeOK /\ Honest /\ (~stale => Current)
-----------------------------------------------------------------------------
LEMMA OrderlyInit == ServiceInit => Orderly
  <1> SUFFICES ASSUME ServiceInit PROVE Orderly
    OBVIOUS
  <1> USE DEF ServiceInit, NoState
  <1>1. ServiceTypeOK
    BY DEF ServiceTypeOK, ServiceState
  <1>2. Honest
    BY DEF Honest
  <1>3. Current
    BY DEF Current
  <1> QED
    BY <1>1, <1>2, <1>3 DEF Orderly

(* What the manager shows after a report. *)
LEMMA ReportHeard ==
  ASSUME ServiceTypeOK, NEW state \in ServiceState \cup {NoState},
         NEW accepts \in BOOLEAN, Report(state, accepts)
  PROVE  /\ lastState' = state /\ lastAccepted' = accepts
         /\ scmState' \in {scmState, state} /\ scmState' \in ServiceState
         /\ scmAccepts' \in {scmAccepts, accepts} /\ scmAccepts' \in BOOLEAN
         /\ \/ scmState' = state /\ scmAccepts' = accepts
            \/ UNCHANGED <<scmState, scmAccepts>>
         /\ state # NoState /\ main # "registered" /\ scmState # "STOPPED" =>
              scmState' = state /\ scmAccepts' = accepts
  BY DEF ServiceTypeOK, Report, ManagerHears, Believes, ServiceState, NoState

(* The process from its start to its announcement. *)
LEMMA OrderlyStart ==
  ASSUME Orderly, ServiceStart \/ Register \/ AnnounceStart \/ AnnounceRunning
  PROVE  Orderly'
  <1> USE DEF Orderly, managerVars, statusVars, readVars, serviceHistoryVars
  <1>1. CASE ServiceStart
    <2>1. ServiceTypeOK'
      <3>1. scmState' \in ServiceState
        BY <1>1 DEF ServiceStart, Believes, ServiceState
      <3>2. scmAccepts' \in BOOLEAN
        BY <1>1 DEF ServiceStart, Believes
      <3>3. starts' \in Nat /\ main' = "starting" /\ handler = "none"
        BY <1>1 DEF ServiceStart, ServiceTypeOK
      <3> QED
        BY <1>1, <3>1, <3>2, <3>3 DEF ServiceStart, ServiceTypeOK
    <2>2. Honest' /\ (~stale' => Current')
      BY <1>1
      DEF ServiceStart, Believes, Honest, Current, ServiceTypeOK, ServiceState
    <2> QED
      BY <2>1, <2>2
  <1>2. CASE Register
    BY <1>2 DEF Register, ServiceTypeOK, Honest, Current
  <1>3. CASE AnnounceStart
    <2>1. ServiceTypeOK'
      BY <1>3 DEF AnnounceStart, Believes, ServiceTypeOK, ServiceState, NoState
    <2>2. Honest' /\ (~stale' => Current')
      BY <1>3
      DEF AnnounceStart, Believes, Honest, Current, ServiceTypeOK, ServiceState
    <2> QED
      BY <2>1, <2>2
  <1>4. CASE AnnounceRunning
    <2>1. /\ main = "announced" /\ main' = "working"
          /\ UNCHANGED <<handler, cancelled, readVars, serviceHistoryVars>>
          /\ lastState' = "RUNNING" /\ lastAccepted'
          /\ lastAccepted' \in BOOLEAN
          /\ scmState' = "RUNNING" /\ scmAccepts' /\ scmAccepts' \in BOOLEAN
      BY <1>4, ReportHeard
      DEF AnnounceRunning, Honest, ServiceState, NoState, ServiceTypeOK
    <2>2. ServiceTypeOK'
      BY <2>1 DEF ServiceTypeOK, ServiceState
    <2>3. Honest' /\ (~stale' => Current')
      BY <2>1 DEF Honest, Current, ServiceTypeOK, ServiceState
    <2> QED
      BY <2>2, <2>3
  <1> QED
    BY <1>1, <1>2, <1>3, <1>4

(* And to its end. *)
LEMMA OrderlyEnd ==
  ASSUME Orderly,
         \/ WorkReturns \/ ReportStopped
         \/ StartFails \/ ServiceCrash \/ ServiceEnds
  PROVE  Orderly'
  <1> USE DEF Orderly, managerVars, statusVars, readVars, serviceHistoryVars
  <1>1. CASE WorkReturns
    BY <1>1 DEF WorkReturns, ServiceTypeOK, Honest, Current
  <1>2. CASE ReportStopped
    <2>1. /\ main = "worked" /\ main' = "stopped"
          /\ UNCHANGED <<handler, cancelled, readVars, serviceHistoryVars>>
          /\ lastState' = "STOPPED" /\ ~lastAccepted' /\ lastAccepted' \in BOOLEAN
          /\ scmState' = "STOPPED" /\ scmAccepts' \in BOOLEAN
          /\ ~scmAccepts'
      BY <1>2, ReportHeard
      DEF ReportStopped, Honest, ServiceState, NoState, ServiceTypeOK
    <2>2. ServiceTypeOK'
      BY <2>1 DEF ServiceTypeOK, ServiceState
    <2>3. Honest' /\ (~stale' => Current')
      BY <2>1 DEF Honest, Current, ServiceTypeOK, ServiceState
    <2> QED
      BY <2>2, <2>3
  <1>3. CASE StartFails \/ ServiceCrash \/ ServiceEnds
    <2>1. ProcessGone
      BY <1>3 DEF StartFails, ServiceCrash, ServiceEnds
    <2>2. ServiceTypeOK'
      <3>1. scmState' \in ServiceState
        BY <2>1 DEF ProcessGone, ServiceState
      <3>2. /\ main' = "none" /\ handler' = "none"
            /\ scmAccepts' \in BOOLEAN /\ cancelled' \in BOOLEAN
            /\ lastAccepted' \in BOOLEAN /\ stale' \in BOOLEAN
            /\ readAccepted' \in BOOLEAN
            /\ lastState' = NoState /\ readState' = NoState
            /\ UNCHANGED <<starts, controls>>
        BY <2>1 DEF ProcessGone, NoRead
      <3> QED
        BY <3>1, <3>2 DEF ServiceTypeOK
    <2>3. Honest' /\ Current'
      BY <2>1 DEF ProcessGone, NoRead, NoState, Honest, Current
    <2> QED
      BY <2>2, <2>3
  <1> QED
    BY <1>1, <1>2, <1>3

LEMMA OrderlyControl ==
  ASSUME Orderly, ControlStop \/ ControlInterrogate
  PROVE  Orderly'
  <1> USE DEF Orderly, managerVars, statusVars, readVars
  <1>1. CASE ControlStop
    BY <1>1 DEF ControlStop, Control, ServiceTypeOK, Honest, Current
  <1>2. CASE ControlInterrogate
    BY <1>2 DEF ControlInterrogate, Control, ServiceTypeOK, Honest, Current
  <1> QED
    BY <1>1, <1>2

LEMMA OrderlyHandler ==
  ASSUME Orderly, HandlerStep
  PROVE  Orderly'
  <1> USE DEF Orderly, managerVars, statusVars, readVars, serviceHistoryVars
  <1>1. CASE HandleStop
    <2>1. /\ handler = "stop" /\ handler' = "cancel"
          /\ UNCHANGED <<main, cancelled, readVars, serviceHistoryVars>>
          /\ lastState' = "STOP_PENDING" /\ ~lastAccepted'
          /\ lastAccepted' \in BOOLEAN
          /\ scmState' \in {scmState, "STOP_PENDING"} /\ scmState' \in ServiceState
          /\ scmAccepts' \in BOOLEAN
          /\ ~scmAccepts' \/ main = "registered" \/ scmState = "STOPPED"
      BY <1>1, ReportHeard
      DEF HandleStop, Pending, ServiceState, NoState, ServiceTypeOK
    <2>2. ServiceTypeOK'
      BY <2>1 DEF ServiceTypeOK, ServiceState
    <2>3. Honest' /\ (~stale' => Current')
      BY <2>1 DEF Honest, Current, ServiceTypeOK, ServiceState
    <2> QED
      BY <2>2, <2>3
  <1>2. CASE HandleCancel
    <2>1. cancelled' /\ cancelled' \in BOOLEAN
      BY <1>2 DEF HandleCancel, Cancels
    <2> QED
      BY <1>2, <2>1 DEF HandleCancel, ServiceTypeOK, Honest, Current
  <1>3. CASE HandleInterrogate
    BY <1>3 DEF HandleInterrogate, ServiceTypeOK, Honest, Current
  <1>4. CASE HandleAnswer
    <2>1. /\ handler = "answer" /\ handler' = "none"
          /\ UNCHANGED <<main, cancelled, starts, controls>>
          /\ readState' = NoState /\ ~readAccepted' /\ readAccepted' \in BOOLEAN
          /\ stale' \in BOOLEAN /\ (~stale' => ~stale /\ readState = lastState)
      BY <1>4 DEF HandleAnswer, NoRead
    <2>2. /\ lastState' = readState /\ lastAccepted' = readAccepted
          /\ scmState' \in {scmState, readState} /\ scmState' \in ServiceState
          /\ scmAccepts' \in BOOLEAN
          /\ \/ scmState' = readState /\ scmAccepts' = readAccepted
             \/ UNCHANGED <<scmState, scmAccepts>>
      BY <1>4, ReportHeard DEF HandleAnswer, ServiceTypeOK
    <2>3. ServiceTypeOK'
      BY <2>1, <2>2 DEF ServiceTypeOK, ServiceState
    <2>4. Honest'
      BY <2>1, <2>2 DEF Honest, ServiceTypeOK, ServiceState, NoState
    <2>5. CASE ~stale'
      <3>1. Current /\ lastState' = lastState
        BY <2>1, <2>2, <2>5
      <3>2. readState # "RUNNING" => ~readAccepted
        BY DEF Honest
      <3>3. readState = "RUNNING" => readAccepted = TRUE
        BY DEF Honest, ServiceTypeOK
      <3>4. ~scmAccepts /\ readState # "RUNNING" => ~scmAccepts'
        BY <2>2, <3>2
      <3>5. scmAccepts /\ readState = "RUNNING" => scmAccepts'
        <4>1. CASE scmAccepts' = readAccepted
          BY <3>3, <4>1
        <4>2. CASE scmAccepts' = scmAccepts
          BY <4>2
        <4> QED
          BY <2>2, <4>1, <4>2
      <3>6. main = "stopped" => scmState' = "STOPPED"
        BY <2>1, <2>2, <3>1, <2>5 DEF Current
      <3>7. readState = lastState
        BY <2>1, <2>5
      <3>8. /\ main \in {"none", "starting", "registered", "announced"} =>
                 readState # "RUNNING"
            /\ cancelled => readState # "RUNNING"
        BY <3>1, <3>7 DEF Current
      <3>9. (main \in {"none", "starting", "registered", "announced"} =>
               /\ ~scmAccepts /\ ~cancelled /\ handler \notin {"stop", "cancel"}
               /\ lastState # "RUNNING")'
        BY <2>1, <2>2, <3>1, <3>4, <3>8 DEF Current
      <3>10. (cancelled \/ handler = "cancel" =>
                /\ lastState \in {"STOP_PENDING", "STOPPED"}
                /\ ~scmAccepts /\ handler # "stop")'
        BY <2>1, <2>2, <3>1, <3>4, <3>8 DEF Current
      <3>11. (main = "working" /\ ~cancelled /\ handler # "cancel" =>
                lastState = "RUNNING" /\ scmAccepts)'
        BY <2>1, <2>2, <3>1, <3>5, <3>7 DEF Current
      <3>12. (main = "stopped" => lastState = "STOPPED" /\ scmState = "STOPPED")'
        BY <2>1, <3>1, <3>6 DEF Current
      <3> QED
        BY <2>3, <2>4, <3>9, <3>10, <3>11, <3>12 DEF Current
    <2> QED
      BY <2>3, <2>4, <2>5
  <1> QED
    BY <1>1, <1>2, <1>3, <1>4 DEF HandlerStep

LEMMA OrderlyStep == Orderly /\ [ServiceNext]_serviceVars => Orderly'
  <1> SUFFICES ASSUME Orderly, [ServiceNext]_serviceVars PROVE Orderly'
    OBVIOUS
  <1>1. CASE ServiceNext
    BY <1>1, OrderlyStart, OrderlyEnd, OrderlyControl, OrderlyHandler
    DEF ServiceNext
  <1>2. CASE UNCHANGED serviceVars
    BY <1>2
    DEF serviceVars, managerVars, statusVars, readVars, serviceHistoryVars,
        Orderly, ServiceTypeOK, Honest, Current
  <1> QED
    BY <1>1, <1>2
-----------------------------------------------------------------------------
(* Every state of the service is well typed. *)
THEOREM ServiceTypeCorrect == ServiceSpec => []ServiceTypeOK
  <1>1. Orderly => ServiceTypeOK
    BY DEF Orderly
  <1> QED
    BY <1>1, OrderlyInit, OrderlyStep, PTL DEF ServiceSpec

(* When the manager shows STOPPED no work is under way, whatever an         *)
(* Interrogate was answered with: it can be stale, but never early.        *)
THEOREM StoppedIsDone == ServiceSpec => []StoppedMeansDone
  <1>1. Orderly => StoppedMeansDone
    BY DEF Orderly, Honest, Current, StoppedMeansDone
  <1> QED
    BY <1>1, OrderlyInit, OrderlyStep, PTL DEF ServiceSpec

(* A service at work can be stopped, or is being stopped.                  *)
THEOREM WorkStaysStoppable == ServiceSpec => []WorkCanBeStopped
  <1>1. Orderly => WorkCanBeStopped
    BY DEF Orderly, Current, WorkCanBeStopped
  <1> QED
    BY <1>1, OrderlyInit, OrderlyStep, PTL DEF ServiceSpec

-----------------------------------------------------------------------------
(* The pool. *)

(* The host is waiting, or being asked, or known for what it is.           *)
InView(h) ==
  \/ h \in jobs \cup found \cup absent
  \/ \E w \in Workers : h \in inHand[w]

(* A host that is out of view was counted; the last worker leaves nobody   *)
(* waiting; and there are workers only while the pool runs.                *)
Accounted ==
  /\ \A h \in hosts : unsent = 0 => InView(h)
  /\ (\A w \in Workers : worker[w] = "ended") => jobs = {}
  /\ pool # "running" => \A w \in Workers : worker[w] = "ended"

Sound == PoolTypeOK /\ Accounted
-----------------------------------------------------------------------------
LEMMA SoundInit == PoolInit => Sound
  <1> SUFFICES ASSUME PoolInit PROVE Sound
    OBVIOUS
  <1>1. PoolTypeOK
    BY DEF PoolInit, PoolTypeOK
  <1>2. Accounted
    BY DEF PoolInit, Accounted
  <1> QED
    BY <1>1, <1>2 DEF Sound

(* A probe has a first worker when it has a host.                          *)
LEMMA FirstWorker ==
  ASSUME NEW asked \in SUBSET Host
  PROVE  /\ Cardinality(asked) \in Nat
         /\ PoolSize(Cardinality(asked)) \in 0 .. MaxWorkers
         /\ asked # {} => 1 \in Workers /\ 1 <= PoolSize(Cardinality(asked))
         /\ asked # {} => Cardinality(asked) > 0
         /\ asked = {} => PoolSize(Cardinality(asked)) = 0
  <1>1. IsFiniteSet(asked)
    BY PoolAssumption, FS_Subset
  <1>2. Cardinality(asked) \in Nat
    BY <1>1, FS_CardinalityType
  <1>3. asked = {} <=> Cardinality(asked) = 0
    BY <1>1, FS_EmptySet
  <1> QED
    BY <1>2, <1>3, PoolAssumption DEF PoolSize, Workers

LEMMA SoundStart ==
  ASSUME Sound, NEW asked \in SUBSET Host,
         PoolStart(asked) \/ PoolUnavailable(asked)
  PROVE  Sound'
  <1> USE DEF Sound
  <1>1. CASE PoolStart(asked)
    <2>1. /\ pool' = IF asked = {} THEN "returned" ELSE "running"
          /\ hosts' = asked /\ jobs' = asked /\ inHand' = inHand
          /\ found' = {} /\ absent' = {} /\ unsent' = 0
          /\ worker' = [w \in Workers |->
               IF w <= PoolSize(Cardinality(asked)) THEN "new" ELSE "ended"]
      BY <1>1 DEF PoolStart
    <2>2. \A w \in Workers : inHand[w] = {}
      BY <1>1 DEF PoolStart, Accounted, PoolTypeOK
    <2>3. PoolTypeOK'
      <3>1. pool' \in {"idle", "running", "returned"}
        BY <2>1
      <3>2. worker' \in [Workers -> {"new", "ready", "draining", "asking", "ended"}]
        BY <2>1
      <3>3. expired' \in BOOLEAN /\ failed' \in BOOLEAN
        BY <1>1 DEF PoolStart
      <3> QED
        BY <2>1, <2>2, <3>1, <3>2, <3>3 DEF PoolTypeOK
    <2>4. CASE asked = {}
      <3>1. \A w \in Workers : worker'[w] = "ended"
        BY <2>1, <2>4, FirstWorker DEF Workers
      <3> QED
        BY <2>1, <2>3, <2>4, <3>1 DEF Accounted
    <2>5. CASE asked # {}
      <3>1. 1 \in Workers /\ worker'[1] = "new"
        BY <2>1, <2>5, FirstWorker
      <3>2. \A h \in hosts' : InView(h)'
        BY <2>1 DEF InView
      <3> QED
        BY <2>1, <2>3, <2>5, <3>1, <3>2 DEF Accounted
    <2> QED
      BY <2>4, <2>5
  <1>2. CASE PoolUnavailable(asked)
    <2>1. /\ pool' = "returned" /\ hosts' = asked /\ found' = {} /\ absent' = {}
          /\ unsent' \in Nat /\ unsent' > 0
          /\ UNCHANGED <<jobs, worker, inHand, expired>>
      BY <1>2, FirstWorker DEF PoolUnavailable
    <2>2. PoolTypeOK'
      <3>1. failed' \in BOOLEAN
        BY <1>2 DEF PoolUnavailable
      <3> QED
        BY <2>1, <3>1 DEF PoolTypeOK
    <2>3. \A w \in Workers : worker[w] = "ended"
      BY <1>2 DEF PoolUnavailable, Accounted
    <2> QED
      BY <2>1, <2>2, <2>3 DEF Accounted
  <1> QED
    BY <1>1, <1>2

LEMMA SoundWorker ==
  ASSUME Sound, NEW w \in Workers, NEW over, PoolStep(w, over)
  PROVE  Sound'
  <1> USE DEF Sound
  <1>1. CASE PoolHandle(w)
    <2>1. PICK next \in {"ready", "draining"} :
            worker' = [worker EXCEPT ![w] = next]
      BY <1>1 DEF PoolHandle, Handleless
    <2>2. /\ worker[w] = "new"
          /\ UNCHANGED <<pool, hosts, jobs, inHand, expired, found, unsent,
                         failed, absent>>
      BY <1>1 DEF PoolHandle
    <2>3. PoolTypeOK'
      BY <2>1, <2>2 DEF PoolTypeOK
    <2>4. worker'[w] # "ended" /\ pool = "running"
      BY <2>1, <2>2 DEF PoolTypeOK, Accounted
    <2>5. \A h \in hosts' : unsent' = 0 => InView(h)'
      BY <2>2 DEF Accounted, InView
    <2> QED
      BY <2>2, <2>3, <2>4, <2>5 DEF Accounted
  <1>2. CASE PoolSkip(w, over)
    <2>1. /\ jobs' \subseteq jobs /\ unsent' = unsent + 1
          /\ UNCHANGED <<pool, hosts, worker, inHand, expired, found, failed,
                         absent>>
      BY <1>2 DEF PoolSkip
    <2>2. PoolTypeOK' /\ unsent' > 0
      BY <2>1 DEF PoolTypeOK
    <2> QED
      BY <2>1, <2>2 DEF Accounted
  <1>3. CASE PoolAsk(w, over)
    <2>1. PICK h \in jobs :
            jobs' = jobs \ {h} /\ inHand' = [inHand EXCEPT ![w] = {h}]
      BY <1>3 DEF PoolAsk
    <2>2. /\ worker[w] = "ready" /\ worker' = [worker EXCEPT ![w] = "asking"]
          /\ UNCHANGED <<pool, hosts, expired, found, unsent, failed, absent>>
      BY <1>3 DEF PoolAsk
    <2>3. PoolTypeOK'
      BY <2>1, <2>2 DEF PoolTypeOK
    <2>4. worker'[w] # "ended" /\ pool = "running"
      BY <2>2 DEF PoolTypeOK, Accounted
    <2>5. \A g \in hosts' : unsent' = 0 => InView(g)'
      <3> SUFFICES ASSUME NEW g \in hosts, unsent = 0 PROVE InView(g)'
        BY <2>2
      <3>1. InView(g) /\ inHand[w] = {} /\ inHand'[w] = {h}
        BY <2>1, <2>2 DEF Accounted, PoolTypeOK
      <3>2. \A v \in Workers : v # w => inHand'[v] = inHand[v]
        BY <2>1 DEF PoolTypeOK
      <3> QED
        BY <2>1, <2>2, <3>1, <3>2 DEF InView
    <2> QED
      BY <2>2, <2>3, <2>4, <2>5 DEF Accounted
  <1>4. CASE \E status \in Status : PoolAnswer(w, status)
    <2>1. PICK status \in Status : PoolAnswer(w, status)
      BY <1>4
    <2>2. /\ worker[w] = "asking" /\ worker' = [worker EXCEPT ![w] = "ready"]
          /\ inHand' = [inHand EXCEPT ![w] = {}]
          /\ UNCHANGED <<pool, hosts, jobs, expired, failed>>
      BY <2>1 DEF PoolAnswer
    <2>3. /\ found' \in {found, found \cup inHand[w]}
          /\ absent' \in {absent, absent \cup inHand[w]}
          /\ unsent' \in {unsent, unsent + 1}
          /\ \/ found' = found \cup inHand[w]
             \/ absent' = absent \cup inHand[w]
             \/ unsent' = unsent + 1
      BY <2>1 DEF PoolAnswer
    <2>4. PoolTypeOK'
      BY <2>2, <2>3 DEF PoolTypeOK
    <2>5. worker'[w] # "ended" /\ pool = "running"
      BY <2>2 DEF PoolTypeOK, Accounted
    <2>6. \A g \in hosts' : unsent' = 0 => InView(g)'
      <3> SUFFICES ASSUME NEW g \in hosts, unsent' = 0 PROVE InView(g)'
        BY <2>2
      <3>1. unsent = 0 /\ InView(g)
        BY <2>3 DEF Accounted, PoolTypeOK
      <3>2. inHand[w] \subseteq found' \cup absent'
        BY <2>3, <3>1 DEF PoolTypeOK
      <3>3. \A v \in Workers : v # w => inHand'[v] = inHand[v]
        BY <2>2 DEF PoolTypeOK
      <3>4. found \subseteq found' /\ absent \subseteq absent' /\ jobs' = jobs
        BY <2>2, <2>3
      <3> QED
        BY <3>1, <3>2, <3>3, <3>4 DEF InView
    <2> QED
      BY <2>2, <2>4, <2>5, <2>6 DEF Accounted
  <1>5. CASE PoolWorkerEnds(w)
    <2>1. /\ jobs = {} /\ worker' = [worker EXCEPT ![w] = "ended"]
          /\ worker[w] \in {"ready", "draining"}
          /\ UNCHANGED <<pool, hosts, jobs, inHand, expired, found, unsent,
                         failed, absent>>
      BY <1>5 DEF PoolWorkerEnds
    <2>2. PoolTypeOK'
      BY <2>1 DEF PoolTypeOK
    <2>3. pool = "running"
      BY <2>1 DEF Accounted
    <2>4. \A h \in hosts' : unsent' = 0 => InView(h)'
      BY <2>1 DEF Accounted, InView
    <2> QED
      BY <2>1, <2>2, <2>3, <2>4 DEF Accounted
  <1> QED
    BY <1>1, <1>2, <1>3, <1>4, <1>5 DEF PoolStep

LEMMA SoundRest ==
  ASSUME Sound, PoolExpires \/ PoolReturn \/ PoolTaken \/ NoCall \/ UNCHANGED poolVars
  PROVE  Sound'
  <1> USE DEF Sound
  <1>1. CASE PoolExpires
    <2>1. expired' \in BOOLEAN
      BY <1>1 DEF PoolExpires
    <2> QED
      BY <1>1, <2>1 DEF PoolExpires, PoolTypeOK, Accounted, InView
  <1>2. CASE PoolReturn
    BY <1>2 DEF PoolReturn, PoolTypeOK, Accounted, InView
  <1>3. CASE PoolTaken \/ NoCall
    <2>1. NoCall
      BY <1>3 DEF PoolTaken
    <2>2. PoolTypeOK'
      BY <2>1 DEF NoCall, PoolTypeOK
    <2>3. Accounted'
      BY <2>1 DEF NoCall, Accounted
    <2> QED
      BY <2>2, <2>3
  <1>4. CASE UNCHANGED poolVars
    BY <1>4 DEF poolVars, PoolTypeOK, Accounted, InView
  <1> QED
    BY <1>1, <1>2, <1>3, <1>4

LEMMA SoundStep == Sound /\ [PoolNext]_poolVars => Sound'
  <1> SUFFICES ASSUME Sound, [PoolNext]_poolVars PROVE Sound'
    OBVIOUS
  <1> QED
    BY SoundStart, SoundWorker, SoundRest DEF PoolNext
-----------------------------------------------------------------------------
(* Every state of the pool is well typed. *)
THEOREM PoolTypeCorrect == PoolSpec => []PoolTypeOK
  <1>1. Sound => PoolTypeOK
    BY DEF Sound
  <1> QED
    BY <1>1, SoundInit, SoundStep, PTL DEF PoolSpec

(* When a probe reports that every packet left, every host it did not hear *)
(* was asked and its absence proven, whatever the workers, the time and    *)
(* the context did (icmp_windows.go:86).                                   *)
THEOREM SilenceIsNoGuess == PoolSpec => []SilenceIsProven
  <1>1. Sound => SilenceIsProven
    BY DEF Sound, PoolTypeOK, Accounted, InView, SilenceIsProven
  <1> QED
    BY <1>1, SoundInit, SoundStep, PTL DEF PoolSpec

-----------------------------------------------------------------------------
(* The log. *)

(* Where Write is says what its file is. *)
Placed ==
  /\ logAt \in {"off", "rename", "open", "reopen"} => file = "nil"
  /\ logAt \in {"close", "append"} => file # "nil"
  /\ file = "open" => present
  /\ ~present => live = 0
  /\ logAt = "open" => live = 0
  /\ file = "closed" => broken
  /\ RenameLeavesAFile

(* The size that is counted is the length of the open file, or less when   *)
(* it could not be read; a file is only rolled over when it holds bytes,   *)
(* and they are the newest.                                                *)
Counted ==
  /\ file = "open" => size <= live
  /\ file # "nil" /\ ~unseen => live <= size
  /\ logAt = "append" /\ file = "open" /\ ~unseen => size + record <= LogMax
  /\ logAt = "close" => size > 0
  /\ logAt = "rename" /\ present => live > 0
  /\ live > 0 => newest = "live"
  /\ NewestKept
  /\ FootprintBounded

Kept == LogTypeOK /\ Placed /\ Counted
-----------------------------------------------------------------------------
LEMMA LogInitKept == LogInit => Kept
  <1> SUFFICES ASSUME LogInit PROVE Kept
    OBVIOUS
  <1> USE LogAssumption DEF LogInit
  <1>1. LogTypeOK
    BY DEF LogTypeOK
  <1>2. Placed
    BY DEF Placed, RenameLeavesAFile
  <1>3. Counted
    BY DEF Counted, NewestKept, FootprintBounded
  <1> QED
    BY <1>1, <1>2, <1>3 DEF Kept

(* What open makes of the file, when it is there or not. *)
LEMMA OpensKept ==
  ASSUME LogTypeOK, Opens
  PROVE  /\ file' = "open" /\ present'
         /\ size' \in Nat /\ size' <= live
         /\ unseen' \in BOOLEAN /\ (unseen => unseen')
         /\ ~unseen' => live <= size'
         /\ logFaults' \in Nat
  <1> USE DEF Opens, LogTypeOK, SizeFound, Fault
  <1>1. CASE size' = SizeFound /\ UNCHANGED <<unseen, logFaults>>
    BY <1>1
  <1>2. CASE Fault /\ size' = 0 /\ unseen' = (unseen \/ live > 0)
    <2>1. unseen' \in BOOLEAN /\ (unseen => unseen') /\ (~unseen' => ~(live > 0))
      BY <1>2
    <2> QED
      BY <1>2, <2>1
  <1> QED
    BY <1>1, <1>2

LEMMA LogEdgesKept ==
  ASSUME Kept,
         \/ LogStart \/ LogEnd \/ LogDies
         \/ \E n \in RecordSizes : LogWrite(n)
  PROVE  Kept'
  <1> USE LogAssumption
      DEF Kept, LogTypeOK, Placed, Counted, RenameLeavesAFile, NewestKept,
          FootprintBounded, logFileVars, logHistoryVars
  <1>1. CASE LogStart
    BY <1>1, OpensKept DEF LogStart
  <1>2. CASE LogEnd
    BY <1>2 DEF LogEnd
  <1>3. CASE LogDies
    BY <1>3 DEF LogDies
  <1>4. CASE \E n \in RecordSizes : LogWrite(n)
    <2>1. PICK n \in RecordSizes : LogWrite(n)
      BY <1>4
    <2>2. n \in 1 .. LogMax /\ record' = n /\ file # "nil"
      BY <2>1 DEF LogWrite
    <2>3. CASE Overflows(n)
      BY <2>1, <2>2, <2>3 DEF LogWrite, Overflows
    <2>4. CASE ~Overflows(n)
      BY <2>1, <2>2, <2>4 DEF LogWrite, Overflows
    <2> QED
      BY <2>3, <2>4
  <1> QED
    BY <1>1, <1>2, <1>3, <1>4

LEMMA LogRollOverKept ==
  ASSUME Kept,
         \/ LogClose \/ LogCloseFails
         \/ LogRename \/ LogRenameNothing \/ LogRenameFails
  PROVE  Kept'
  <1> USE LogAssumption
      DEF Kept, LogTypeOK, Placed, Counted, RenameLeavesAFile, NewestKept,
          FootprintBounded, logFileVars, logHistoryVars
  <1>1. CASE LogClose
    BY <1>1 DEF LogClose
  <1>2. CASE LogCloseFails
    <2>1. logFaults' \in Nat
      BY <1>2 DEF LogCloseFails, Fault
    <2> QED
      BY <1>2, <2>1 DEF LogCloseFails, WriteReturns
  <1>3. CASE LogRename
    <2>1. live > 0 /\ newest = "live" /\ newest' = "rolled"
      BY <1>3 DEF LogRename
    <2>2. present' \in BOOLEAN /\ ~present' /\ logAt' = "open" /\ record # 0
      BY <1>3 DEF LogRename
    <2>3. /\ file = "nil" /\ rolled' = live /\ live' = 0
          /\ UNCHANGED <<record, file, size, unseen, broken, logFaults>>
      BY <1>3 DEF LogRename
    <2> QED
      BY <2>1, <2>2, <2>3
  <1>4. CASE LogRenameNothing
    BY <1>4 DEF LogRenameNothing
  <1>5. CASE LogRenameFails
    <2>1. logAt' = "reopen" /\ record' = record /\ logFaults' \in Nat
      BY <1>5 DEF LogRenameFails, AfterRename, Fault
    <2> QED
      BY <1>5, <2>1 DEF LogRenameFails
  <1> QED
    BY <1>1, <1>2, <1>3, <1>4, <1>5

LEMMA LogRestKept ==
  ASSUME Kept,
         LogOpen \/ LogOpenFails \/ LogAppend \/ LogAppendFails \/ LogTaken
  PROVE  Kept'
  <1> USE LogAssumption
      DEF Kept, LogTypeOK, Placed, Counted, RenameLeavesAFile, NewestKept,
          FootprintBounded, logFileVars, logHistoryVars
  <1>1. CASE LogOpen
    <2>1. CASE logAt = "open"
      <3>1. Opens /\ logAt' = "append" /\ live = 0 /\ file = "nil"
        BY <1>1, <2>1 DEF LogOpen
      <3>2. UNCHANGED <<record, live, rolled, newest, broken>>
        BY <1>1, <2>1 DEF LogOpen
      <3>3. /\ file' = "open" /\ present' /\ present' \in BOOLEAN
            /\ size' \in Nat /\ size' <= live
            /\ unseen' \in BOOLEAN /\ (unseen => unseen')
            /\ ~unseen' => live <= size'
            /\ logFaults' \in Nat
        BY <3>1, OpensKept DEF Opens
      <3>4. record \in 1 .. LogMax /\ size' = 0
        BY <2>1, <3>1, <3>3
      <3> QED
        BY <3>1, <3>2, <3>3, <3>4
    <2>2. CASE logAt = "reopen"
      <3>1. Opens /\ logAt' = "idle" /\ record' = 0 /\ file = "nil"
        BY <1>1, <2>2 DEF LogOpen, WriteReturns
      <3>2. UNCHANGED <<live, rolled, newest, broken>>
        BY <1>1 DEF LogOpen
      <3> QED
        BY <2>2, <3>1, <3>2, OpensKept
    <2> QED
      BY <1>1, <2>1, <2>2 DEF LogOpen
  <1>2. CASE LogOpenFails
    BY <1>2 DEF LogOpenFails, Fault, WriteReturns
  <1>3. CASE LogAppend
    <2>1. PICK written \in 0 .. record :
            /\ logFaults' \in Nat
            /\ live' = live + written
            /\ size' = size + written
            /\ newest' = IF written > 0 THEN "live" ELSE newest
      BY <1>3 DEF LogAppend, Fault
    <2>2. newest' \in {"none", "live", "rolled", "lost"}
      BY <2>1
    <2>3. /\ logAt = "append" /\ file = "open" /\ record > 0 /\ logAt' = "idle"
          /\ record' = 0 /\ UNCHANGED <<file, present, rolled, unseen, broken>>
      BY <1>3 DEF LogAppend, WriteReturns
    <2>4. live' > 0 => newest' = "live"
      BY <2>1
    <2>5. newest' # "lost"
      BY <2>1
    <2> QED
      BY <2>1, <2>2, <2>3, <2>4, <2>5
  <1>4. CASE LogAppendFails
    BY <1>4 DEF LogAppendFails, WriteReturns
  <1>5. CASE LogTaken
    <2>1. logFaults' \in Nat
      BY <1>5 DEF LogTaken, Fault
    <2>2. CASE present /\ file # "open" /\ present' = FALSE /\ live' = 0
      <3>1. present' \in BOOLEAN /\ ~present'
        BY <2>2
      <3>2. newest' \in {"none", "rolled"}
        BY <1>5, <2>2 DEF LogTaken
      <3>3. UNCHANGED <<logAt, record, file, size, rolled, unseen, broken>>
        BY <1>5, <2>2 DEF LogTaken
      <3> QED
        BY <2>1, <2>2, <3>1, <3>2, <3>3
    <2>3. CASE rolled > 0 /\ rolled' = 0 /\ UNCHANGED <<present, live>>
      <3>1. newest' \in {newest, "none"} /\ (newest # "rolled" => newest' = newest)
        BY <1>5, <2>3 DEF LogTaken
      <3>2. UNCHANGED <<logAt, record, file, size, unseen, broken>>
        BY <1>5, <2>3 DEF LogTaken
      <3> QED
        BY <2>1, <2>3, <3>1, <3>2
    <2> QED
      BY <1>5, <2>2, <2>3 DEF LogTaken
  <1> QED
    BY <1>1, <1>2, <1>3, <1>4, <1>5

LEMMA LogStepKept == Kept /\ [LogNext]_logVars => Kept'
  <1> SUFFICES ASSUME Kept, [LogNext]_logVars PROVE Kept'
    OBVIOUS
  <1>1. CASE LogNext
    BY <1>1, LogEdgesKept, LogRollOverKept, LogRestKept DEF LogNext, LogStep
  <1>2. CASE UNCHANGED logVars
    BY <1>2
    DEF logVars, logFileVars, logHistoryVars, Kept, LogTypeOK, Placed, Counted,
        RenameLeavesAFile, NewestKept, FootprintBounded
  <1> QED
    BY <1>1, <1>2
-----------------------------------------------------------------------------
(* Every state of the log is well typed. *)
THEOREM LogTypeCorrect == LogSpec => []LogTypeOK
  <1>1. Kept => LogTypeOK
    BY DEF Kept
  <1> QED
    BY <1>1, LogInitKept, LogStepKept, PTL DEF LogSpec

(* The log and its predecessor never outgrow twice the limit               *)
(* (logging.go:21-22), unless the length of a file could not be read.      *)
THEOREM LogIsBounded == LogSpec => []FootprintBounded
  <1>1. Kept => FootprintBounded
    BY DEF Kept, Counted
  <1> QED
    BY <1>1, LogInitKept, LogStepKept, PTL DEF LogSpec

(* No rotation, whatever of it failed, overwrites the newest lines.        *)
THEOREM NewestLinesStay == LogSpec => []NewestKept
  <1>1. Kept => NewestKept
    BY DEF Kept, Counted
  <1> QED
    BY <1>1, LogInitKept, LogStepKept, PTL DEF LogSpec

(* Only a Close or an open that fails leaves the agent without a log.      *)
THEOREM LogStaysUsable == LogSpec => []RenameLeavesAFile
  <1>1. Kept => RenameLeavesAFile
    BY DEF Kept, Placed
  <1> QED
    BY <1>1, LogInitKept, LogStepKept, PTL DEF LogSpec
=============================================================================
