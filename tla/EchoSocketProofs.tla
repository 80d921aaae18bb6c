-------------------------- MODULE EchoSocketProofs --------------------------
(***************************************************************************)
(* Theorems about EchoSocket, for any lists of hosts, any ceilings and any *)
(* settle window.                                                          *)
(***************************************************************************)
EXTENDS EchoSocket, TLAPS

Packet == [how : {"sent", "absent", "failed"}, at : Nat]

(* SocketTypeOK in the groups the provers can take.                        *)
CallTyped ==
  /\ hosts \in Seq(Host) /\ timeout \in Nat
  /\ next \in 1 .. Len(hosts) + 1
  /\ undelivered \in 0 .. Len(hosts)

ControlTyped ==
  /\ call \in {"idle", "open", "send", "wait", "returned"}
  /\ err \in {"none", "noProbe", "failed", "undelivered"}
  /\ socket \in {"none", "open", "closed"}
  /\ reader \in {"none", "reading", "done", "failed"}
  /\ call \in {"idle", "open", "returned"} => reader # "reading"

TimeTyped ==
  /\ limit \in Nat
  /\ now \in 0 .. Late
  /\ heardUntil \in Nat

HeardTyped ==
  /\ answered \subseteq Host
  /\ spoke \subseteq 1 .. Len(hosts)

AskedTyped ==
  /\ asked \in Seq(Packet)
  /\ Len(asked) <= next - 1
  /\ \A i \in 1 .. Len(asked) : asked[i].at <= now

(* A call that has not begun to send has asked and heard nobody.           *)
Fresh ==
  call \in {"idle", "open"} =>
    /\ next = 1 /\ undelivered = 0
    /\ asked = <<>> /\ spoke = {} /\ answered = {}
    /\ reader = "none"
    /\ call = "idle" => now = 0

(* What was not counted as undelivered was asked, and the count never runs *)
(* ahead of the sender while it sends.                                     *)
Counted ==
  /\ call \in {"send", "wait"} => undelivered <= next - 1
  /\ call = "wait" => next = Len(hosts) + 1
  /\ undelivered = 0 =>
       /\ Len(asked) = next - 1
       /\ \A i \in 1 .. Len(asked) : asked[i].how # "failed"

(* A call that sends has a reader; the reader's limit is the ceiling, or   *)
(* leaves the last packet its settle window; and a reader that ran out of  *)
(* time has read up to it.                                                 *)
Patient ==
  /\ call \in {"send", "wait"} => reader # "none"
  /\ reader \in {"reading", "done"} =>
       \/ limit = timeout
       \/ /\ call \in {"wait", "returned"}
          /\ \A i \in 1 .. Len(asked) : limit >= asked[i].at + Settle
  /\ reader = "done" => heardUntil >= limit

(* A result without an error is that of a call that went all the way, or   *)
(* of one that had nobody to ask.                                          *)
Concluded ==
  call = "returned" /\ err = "none" =>
    \/ hosts = <<>>
    \/ reader = "done" /\ undelivered = 0 /\ next = Len(hosts) + 1

Listening ==
  /\ CallTyped /\ ControlTyped /\ TimeTyped /\ HeardTyped /\ AskedTyped
  /\ Fresh /\ Counted /\ Patient /\ Concluded
  /\ HeardIsAlive

LEMMA ListeningInit == ProbeInit => Listening
  <1> SUFFICES ASSUME ProbeInit PROVE Listening
    OBVIOUS
  <1> USE SocketAssumption DEF ProbeInit
  <1>1. CallTyped /\ HeardTyped /\ AskedTyped
    BY DEF CallTyped, HeardTyped, AskedTyped, Packet
  <1>2. ControlTyped
    BY DEF ControlTyped
  <1>3. TimeTyped
    BY DEF TimeTyped, Late, Never
  <1>4. Fresh /\ Counted /\ Patient /\ Concluded /\ HeardIsAlive
    BY DEF Fresh, Counted, Patient, Concluded, HeardIsAlive
  <1> QED
    BY <1>1, <1>2, <1>3, <1>4 DEF Listening

LEMMA PacketTimes ==
  ASSUME Listening
  PROVE  \A i \in 1 .. Len(asked) : asked[i].at \in Nat /\ asked[i].at <= now
  <1> SUFFICES ASSUME NEW i \in 1 .. Len(asked)
               PROVE  asked[i].at \in Nat /\ asked[i].at <= now
    OBVIOUS
  <1>1. asked[i] \in Packet
    BY DEF Listening, AskedTyped
  <1> QED
    BY <1>1 DEF Packet, Listening, AskedTyped

LEMMA ListeningStart ==
  ASSUME Listening, NEW list \in HostLists, NEW t \in Timeouts, ProbeStart(list, t)
  PROVE  Listening'
  <1> USE SocketAssumption DEF Listening, ProbeStart, Returns, readerVars, askedVars
  <1>1. CallTyped'
    BY DEF CallTyped, Fresh, Counted
  <1>2. ControlTyped'
    BY DEF ControlTyped, Fresh
  <1>3. TimeTyped'
    BY DEF TimeTyped, CallTyped, Late, Fresh
  <1>4. HeardTyped'
    BY DEF HeardTyped, CallTyped, Fresh
  <1>5. AskedTyped'
    BY DEF AskedTyped, CallTyped, TimeTyped
  <1>6. Fresh'
    BY DEF Fresh
  <1>7. Counted'
    BY DEF Counted, CallTyped, AskedTyped, Fresh
  <1>8. Patient'
    BY DEF Patient, AskedTyped, TimeTyped, CallTyped, Fresh
  <1>9. Concluded'
    BY DEF Concluded, Counted, Fresh
  <1>10. HeardIsAlive'
    BY DEF HeardIsAlive, HeardTyped, Fresh
  <1> QED
    BY <1>1, <1>2, <1>3, <1>4, <1>5, <1>6, <1>7,
       <1>8, <1>9, <1>10

LEMMA ListeningListen ==
  ASSUME Listening, ProbeListen
  PROVE  Listening'
  <1> USE SocketAssumption DEF Listening, ProbeListen, Returns, Ceiling, askedVars
  <1>1. CallTyped'
    BY DEF CallTyped, Fresh, Counted
  <1>2. ControlTyped'
    BY DEF ControlTyped, Fresh
  <1>3. TimeTyped'
    BY DEF TimeTyped, CallTyped, Late
  <1>4. HeardTyped'
    BY DEF HeardTyped, CallTyped, Fresh
  <1>5. AskedTyped'
    BY DEF AskedTyped, CallTyped, TimeTyped
  <1>6. Fresh'
    BY DEF Fresh
  <1>7. Counted'
    BY DEF Counted, CallTyped, AskedTyped, Fresh
  <1>8. Patient'
    BY DEF Patient, AskedTyped, TimeTyped, CallTyped, Fresh
  <1>9. Concluded'
    BY DEF Concluded, Counted, Fresh
  <1>10. HeardIsAlive'
    BY DEF HeardIsAlive, HeardTyped, Fresh
  <1> QED
    BY <1>1, <1>2, <1>3, <1>4, <1>5, <1>6, <1>7,
       <1>8, <1>9, <1>10

LEMMA ListeningSend ==
  ASSUME Listening, ProbeSend
  PROVE  Listening'
  <1> USE SocketAssumption DEF Listening, ProbeSend, WriteOutcomes, readerVars
  <1>1. CallTyped'
    BY DEF CallTyped, Fresh, Counted
  <1>2. ControlTyped'
    BY DEF ControlTyped, Fresh
  <1>3. TimeTyped'
    BY DEF TimeTyped, CallTyped, Late
  <1>4. HeardTyped'
    BY DEF HeardTyped, CallTyped, Fresh
  <1>5. AskedTyped'
    <2>1. PICK outcome \in {"sent", "absent", "failed"} :
            asked' = Append(asked, [how |-> outcome, at |-> now])
      OBVIOUS
    <2>2. now \in Nat /\ now' = now
      BY DEF TimeTyped, CallTyped, Late
    <2>3. [how |-> outcome, at |-> now] \in Packet
      BY <2>2 DEF Packet
    <2> QED
      BY <2>1, <2>2, <2>3 DEF AskedTyped, CallTyped
  <1>6. Fresh'
    BY DEF Fresh
  <1>7. Counted'
    BY DEF Counted, CallTyped, AskedTyped, Fresh
  <1>8. Patient'
    BY DEF Patient, AskedTyped, TimeTyped, CallTyped, Fresh
  <1>9. Concluded'
    BY DEF Concluded, Counted, Fresh
  <1>10. HeardIsAlive'
    BY DEF HeardIsAlive, HeardTyped, Fresh
  <1> QED
    BY <1>1, <1>2, <1>3, <1>4, <1>5, <1>6, <1>7,
       <1>8, <1>9, <1>10

LEMMA ListeningGivesUp ==
  ASSUME Listening, ProbeGivesUp
  PROVE  Listening'
  <1> USE SocketAssumption DEF Listening, ProbeGivesUp, readerVars, askedVars
  <1>1. CallTyped'
    BY DEF CallTyped, Fresh, Counted
  <1>2. ControlTyped'
    BY DEF ControlTyped, Fresh
  <1>3. TimeTyped'
    BY DEF TimeTyped, CallTyped, Late
  <1>4. HeardTyped'
    BY DEF HeardTyped, CallTyped, Fresh
  <1>5. AskedTyped'
    BY DEF AskedTyped, CallTyped, TimeTyped
  <1>6. Fresh'
    BY DEF Fresh
  <1>7. Counted'
    BY DEF Counted, CallTyped, AskedTyped, Fresh
  <1>8. Patient'
    BY DEF Patient, AskedTyped, TimeTyped, CallTyped, Fresh
  <1>9. Concluded'
    BY DEF Concluded, Counted, Fresh
  <1>10. HeardIsAlive'
    BY DEF HeardIsAlive, HeardTyped, Fresh
  <1> QED
    BY <1>1, <1>2, <1>3, <1>4, <1>5, <1>6, <1>7,
       <1>8, <1>9, <1>10

LEMMA ListeningSettle ==
  ASSUME Listening, ProbeSettle
  PROVE  Listening'
  <1> USE SocketAssumption DEF Listening, ProbeSettle, SettleLimit, readerVars, askedVars
  <1>1. CallTyped'
    BY DEF CallTyped, Fresh, Counted
  <1>2. ControlTyped'
    BY DEF ControlTyped, Fresh
  <1>3. TimeTyped'
    BY DEF TimeTyped, CallTyped, Late
  <1>4. HeardTyped'
    BY DEF HeardTyped, CallTyped, Fresh
  <1>5. AskedTyped'
    BY DEF AskedTyped, CallTyped, TimeTyped
  <1>6. Fresh'
    BY DEF Fresh
  <1>7. Counted'
    BY DEF Counted, CallTyped, AskedTyped, Fresh
  <1>8. Patient'
    BY PacketTimes DEF Patient, AskedTyped, TimeTyped, CallTyped, Late
  <1>9. Concluded'
    BY DEF Concluded, Counted, Fresh
  <1>10. HeardIsAlive'
    BY DEF HeardIsAlive, HeardTyped, Fresh
  <1> QED
    BY <1>1, <1>2, <1>3, <1>4, <1>5, <1>6, <1>7,
       <1>8, <1>9, <1>10

LEMMA ListeningAnswers ==
  ASSUME Listening, NEW i \in 1 .. Len(hosts), HostAnswers(i)
  PROVE  Listening'
  <1> USE SocketAssumption DEF Listening, HostAnswers, Sent, callVars, readerVars
  <1>1. CallTyped'
    BY DEF CallTyped, Fresh, Counted
  <1>2. ControlTyped'
    BY DEF ControlTyped, Fresh
  <1>3. TimeTyped'
    BY DEF TimeTyped, CallTyped, Late
  <1>4. HeardTyped'
    BY DEF HeardTyped, CallTyped, Fresh
  <1>5. AskedTyped'
    BY DEF AskedTyped, CallTyped, TimeTyped
  <1>6. Fresh'
    BY DEF Fresh
  <1>7. Counted'
    BY DEF Counted, CallTyped, AskedTyped, Fresh
  <1>8. Patient'
    BY DEF Patient, AskedTyped, TimeTyped, CallTyped, Fresh
  <1>9. Concluded'
    BY DEF Concluded, Counted, Fresh
  <1>10. HeardIsAlive'
    BY DEF HeardIsAlive, HeardTyped, Fresh
  <1> QED
    BY <1>1, <1>2, <1>3, <1>4, <1>5, <1>6, <1>7,
       <1>8, <1>9, <1>10

LEMMA ListeningRead ==
  ASSUME Listening, NEW p \in Arriving, ProbeRead(p)
  PROVE  Listening'
  <1> USE SocketAssumption DEF Listening, ProbeRead, Expected, callVars, askedVars
  <1>1. CallTyped'
    BY DEF CallTyped, Fresh, Counted
  <1>2. ControlTyped'
    BY DEF ControlTyped, Fresh
  <1>3. TimeTyped'
    BY DEF TimeTyped, CallTyped, Late
  <1>4. HeardTyped'
    BY DEF HeardTyped, Arriving
  <1>5. AskedTyped'
    BY DEF AskedTyped, CallTyped, TimeTyped
  <1>6. Fresh'
    BY DEF Fresh
  <1>7. Counted'
    BY DEF Counted, CallTyped, AskedTyped, Fresh
  <1>8. Patient'
    BY DEF Patient, AskedTyped, TimeTyped, CallTyped, Fresh
  <1>9. Concluded'
    BY DEF Concluded, Counted, Fresh
  <1>10. HeardIsAlive'
    BY DEF HeardIsAlive, Arriving
  <1> QED
    BY <1>1, <1>2, <1>3, <1>4, <1>5, <1>6, <1>7,
       <1>8, <1>9, <1>10

LEMMA ListeningReadTimeout ==
  ASSUME Listening, ProbeReadTimeout
  PROVE  Listening'
  <1> USE SocketAssumption DEF Listening, ProbeReadTimeout, callVars
  <1>1. CallTyped'
    BY DEF CallTyped, Fresh, Counted
  <1>2. ControlTyped'
    BY DEF ControlTyped, Fresh
  <1>3. TimeTyped'
    BY DEF TimeTyped, CallTyped, Late
  <1>4. HeardTyped'
    BY DEF HeardTyped, CallTyped, Fresh
  <1>5. AskedTyped'
    BY DEF AskedTyped, CallTyped, TimeTyped
  <1>6. Fresh'
    BY DEF Fresh
  <1>7. Counted'
    BY DEF Counted, CallTyped, AskedTyped, Fresh
  <1>8. Patient'
    BY DEF Patient, AskedTyped, TimeTyped, CallTyped, Fresh
  <1>9. Concluded'
    BY DEF Concluded, Counted, Fresh
  <1>10. HeardIsAlive'
    BY DEF HeardIsAlive, HeardTyped, Fresh
  <1> QED
    BY <1>1, <1>2, <1>3, <1>4, <1>5, <1>6, <1>7,
       <1>8, <1>9, <1>10

LEMMA ListeningReadFails ==
  ASSUME Listening, ProbeReadFails
  PROVE  Listening'
  <1> USE SocketAssumption DEF Listening, ProbeReadFails, ReadError, callVars, askedVars
  <1>1. CallTyped'
    BY DEF CallTyped, Fresh, Counted
  <1>2. ControlTyped'
    BY DEF ControlTyped, Fresh
  <1>3. TimeTyped'
    BY DEF TimeTyped, CallTyped, Late
  <1>4. HeardTyped'
    BY DEF HeardTyped, CallTyped, Fresh
  <1>5. AskedTyped'
    BY DEF AskedTyped, CallTyped, TimeTyped
  <1>6. Fresh'
    BY DEF Fresh
  <1>7. Counted'
    BY DEF Counted, CallTyped, AskedTyped, Fresh
  <1>8. Patient'
    BY DEF Patient, AskedTyped, TimeTyped, CallTyped, Fresh
  <1>9. Concluded'
    BY DEF Concluded, Counted, Fresh
  <1>10. HeardIsAlive'
    BY DEF HeardIsAlive, HeardTyped, Fresh
  <1> QED
    BY <1>1, <1>2, <1>3, <1>4, <1>5, <1>6, <1>7,
       <1>8, <1>9, <1>10

LEMMA ListeningReturn ==
  ASSUME Listening, ProbeReturn
  PROVE  Listening'
  <1> USE SocketAssumption DEF Listening, ProbeReturn, Returns, ReaderDone, readerVars, askedVars
  <1>1. CallTyped'
    BY DEF CallTyped, Fresh, Counted
  <1>2. ControlTyped'
    BY DEF ControlTyped, Fresh
  <1>3. TimeTyped'
    BY DEF TimeTyped, CallTyped, Late
  <1>4. HeardTyped'
    BY DEF HeardTyped, CallTyped, Fresh
  <1>5. AskedTyped'
    BY DEF AskedTyped, CallTyped, TimeTyped
  <1>6. Fresh'
    BY DEF Fresh
  <1>7. Counted'
    BY DEF Counted, CallTyped, AskedTyped, Fresh
  <1>8. Patient'
    BY DEF Patient, AskedTyped, TimeTyped, CallTyped, Fresh
  <1>9. Concluded'
    BY DEF Concluded, Counted, CallTyped, ControlTyped, Patient
  <1>10. HeardIsAlive'
    BY DEF HeardIsAlive, HeardTyped, Fresh
  <1> QED
    BY <1>1, <1>2, <1>3, <1>4, <1>5, <1>6, <1>7,
       <1>8, <1>9, <1>10

LEMMA ListeningTaken ==
  ASSUME Listening, ProbeTaken
  PROVE  Listening'
  <1> USE SocketAssumption DEF Listening, ProbeTaken
  <1>1. CallTyped'
    BY DEF CallTyped, Fresh, Counted
  <1>2. ControlTyped'
    BY DEF ControlTyped, Fresh
  <1>3. TimeTyped'
    BY DEF TimeTyped, CallTyped, Late, Never
  <1>4. HeardTyped'
    BY DEF HeardTyped, CallTyped, Fresh
  <1>5. AskedTyped'
    BY DEF AskedTyped, CallTyped, TimeTyped
  <1>6. Fresh'
    BY DEF Fresh
  <1>7. Counted'
    BY DEF Counted, CallTyped, AskedTyped, Fresh
  <1>8. Patient'
    BY DEF Patient, AskedTyped, TimeTyped, CallTyped, Fresh
  <1>9. Concluded'
    BY DEF Concluded, Counted, Fresh
  <1>10. HeardIsAlive'
    BY DEF HeardIsAlive, HeardTyped, Fresh
  <1> QED
    BY <1>1, <1>2, <1>3, <1>4, <1>5, <1>6, <1>7,
       <1>8, <1>9, <1>10

LEMMA ListeningRest ==
  ASSUME Listening, ProbeCancel \/ ProbeTick
  PROVE  Listening'
  <1> USE SocketAssumption DEF Listening, ProbeCancel, ProbeTick, callVars, readerVars, askedVars
  <1>1. CallTyped'
    BY DEF CallTyped, Fresh, Counted
  <1>2. ControlTyped'
    BY DEF ControlTyped, Fresh
  <1>3. TimeTyped'
    BY DEF TimeTyped, CallTyped, Late
  <1>4. HeardTyped'
    BY DEF HeardTyped, CallTyped, Fresh
  <1>5. AskedTyped'
    BY PacketTimes DEF AskedTyped, CallTyped, TimeTyped, Late
  <1>6. Fresh'
    BY DEF Fresh
  <1>7. Counted'
    BY DEF Counted, CallTyped, AskedTyped, Fresh
  <1>8. Patient'
    BY DEF Patient, AskedTyped, TimeTyped, CallTyped, Fresh
  <1>9. Concluded'
    BY DEF Concluded, Counted, Fresh
  <1>10. HeardIsAlive'
    BY DEF HeardIsAlive, HeardTyped, Fresh
  <1> QED
    BY <1>1, <1>2, <1>3, <1>4, <1>5, <1>6, <1>7,
       <1>8, <1>9, <1>10

LEMMA ListeningStep == Listening /\ [ProbeNext]_socketVars => Listening'
  <1> SUFFICES ASSUME Listening, [ProbeNext]_socketVars PROVE Listening'
    OBVIOUS
  <1>1. ASSUME NEW list \in HostLists, NEW t \in Timeouts, ProbeStart(list, t)
        PROVE  Listening'
    BY <1>1, ListeningStart
  <1>2. CASE Sender
    BY <1>2, ListeningListen, ListeningSend, ListeningGivesUp,
       ListeningSettle, ListeningReturn DEF Sender
  <1>3. ASSUME NEW i \in 1 .. Len(hosts), HostAnswers(i)
        PROVE  Listening'
    BY <1>3, ListeningAnswers
  <1>4. ASSUME NEW p \in Arriving, ProbeRead(p)
        PROVE  Listening'
    BY <1>4, ListeningRead
  <1>5. CASE ProbeReadTimeout \/ ProbeReadFails
    BY <1>5, ListeningReadTimeout, ListeningReadFails
  <1>6. CASE ProbeTaken \/ ProbeCancel \/ ProbeTick
    BY <1>6, ListeningTaken, ListeningRest
  <1>7. CASE UNCHANGED socketVars
    BY <1>7 DEF socketVars, callVars, readerVars, askedVars, Listening,
       CallTyped, ControlTyped, TimeTyped, Late, HeardTyped, AskedTyped, Fresh,
       Counted, Patient, Concluded, HeardIsAlive
  <1> QED
    BY <1>1, <1>2, <1>3, <1>4, <1>5, <1>6, <1>7 DEF ProbeNext

(* Every reachable state of a call is well typed, and nobody reads for one *)
(* that has returned.                                                      *)
THEOREM SocketTypeCorrect == ProbeSpec => []SocketTypeOK
  <1>1. Listening => SocketTypeOK
    <2> SUFFICES ASSUME Listening PROVE SocketTypeOK
      OBVIOUS
    <2>1. ControlTyped /\ HeardTyped
      BY DEF Listening
    <2>2. CallTyped /\ TimeTyped
      BY DEF Listening
    <2>3. /\ asked \in Seq([how : {"sent", "absent", "failed"}, at : Nat])
          /\ Len(asked) <= Len(hosts)
      BY <2>2 DEF Listening, AskedTyped, CallTyped, Packet
    <2> QED
      BY <2>1, <2>2, <2>3
      DEF SocketTypeOK, ControlTyped, HeardTyped, CallTyped, TimeTyped
  <1> QED
    BY <1>1, ListeningInit, ListeningStep, PTL DEF ProbeSpec

(* Whatever a raw socket hears - answers to earlier calls, answers that    *)
(* come twice or late, answers another host gives -, a host counts as      *)
(* heard only when it has itself answered a packet of this call.           *)
THEOREM HeardHasAnswered == ProbeSpec => []HeardIsAlive
  <1>1. Listening => HeardIsAlive
    BY DEF Listening
  <1> QED
    BY <1>1, ListeningInit, ListeningStep, PTL DEF ProbeSpec

(* A call without an error has asked every host and listened for the whole *)
(* settle window after the packet of each one it did not hear, or up to    *)
(* its ceiling, however its sender, its reader and the cancellation        *)
(* interleave.                                                             *)
THEOREM SilenceWasAwaited == ProbeSpec => []SilenceIsAwaited
  <1>1. Listening => SilenceIsAwaited
    <2> SUFFICES ASSUME Listening, call = "returned", err = "none",
                        NEW i \in 1 .. Len(hosts)
                 PROVE  \/ i \in DOMAIN asked /\ asked[i].how = "absent"
                        \/ /\ Sent(i)
                           /\ \/ heardUntil >= asked[i].at + Settle
                              \/ heardUntil >= timeout
      BY DEF SilenceIsAwaited
    <2>1. /\ reader = "done" /\ undelivered = 0 /\ next = Len(hosts) + 1
          /\ Len(hosts) \in Nat
      BY DEF Listening, Concluded, CallTyped
    <2>2. /\ Len(asked) = Len(hosts) /\ asked \in Seq(Packet)
          /\ asked[i].how # "failed"
      BY <2>1 DEF Listening, Counted, AskedTyped
    <2>3. i \in DOMAIN asked /\ asked[i] \in Packet
      BY <2>2
    <2>4. heardUntil >= asked[i].at + Settle \/ heardUntil >= timeout
      BY <2>1, <2>2, <2>3, SocketAssumption
      DEF Listening, Patient, TimeTyped, CallTyped, Packet
    <2> QED
      BY <2>2, <2>3, <2>4 DEF Sent, Packet
  <1> QED
    BY <1>1, ListeningInit, ListeningStep, PTL DEF ProbeSpec
=============================================================================
