-------------------------- MODULE ProbeRoundProofs --------------------------
(***************************************************************************)
(* Theorems about ProbeRound, for any devices, addresses, networks and     *)
(* targets, and any number of rounds and of changes of the network.        *)
(***************************************************************************)
EXTENDS ProbeRound, TLAPS

USE DEF NoAddresses, Unasked

(* TypeOK in the groups the provers can take.                              *)
PlaceTyped ==
  /\ pc \in {"idle", "probe", "read", "again", "verify", "decide", "sweep",
             "record", "done"}
  /\ err \in {"none", "offLAN", "failed", "noProbe", "partly"}

FlagsTyped == discoveryDue \in BOOLEAN /\ failed \in BOOLEAN

SetsTyped ==
  /\ due \subseteq ID /\ moved \subseteq due
  /\ replied \subseteq Address /\ unnamed \subseteq Address
  /\ strayed \subseteq Address
  /\ todo \subseteq Network /\ scanned \subseteq Network
  /\ sweeping \in Network \cup {None}
  /\ present \subseteq Device \X Address

TablesTyped ==
  /\ table \in [Address -> Device \cup {None}]
  /\ notAsked \in [{"first", "again", "sweep"} -> SUBSET Address]
  /\ cutOff \in [{"first", "again", "sweep"} -> SUBSET Address]
  /\ IsPartial(devices, Address, Device \cup {None})

ReportTyped ==
  /\ IsPartial(observations, due, Observation)
  /\ \A id \in DOMAIN observations :
       observations[id].online <=> observations[id].ip # None
  /\ IsPartial(elsewhere, moved, Address)

BoundsTyped == rounds \in Nat /\ moves \in Nat

(* What is empty until a step of the round has filled it.                  *)
Blank ==
  /\ pc \notin {"read", "verify", "record"} => replied = {} /\ err = "none"
  /\ pc \in {"idle", "probe", "read"} =>
       observations = NoMap /\ moved = {} /\ elsewhere = NoMap
  /\ pc \in {"idle", "probe", "read", "again"} =>
       Unasked("again") = {} /\ strayed = {}
  /\ pc \notin {"sweep", "record", "done"} =>
       /\ devices = NoMap /\ todo = {} /\ scanned = {}
       /\ Unasked("sweep") = {}
  /\ pc = "idle" => due = {} /\ ~failed
  /\ pc = "record" => sweeping \in Network

Tidy ==
  /\ LanTypeOK /\ PlaceTyped /\ FlagsTyped /\ SetsTyped /\ TablesTyped
  /\ ReportTyped /\ BoundsTyped
  /\ Blank

(* Where the devices are is on record, and the table tells the truth about *)
(* those that have just answered.                                          *)
Witnessed ==
  /\ pc # "idle" =>
       \A d \in Device : home[d] # None => <<d, home[d]>> \in present
  /\ \A a \in replied :
       /\ \E d \in Device : <<d, a>> \in present
       /\ arp[a] # None => <<arp[a], a>> \in present

(* What a silent target, or the want of an error, says of the probes.      *)
Asked ==
  /\ pc = "read" /\ err = "none" => Unasked("first") = {}
  /\ (\E id \in DOMAIN observations : ~observations[id].online) =>
       Unasked("first") = {}
  /\ pc = "verify" =>
       \A a \in Unasked("again") : err # "none" /\ a \notin replied

(* Every silent target is one that has moved, and only a target with a MAC *)
(* is looked for elsewhere.                                                *)
Missing ==
  /\ \A id \in DOMAIN observations : ~observations[id].online => id \in moved
  /\ \A id \in DOMAIN elsewhere : mac[id] # None

(* The networks of a sweep are visited one by one, each once.              *)
Visited ==
  /\ todo \cap scanned = {}
  /\ pc = "record" => sweeping \notin todo \cup scanned
  /\ \A network \in todo : AddressesOf(network) \cap Unasked("sweep") = {}
  /\ pc = "record" /\ err = "none" =>
       AddressesOf(sweeping) \cap Unasked("sweep") = {}

(* Until the second probe has come to nothing, nobody due is left out      *)
(* unless the first one failed.                                            *)
Complete ==
  /\ pc = "read" => err \in {"none", "failed"} /\ (err = "failed" => failed)
  /\ pc \in {"again", "verify"} => due = DOMAIN observations
  /\ pc = "verify" /\ err # "none" =>
       failed \/ strayed # {}
-----------------------------------------------------------------------------
(* What the operators of the network come to. *)

LEMMA HolderIsThere ==
  ASSUME NEW a, Occupied(a)
  PROVE  HolderOf(a) \in Device /\ home[HolderOf(a)] = a
  BY DEF Occupied, HolderOf

LEMMA WireParts ==
  ASSUME NEW hosts, NEW outcome \in Wire(hosts)
  PROVE  /\ outcome.heard \subseteq hosts
         /\ outcome.cut \subseteq hosts
         /\ NotAsked(hosts, outcome) \subseteq hosts \ outcome.heard
         /\ outcome.socket = "fine" /\ outcome.unsent = {} =>
              NotAsked(hosts, outcome) \subseteq outcome.cut
         /\ \A a \in outcome.heard : Occupied(a)
  BY DEF Wire, NotAsked

LEMMA ProbeErrors ==
  ASSUME NEW hosts, NEW outcome \in Wire(Askable(hosts))
  PROVE  /\ ProbeError(hosts, outcome) \in {"none", "offLAN", "failed"}
         /\ ProbeError(hosts, outcome) # "failed" =>
              NotAsked(Askable(hosts), outcome) \subseteq outcome.cut
         /\ ProbeError(hosts, outcome) = "offLAN" =>
              hosts \ Askable(hosts) # {}
  BY WireParts DEF ProbeError, Undelivered, Askable

LEMMA SweepErrors ==
  ASSUME NEW hosts, NEW outcome \in Wire(hosts)
  PROVE  /\ SweepError(outcome) \in {"none", "noProbe", "failed", "partly"}
         /\ SweepError(outcome) = "none" =>
              NotAsked(hosts, outcome) \subseteq outcome.cut
  <1>1. outcome.socket \in {"fine", "refused", "broken"}
    BY DEF Wire
  <1> QED
    BY <1>1, WireParts DEF SweepError, Undelivered

LEMMA HeardTyped ==
  ASSUME LanTypeOK, NEW outcome, Heard(outcome), UNCHANGED <<home, attached>>,
         \A a \in outcome.heard : Occupied(a)
  PROVE  LanTypeOK'
  BY HolderIsThere DEF LanTypeOK, Heard

LEMMA ChangesTyped ==
  ASSUME LanTypeOK, LanChanges
  PROVE  LanTypeOK'
  <1> USE LanAssumption DEF LanTypeOK
  <1>1. ASSUME NEW d \in Device, NEW a \in Address \cup {None}, Move(d, a)
        PROVE  LanTypeOK'
    BY <1>1 DEF Move
  <1>2. ASSUME NEW d \in Device, Announce(d)
        PROVE  LanTypeOK'
    BY <1>2 DEF Announce
  <1>3. ASSUME NEW a \in Address, Evict(a)
        PROVE  LanTypeOK'
    BY <1>3 DEF Evict
  <1>4. ASSUME NEW network \in Network, Leave(network) \/ Join(network)
        PROVE  LanTypeOK'
    BY <1>4 DEF Leave, Join
  <1> QED
    BY <1>1, <1>2, <1>3, <1>4 DEF LanChanges

LEMMA EmptyMap ==
  /\ DOMAIN NoMap = {}
  /\ \A S, T : IsPartial(NoMap, S, T)
  /\ \A S : [x \in S |-> None] \in [S -> {None}]
  BY DEF NoMap, IsPartial

LEMMA Observations ==
  /\ Offline \in Observation /\ ~Offline.online /\ Offline.ip = None
  /\ \A a \in Address :
       /\ Online(a) \in Observation /\ Online(a).online
       /\ Online(a).ip = a /\ a # None
  BY LanAssumption DEF Offline, Online, Observation

-----------------------------------------------------------------------------
(* Typing, and what is empty when. *)

LEMMA TidyInit == Init => Tidy
  <1> SUFFICES ASSUME Init PROVE Tidy
    OBVIOUS
  <1> USE LanAssumption, EmptyMap DEF Init
  <1>1. LanTypeOK
    BY DEF LanInit, LanTypeOK
  <1>2. PlaceTyped
    BY DEF PlaceTyped
  <1>3. FlagsTyped
    BY DEF FlagsTyped
  <1>4. SetsTyped
    BY DEF SetsTyped
  <1>5. TablesTyped
    BY DEF TablesTyped, NoTable
  <1>6. ReportTyped
    BY DEF ReportTyped
  <1>7. BoundsTyped
    BY DEF BoundsTyped
  <1>8. Blank
    BY DEF Blank
  <1> QED
    BY <1>1, <1>2, <1>3, <1>4, <1>5, <1>6, <1>7, <1>8 DEF Tidy

LEMMA TidyBegin ==
  ASSUME Tidy, NEW ids \in SUBSET ID, Begin(ids)
  PROVE  Tidy'
  <1> USE LanAssumption, RoundAssumption
      DEF Tidy, Begin, lanVars
  <1>1. LanTypeOK'
    BY DEF LanTypeOK, lanVars
  <1>2. PlaceTyped'
    BY DEF PlaceTyped, Blank
  <1>3. FlagsTyped'
    BY DEF FlagsTyped
  <1>4. SetsTyped'
    BY DEF SetsTyped, Blank, LanTypeOK
  <1>5. TablesTyped'
    BY DEF TablesTyped
  <1>6. ReportTyped'
    BY EmptyMap DEF ReportTyped, Blank
  <1>7. BoundsTyped'
    BY DEF BoundsTyped
  <1>8. Blank'
    BY DEF Blank
  <1> QED
    BY <1>1, <1>2, <1>3, <1>4, <1>5, <1>6, <1>7, <1>8

LEMMA TidyFirstProbe ==
  ASSUME Tidy, FirstProbe
  PROVE  Tidy'
  <1> USE LanAssumption, RoundAssumption
      DEF Tidy, FirstProbe, StandingLoss
  <1>0. PICK outcome \in Wire(Askable(Known)) :
          /\ replied' = outcome.heard
          /\ Heard(outcome)
          /\ err' = IF ProbeError(Known, outcome) = "offLAN" THEN "none"
                    ELSE ProbeError(Known, outcome)
          /\ notAsked' = [notAsked EXCEPT
                            !["first"] = NotAsked(Askable(Known), outcome)]
          /\ cutOff' = [cutOff EXCEPT !["first"] = outcome.cut]
          /\ failed' = (ProbeError(Known, outcome) = "failed")
    BY DEF Known, Candidates
  <1>a. Askable(Known) \subseteq Address
    BY DEF Askable, Known, SetsTyped
  <1>1. LanTypeOK'
    BY <1>0, WireParts, HeardTyped
  <1>2. PlaceTyped'
    BY <1>0, ProbeErrors DEF PlaceTyped
  <1>3. FlagsTyped'
    BY <1>0 DEF FlagsTyped
  <1>4. SetsTyped'
    BY <1>0, <1>a, WireParts DEF SetsTyped
  <1>5. TablesTyped'
    BY <1>0, <1>a, WireParts DEF TablesTyped
  <1>6. ReportTyped'
    BY DEF ReportTyped, SetsTyped, IsPartial
  <1>7. BoundsTyped'
    BY DEF BoundsTyped
  <1>8. Blank'
    BY <1>0 DEF Blank, TablesTyped
  <1> QED
    BY <1>1, <1>2, <1>3, <1>4, <1>5, <1>6, <1>7, <1>8

LEMMA TidyReadTable ==
  ASSUME Tidy, ReadTable
  PROVE  Tidy'
  <1> USE LanAssumption, RoundAssumption, EmptyMap
      DEF Tidy, ReadTable, lanVars
  <1>1. LanTypeOK'
    BY DEF LanTypeOK, lanVars
  <1>2. PlaceTyped'
    BY DEF PlaceTyped, Blank
  <1>3. FlagsTyped'
    BY DEF FlagsTyped
  <1>4. SetsTyped'
    BY DEF SetsTyped
  <1>5. TablesTyped'
    BY DEF TablesTyped, NoTable, LanTypeOK
  <1>6. ReportTyped'
    <2> DEFINE here == {id \in due : Answers(id, arp)}
    <2>1. /\ DOMAIN observations' \subseteq due
          /\ \A id \in DOMAIN observations' :
               observations'[id] \in {Online(ip[id]), Offline}
      OBVIOUS
    <2>2. \A id \in DOMAIN observations' : ip[id] \in Address
      BY <2>1 DEF SetsTyped
    <2>3. \A id \in DOMAIN observations' :
            /\ observations'[id] \in Observation
            /\ observations'[id].online <=> observations'[id].ip # None
      BY <2>1, <2>2, Observations
    <2>4. IsPartial(elsewhere', moved', Address)
      <3>1. CASE err # "none"
        BY <3>1 DEF Blank
      <3>2. CASE err = "none"
        <4>1. moved' = due \ here
          BY <3>2
        <4>2. PICK w \in Where(arp) :
                elsewhere' =
                  [id \in {i \in due \ here : /\ Offers(i, arp) # {}
                                             /\ w[mac[i]] # ip[i]}
                     |-> w[mac[id]]]
          BY <3>2
        <4>3. \A id \in due : Offers(id, arp) # {} => w[mac[id]] \in Address
          BY DEF Offers, Where, SetsTyped
        <4> QED
          BY <4>1, <4>2, <4>3 DEF IsPartial
      <3> QED
        BY <3>1, <3>2
    <2> QED
      BY <2>1, <2>3, <2>4 DEF ReportTyped, IsPartial
  <1>7. BoundsTyped'
    BY DEF BoundsTyped
  <1>8. Blank'
    BY DEF Blank
  <1> QED
    BY <1>1, <1>2, <1>3, <1>4, <1>5, <1>6, <1>7, <1>8

LEMMA TidySecondProbe ==
  ASSUME Tidy, SecondProbe
  PROVE  Tidy'
  <1> USE LanAssumption, RoundAssumption
      DEF Tidy, SecondProbe, StandingLoss
  <1>0. PICK outcome \in Wire(Askable(Candidates)) :
          /\ replied' = outcome.heard
          /\ Heard(outcome)
          /\ err' = ProbeError(Candidates, outcome)
          /\ notAsked' = [notAsked EXCEPT
                            !["again"] = NotAsked(Askable(Candidates), outcome)]
          /\ cutOff' = [cutOff EXCEPT !["again"] = outcome.cut]
          /\ failed' = (err' = "failed")
    BY DEF Known, Candidates
  <1>a. Candidates \subseteq Address /\ Askable(Candidates) \subseteq Address
    BY DEF Askable, Candidates, ReportTyped, IsPartial
  <1>1. LanTypeOK'
    BY <1>0, WireParts, HeardTyped
  <1>2. PlaceTyped'
    BY <1>0, ProbeErrors DEF PlaceTyped
  <1>3. FlagsTyped'
    BY <1>0 DEF FlagsTyped
  <1>4. SetsTyped'
    BY <1>0, <1>a, WireParts DEF SetsTyped
  <1>5. TablesTyped'
    BY <1>0, <1>a, WireParts DEF TablesTyped
  <1>6. ReportTyped'
    BY DEF ReportTyped, SetsTyped, IsPartial
  <1>7. BoundsTyped'
    BY DEF BoundsTyped
  <1>8. Blank'
    BY <1>0 DEF Blank, TablesTyped
  <1> QED
    BY <1>1, <1>2, <1>3, <1>4, <1>5, <1>6, <1>7, <1>8

LEMMA TidyVerify ==
  ASSUME Tidy, Verify
  PROVE  Tidy'
  <1> USE LanAssumption, RoundAssumption, EmptyMap, Observations
      DEF Tidy, Verify, Withheld, Fresh, lanVars, historyVars
  <1>1. LanTypeOK'
    BY DEF LanTypeOK, lanVars
  <1>2. PlaceTyped'
    BY DEF PlaceTyped, Blank
  <1>3. FlagsTyped'
    BY DEF FlagsTyped
  <1>4. SetsTyped'
    BY DEF SetsTyped
  <1>5. TablesTyped'
    BY DEF TablesTyped, NoTable
  <1>6. ReportTyped'
    BY DEF ReportTyped, SetsTyped, IsPartial
  <1>7. BoundsTyped'
    BY DEF BoundsTyped
  <1>8. Blank'
    BY DEF Blank
  <1> QED
    BY <1>1, <1>2, <1>3, <1>4, <1>5, <1>6, <1>7, <1>8

LEMMA TidyStartSweep ==
  ASSUME Tidy, StartSweep
  PROVE  Tidy'
  <1> USE LanAssumption, RoundAssumption
      DEF Tidy, StartSweep, lanVars, historyVars
  <1>1. LanTypeOK'
    BY DEF LanTypeOK, lanVars
  <1>2. PlaceTyped'
    BY DEF PlaceTyped, Blank
  <1>3. FlagsTyped'
    BY DEF FlagsTyped
  <1>4. SetsTyped'
    BY DEF SetsTyped, LanTypeOK
  <1>5. TablesTyped'
    BY DEF TablesTyped
  <1>6. ReportTyped'
    BY DEF ReportTyped, SetsTyped, IsPartial
  <1>7. BoundsTyped'
    BY DEF BoundsTyped
  <1>8. Blank'
    BY DEF Blank
  <1> QED
    BY <1>1, <1>2, <1>3, <1>4, <1>5, <1>6, <1>7, <1>8

LEMMA TidyNoSweep ==
  ASSUME Tidy, NoSweep
  PROVE  Tidy'
  <1> USE LanAssumption, RoundAssumption
      DEF Tidy, NoSweep, lanVars, roundVars, historyVars
  <1>1. LanTypeOK'
    BY DEF LanTypeOK, lanVars
  <1>2. PlaceTyped'
    BY DEF PlaceTyped, Blank
  <1>3. FlagsTyped'
    BY DEF FlagsTyped
  <1>4. SetsTyped'
    BY DEF SetsTyped
  <1>5. TablesTyped'
    BY DEF TablesTyped
  <1>6. ReportTyped'
    BY DEF ReportTyped, SetsTyped, IsPartial
  <1>7. BoundsTyped'
    BY DEF BoundsTyped
  <1>8. Blank'
    BY DEF Blank
  <1> QED
    BY <1>1, <1>2, <1>3, <1>4, <1>5, <1>6, <1>7, <1>8

LEMMA TidySweepNetwork ==
  ASSUME Tidy, NEW network \in Network, SweepNetwork(network)
  PROVE  Tidy'
  <1> USE LanAssumption, RoundAssumption
      DEF Tidy, SweepNetwork
  <1>0. PICK outcome \in Wire(AddressesOf(network)) :
          /\ replied' = outcome.heard
          /\ Heard(outcome)
          /\ err' = SweepError(outcome)
          /\ notAsked' =
               [notAsked EXCEPT !["sweep"] =
                  @ \cup NotAsked(AddressesOf(network), outcome)]
          /\ cutOff' = [cutOff EXCEPT !["sweep"] = @ \cup outcome.cut]
    OBVIOUS
  <1>a. AddressesOf(network) \subseteq Address
    BY DEF AddressesOf
  <1>1. LanTypeOK'
    BY <1>0, WireParts, HeardTyped
  <1>2. PlaceTyped'
    BY <1>0, SweepErrors DEF PlaceTyped
  <1>3. FlagsTyped'
    BY DEF FlagsTyped
  <1>4. SetsTyped'
    BY <1>0, <1>a, WireParts DEF SetsTyped
  <1>5. TablesTyped'
    BY <1>0, <1>a, WireParts DEF TablesTyped
  <1>6. ReportTyped'
    BY DEF ReportTyped, SetsTyped, IsPartial
  <1>7. BoundsTyped'
    BY DEF BoundsTyped
  <1>8. Blank'
    BY <1>0 DEF Blank, TablesTyped
  <1> QED
    BY <1>1, <1>2, <1>3, <1>4, <1>5, <1>6, <1>7, <1>8

LEMMA TidyRecord ==
  ASSUME Tidy, Record
  PROVE  Tidy'
  <1> USE LanAssumption, RoundAssumption
      DEF Tidy, Record, Seen, Covered, lanVars, historyVars
  <1>1. LanTypeOK'
    BY DEF LanTypeOK, lanVars
  <1>2. PlaceTyped'
    BY DEF PlaceTyped, Blank
  <1>3. FlagsTyped'
    BY DEF FlagsTyped
  <1>4. SetsTyped'
    BY DEF SetsTyped, Blank
  <1>5. TablesTyped'
    BY DEF TablesTyped, IsPartial, SetsTyped, LanTypeOK
  <1>6. ReportTyped'
    BY DEF ReportTyped, SetsTyped, IsPartial
  <1>7. BoundsTyped'
    BY DEF BoundsTyped
  <1>8. Blank'
    BY DEF Blank
  <1> QED
    BY <1>1, <1>2, <1>3, <1>4, <1>5, <1>6, <1>7, <1>8

LEMMA TidyRescue ==
  ASSUME Tidy, Rescue
  PROVE  Tidy'
  <1> USE LanAssumption, RoundAssumption, EmptyMap, Observations
      DEF Tidy, Rescue, lanVars, historyVars
  <1>1. LanTypeOK'
    BY DEF LanTypeOK, lanVars
  <1>2. PlaceTyped'
    BY DEF PlaceTyped, Blank
  <1>3. FlagsTyped'
    BY DEF FlagsTyped
  <1>4. SetsTyped'
    BY DEF SetsTyped
  <1>5. TablesTyped'
    BY DEF TablesTyped
  <1>6. ReportTyped'
    BY DEF ReportTyped, SetsTyped, IsPartial
  <1>7. BoundsTyped'
    BY DEF BoundsTyped
  <1>8. Blank'
    BY DEF Blank
  <1> QED
    BY <1>1, <1>2, <1>3, <1>4, <1>5, <1>6, <1>7, <1>8

LEMMA TidyEnd ==
  ASSUME Tidy, End
  PROVE  Tidy'
  <1> USE LanAssumption, RoundAssumption, EmptyMap
      DEF Tidy, End, lanVars
  <1>1. LanTypeOK'
    BY DEF LanTypeOK, lanVars
  <1>2. PlaceTyped'
    BY DEF PlaceTyped, Blank
  <1>3. FlagsTyped'
    BY DEF FlagsTyped
  <1>4. SetsTyped'
    BY DEF SetsTyped
  <1>5. TablesTyped'
    BY DEF TablesTyped, NoTable
  <1>6. ReportTyped'
    BY DEF ReportTyped, SetsTyped, IsPartial
  <1>7. BoundsTyped'
    BY DEF BoundsTyped
  <1>8. Blank'
    BY DEF Blank, TablesTyped
  <1> QED
    BY <1>1, <1>2, <1>3, <1>4, <1>5, <1>6, <1>7, <1>8

LEMMA TidyEnvironment ==
  ASSUME Tidy, Environment
  PROVE  Tidy'
  <1> USE LanAssumption, RoundAssumption
      DEF Tidy, Environment, roundVars
  <1>1. LanTypeOK'
    BY ChangesTyped
  <1>2. PlaceTyped'
    BY DEF PlaceTyped, Blank
  <1>3. FlagsTyped'
    BY DEF FlagsTyped
  <1>4. SetsTyped'
    <2>1. home' \in [Device -> Address \cup {None}]
      BY ChangesTyped DEF LanTypeOK
    <2>2. {<<d, home'[d]>> : d \in {e \in Device : home'[e] # None}}
            \subseteq Device \X Address
      BY <2>1
    <2> QED
      BY <2>2 DEF SetsTyped
  <1>5. TablesTyped'
    BY DEF TablesTyped
  <1>6. ReportTyped'
    BY DEF ReportTyped, SetsTyped, IsPartial
  <1>7. BoundsTyped'
    BY DEF BoundsTyped
  <1>8. Blank'
    BY DEF Blank
  <1> QED
    BY <1>1, <1>2, <1>3, <1>4, <1>5, <1>6, <1>7, <1>8

LEMMA TidyStep == Tidy /\ [Next]_vars => Tidy'
  <1> SUFFICES ASSUME Tidy, [Next]_vars PROVE Tidy'
    OBVIOUS
  <1>1. ASSUME NEW ids \in SUBSET ID, Begin(ids)
        PROVE  Tidy'
    BY <1>1, TidyBegin
  <1>2. ASSUME NEW network \in Network, SweepNetwork(network)
        PROVE  Tidy'
    BY <1>2, TidySweepNetwork
  <1>3. CASE FirstProbe \/ ReadTable \/ SecondProbe \/ Verify
    BY <1>3, TidyFirstProbe, TidyReadTable, TidySecondProbe, TidyVerify
  <1>4. CASE StartSweep \/ NoSweep \/ Record \/ Rescue \/ End \/ Environment
    BY <1>4, TidyStartSweep, TidyNoSweep, TidyRecord, TidyRescue, TidyEnd,
       TidyEnvironment
  <1>5. CASE UNCHANGED vars
    BY <1>5 DEF vars, lanVars, roundVars, historyVars, Tidy, LanTypeOK,
       PlaceTyped, FlagsTyped, SetsTyped, TablesTyped, ReportTyped, BoundsTyped,
       Blank, IsPartial
  <1> QED
    BY <1>1, <1>2, <1>3, <1>4, <1>5 DEF Next

(* Every reachable state of a round is well typed: an observation is of a  *)
(* target of the round, and names an address exactly when it is online.    *)
THEOREM RoundTypeCorrect == Spec => []TypeOK
  <1>1. Tidy => TypeOK
    BY DEF Tidy, TypeOK, PlaceTyped, FlagsTyped, SetsTyped, TablesTyped,
       ReportTyped, BoundsTyped
  <1> QED
    BY <1>1, TidyInit, TidyStep, PTL DEF Spec
-----------------------------------------------------------------------------
(* Answers and devices. *)

LEMMA WitnessedProbe ==
  ASSUME Tidy, Witnessed, pc # "idle",
         NEW outcome, Heard(outcome), UNCHANGED <<home, present>>,
         replied' = outcome.heard, replied' \subseteq Address,
         \A a \in outcome.heard : Occupied(a)
  PROVE  Witnessed'
  <1>1. \A a \in replied' :
          /\ HolderOf(a) \in Device /\ <<HolderOf(a), a>> \in present
          /\ arp'[a] = HolderOf(a)
    BY HolderIsThere, LanAssumption DEF Witnessed, Heard
  <1> QED
    BY <1>1 DEF Witnessed

LEMMA WitnessedEnvironment ==
  ASSUME Tidy, Witnessed, Environment
  PROVE  Witnessed'
  <1> USE LanAssumption DEF Tidy, LanTypeOK, SetsTyped
  <1>1. CASE pc = "idle"
    BY <1>1 DEF Environment, roundVars, Blank, Witnessed
  <1>2. CASE pc # "idle"
    <2>1. /\ present \subseteq present' /\ replied' = replied /\ pc' = pc
          /\ \A d \in Device : home'[d] # None => <<d, home'[d]>> \in present'
      BY <1>2 DEF Environment, roundVars
    <2>2. \A a \in replied : arp'[a] # None => <<arp'[a], a>> \in present'
      <3>1. ASSUME NEW d \in Device, NEW a \in Address \cup {None}, Move(d, a)
            PROVE  arp' = arp
        BY <3>1 DEF Move
      <3>2. ASSUME NEW d \in Device, Announce(d), NEW a \in replied
            PROVE  arp'[a] = arp[a] \/ <<arp'[a], a>> \in present'
        BY <2>1, <3>2 DEF Announce
      <3>3. ASSUME NEW x \in Address, Evict(x), NEW a \in replied
            PROVE  arp'[a] \in {arp[a], None}
        BY <3>3 DEF Evict
      <3>4. ASSUME NEW network \in Network, Leave(network) \/ Join(network),
                   NEW a \in replied
            PROVE  arp'[a] \in {arp[a], None}
        BY <3>4 DEF Leave, Join
      <3>5. LanChanges
        BY DEF Environment
      <3> QED
        BY <2>1, <3>1, <3>2, <3>3, <3>4, <3>5 DEF LanChanges, Witnessed
    <2> QED
      BY <1>2, <2>1, <2>2 DEF Witnessed
  <1> QED
    BY <1>1, <1>2

LEMMA WitnessedStep ==
  ASSUME Tidy, Tidy', Witnessed, [Next]_vars
  PROVE  Witnessed'
  <1> USE DEF Tidy
  <1>1. ASSUME NEW ids \in SUBSET ID, Begin(ids)
        PROVE  Witnessed'
    BY <1>1 DEF Begin, Blank, lanVars, Witnessed
  <1>2. ASSUME NEW network \in Network, SweepNetwork(network)
        PROVE  Witnessed'
    <2>1. PICK outcome \in Wire(AddressesOf(network)) :
            replied' = outcome.heard /\ Heard(outcome)
      BY <1>2 DEF SweepNetwork
    <2> QED
      BY <1>2, <2>1, WireParts, WitnessedProbe DEF SweepNetwork, SetsTyped
  <1>3. CASE FirstProbe
    <2>1. PICK outcome \in Wire(Askable(Known)) :
            replied' = outcome.heard /\ Heard(outcome)
      BY <1>3 DEF FirstProbe
    <2> QED
      BY <1>3, <2>1, WireParts, WitnessedProbe DEF FirstProbe, SetsTyped
  <1>4. CASE SecondProbe
    <2>1. PICK outcome \in Wire(Askable(Candidates)) :
            replied' = outcome.heard /\ Heard(outcome)
      BY <1>4 DEF SecondProbe
    <2> QED
      BY <1>4, <2>1, WireParts, WitnessedProbe DEF SecondProbe, SetsTyped
  <1>5. CASE ReadTable \/ Verify \/ Record
    BY <1>5 DEF ReadTable, Verify, Record, lanVars, historyVars, Witnessed
  <1>6. CASE StartSweep \/ NoSweep \/ Rescue
    BY <1>6 DEF StartSweep, NoSweep, Rescue, lanVars, roundVars, historyVars,
                Witnessed
  <1>7. CASE End
    BY <1>7 DEF End, Witnessed
  <1>8. CASE Environment
    BY <1>8, WitnessedEnvironment
  <1>9. CASE UNCHANGED vars
    BY <1>9 DEF vars, lanVars, roundVars, historyVars, Witnessed
  <1> QED
    BY <1>1, <1>2, <1>3, <1>4, <1>5, <1>6, <1>7, <1>8, <1>9 DEF Next

LEMMA WitnessedInit == Init => Witnessed
  BY DEF Init, Witnessed

(* Within a round nothing is taken off the record of who was where.        *)
LEMMA RecordGrows ==
  ASSUME [Next]_vars, ~End
  PROVE  pc # "idle" => present \subseteq present'
  BY DEF Next, vars, lanVars, roundVars, historyVars, Begin, FirstProbe,
     ReadTable, SecondProbe, Verify, StartSweep, NoSweep, SweepNetwork, Record,
     Rescue, Environment

LEMMA DevicesStep ==
  ASSUME Tidy, Witnessed, DevicesWereThere, [Next]_vars
  PROVE  DevicesWereThere'
  <1> USE DEF Tidy, DevicesWereThere
  <1>1. CASE Record
    BY <1>1 DEF Record, Seen, lanVars, historyVars, Witnessed, LanTypeOK,
                SetsTyped
  <1>2. CASE End
    BY <1>2, EmptyMap DEF End
  <1>3. CASE pc = "idle"
    <2>1. devices' = devices /\ devices = NoMap
      BY <1>3 DEF Next, vars, lanVars, roundVars, historyVars, Begin, FirstProbe,
         ReadTable, SecondProbe, Verify, StartSweep, NoSweep, SweepNetwork,
         Record, Rescue, End, Environment, Blank
    <2> QED
      BY <2>1, EmptyMap
  <1>4. CASE pc # "idle" /\ ~Record /\ ~End
    <2>1. devices' = devices
      BY <1>4 DEF Next, vars, lanVars, roundVars, historyVars, Begin, FirstProbe,
         ReadTable, SecondProbe, Verify, StartSweep, NoSweep, SweepNetwork,
         Rescue, Environment
    <2> QED
      BY <1>4, <2>1, RecordGrows
  <1> QED
    BY <1>1, <1>2, <1>3, <1>4

(* Presence is what answered a probe sent in this round, under the MAC of  *)
(* the device that gave the answer, whatever moves or is forgotten between *)
(* the probe and the reading of the table.                                 *)
THEOREM PresenceIsProven == Spec => []DevicesWereThere
  <1>1. Init => DevicesWereThere
    BY EmptyMap DEF Init, DevicesWereThere
  <1>2. Tidy /\ Witnessed /\ DevicesWereThere /\ [Next]_vars => DevicesWereThere'
    BY DevicesStep
  <1>3. Tidy /\ Tidy' /\ Witnessed /\ [Next]_vars => Witnessed'
    BY WitnessedStep
  <1> QED
    BY <1>1, <1>2, <1>3, TidyInit, TidyStep, WitnessedInit, PTL DEF Spec
LEMMA IdentityStep ==
  ASSUME Tidy, Witnessed, DevicesWereThere, OnlineIsTheDevice, [Next]_vars
  PROVE  OnlineIsTheDevice'
  <1> USE RoundAssumption DEF Tidy, OnlineIsTheDevice
  <1>1. CASE ReadTable
    <2> DEFINE here == {id \in due : Answers(id, arp)}
    <2>1. \A id \in DOMAIN observations' :
            \/ id \in here /\ observations'[id] = Online(ip[id])
            \/ observations'[id] = Offline
      BY <1>1 DEF ReadTable
    <2>2. ASSUME NEW id \in here, mac[id] # None
          PROVE  <<mac[id], ip[id]>> \in present \/ ip[id] \in unnamed'
      BY <1>1, <2>2 DEF ReadTable, Answers, IsTheSameDevice, Witnessed
    <2>3. present' = present
      BY <1>1 DEF ReadTable
    <2> QED
      BY <2>1, <2>2, <2>3 DEF Online, Offline
  <1>2. CASE Verify
    <2>1. \A id \in DOMAIN observations' :
            \/ id \in DOMAIN observations /\ observations'[id] = observations[id]
            \/ /\ id \in DOMAIN elsewhere /\ elsewhere[id] \in replied
               /\ arp[elsewhere[id]] = mac[id]
               /\ observations'[id] = Online(elsewhere[id])
      BY <1>2 DEF Verify, Fresh
    <2>2. present' = present /\ unnamed' = unnamed
      BY <1>2 DEF Verify, historyVars
    <2> QED
      BY <2>1, <2>2 DEF Online, Witnessed
  <1>3. CASE Rescue
    <2>1. \A id \in DOMAIN observations' :
            \/ id \in DOMAIN observations /\ observations'[id] = observations[id]
            \/ \E a \in FoundAt(id) : observations'[id] = Online(a)
      BY <1>3 DEF Rescue
    <2>2. \A id, a : mac[id] # None /\ a \in FoundAt(id) =>
            <<mac[id], a>> \in present
      BY DEF FoundAt, DevicesWereThere
    <2>3. present' = present /\ unnamed' = unnamed
      BY <1>3 DEF Rescue, historyVars
    <2> QED
      BY <2>1, <2>2, <2>3 DEF Online
  <1>4. CASE End
    BY <1>4, EmptyMap DEF End
  <1>5. CASE pc = "idle"
    <2>1. observations' = observations /\ observations = NoMap
      BY <1>5 DEF Next, vars, roundVars, Begin, FirstProbe,
         ReadTable, SecondProbe, Verify, StartSweep, NoSweep, SweepNetwork,
         Record, Rescue, End, Environment, Blank
    <2> QED
      BY <2>1, EmptyMap
  <1>6. CASE pc # "idle" /\ ~ReadTable /\ ~Verify /\ ~Rescue /\ ~End
    <2>1. observations' = observations /\ unnamed' = unnamed
      BY <1>6 DEF Next, vars, roundVars, historyVars, Begin, FirstProbe,
         SecondProbe, StartSweep, NoSweep, SweepNetwork, Record, Environment
    <2> QED
      BY <1>6, <2>1, RecordGrows
  <1> QED
    BY <1>1, <1>2, <1>3, <1>4, <1>5, <1>6

(* A target whose MAC is known is only reported online where that very     *)
(* device was during the round, unless the kernel could not say who held   *)
(* its own address: by the first probe, by the second, or by the sweep.    *)
THEOREM AddressIsNoIdentity == Spec => []OnlineIsTheDevice
  <1>1. Init => OnlineIsTheDevice /\ DevicesWereThere
    BY EmptyMap DEF Init, OnlineIsTheDevice, DevicesWereThere
  <1>2. Tidy /\ Witnessed /\ DevicesWereThere /\ OnlineIsTheDevice /\ [Next]_vars
          => OnlineIsTheDevice'
    BY IdentityStep
  <1>3. Tidy /\ Tidy' /\ Witnessed /\ [Next]_vars => Witnessed'
    BY WitnessedStep
  <1> QED
    BY <1>1, <1>2, <1>3, TidyInit, TidyStep, WitnessedInit, PresenceIsProven,
       PTL DEF Spec

-----------------------------------------------------------------------------
(* Silence. *)

(* What the reading of the table after the first probe comes to. *)
LEMMA ReadTableOutcome ==
  ASSUME Tidy, ReadTable
  PROVE  /\ \A id \in DOMAIN observations' :
              ~observations'[id].online => err = "none" /\ id \in moved'
         /\ \A id \in DOMAIN elsewhere' : mac[id] # None
         /\ err = "none" => DOMAIN observations' = due
         /\ \/ pc' = "again" /\ err = "none"
            \/ pc' = "decide" /\ elsewhere' = NoMap
         /\ notAsked' = notAsked /\ cutOff' = cutOff /\ due' = due
         /\ failed' = failed /\ strayed' = strayed
  <1> USE RoundAssumption DEF Tidy
  <1> DEFINE here == {id \in due : Answers(id, arp)}
  <1>1. \A id \in here : Online(ip[id]).online
    BY Observations DEF SetsTyped
  <1>2. /\ \/ pc' = "again"
           \/ pc' = "decide" /\ elsewhere' = NoMap
        /\ elsewhere' = NoMap => pc' = "decide"
        /\ notAsked' = notAsked /\ cutOff' = cutOff /\ due' = due
        /\ failed' = failed /\ strayed' = strayed
    <2>1. IF elsewhere' = NoMap THEN pc' = "decide" /\ table' = NoTable
                               ELSE pc' = "again" /\ table' = arp
      BY DEF ReadTable
    <2>2. /\ notAsked' = notAsked /\ cutOff' = cutOff /\ due' = due
          /\ failed' = failed /\ strayed' = strayed
      BY DEF ReadTable
    <2> QED
      BY <2>1, <2>2
  <1>3. CASE err # "none"
    <2>1. observations' = [id \in here |-> Online(ip[id])]
      BY <1>3 DEF ReadTable
    <2>2. elsewhere' = NoMap
      BY <1>3 DEF ReadTable, Blank
    <2> QED
      BY <1>1, <1>3, <1>2, <2>1, <2>2, EmptyMap
  <1>4. CASE err = "none"
    <2>1. /\ moved' = due \ here
          /\ observations' = [id \in due |-> IF id \in here
                                             THEN Online(ip[id]) ELSE Offline]
      BY <1>4 DEF ReadTable
    <2>2. PICK w \in Where(arp) :
            elsewhere' =
              [id \in {i \in due \ here : /\ Offers(i, arp) # {}
                                         /\ w[mac[i]] # ip[i]} |-> w[mac[id]]]
      BY <1>4 DEF ReadTable
    <2>3. \A id \in DOMAIN elsewhere' : mac[id] # None
      BY <2>2 DEF Offers
    <2>4. DOMAIN observations' = due
      BY <2>1
    <2>5. \A id \in DOMAIN observations' :
            ~observations'[id].online => id \in moved'
      BY <1>1, <2>1
    <2> QED
      BY <1>4, <1>2, <2>3, <2>4, <2>5
  <1> QED
    BY <1>3, <1>4

LEMMA MissingStep ==
  ASSUME Tidy, Missing, [Next]_vars
  PROVE  Missing'
  <1> USE RoundAssumption, Observations DEF Tidy, Missing
  <1>1. CASE ReadTable
    BY <1>1, ReadTableOutcome
  <1>2. CASE Verify
    BY <1>2 DEF Verify, ReportTyped, IsPartial
  <1>3. CASE Rescue
    BY <1>3 DEF Rescue, FoundAt, TablesTyped, IsPartial
  <1>4. CASE End
    BY <1>4, EmptyMap DEF End
  <1>5. CASE ~ReadTable /\ ~Verify /\ ~Rescue /\ ~End
    BY <1>5 DEF Next, vars, roundVars, historyVars, Begin, FirstProbe,
       SecondProbe, StartSweep, NoSweep, SweepNetwork, Record, Environment
  <1> QED
    BY <1>1, <1>2, <1>3, <1>4, <1>5

LEMMA AskedStep ==
  ASSUME Tidy, Asked, [Next]_vars
  PROVE  Asked'
  <1> USE RoundAssumption, Observations DEF Tidy, Asked
  <1>1. CASE FirstProbe
    <2>1. PICK outcome \in Wire(Askable(Known)) :
            /\ err' = IF ProbeError(Known, outcome) = "offLAN" THEN "none"
                      ELSE ProbeError(Known, outcome)
            /\ notAsked' = [notAsked EXCEPT
                              !["first"] = NotAsked(Askable(Known), outcome)]
            /\ cutOff' = [cutOff EXCEPT !["first"] = outcome.cut]
      BY <1>1 DEF FirstProbe, StandingLoss
    <2> QED
      BY <1>1, <2>1, ProbeErrors, EmptyMap
      DEF FirstProbe, TablesTyped, Blank
  <1>2. CASE ReadTable
    BY <1>2, ReadTableOutcome DEF ReadTable
  <1>3. CASE SecondProbe
    <2>1. PICK outcome \in Wire(Askable(Candidates)) :
            /\ replied' = outcome.heard
            /\ err' = ProbeError(Candidates, outcome)
            /\ notAsked' = [notAsked EXCEPT
                              !["again"] = NotAsked(Askable(Candidates), outcome)]
            /\ cutOff' = [cutOff EXCEPT !["again"] = outcome.cut]
      BY <1>3 DEF SecondProbe
    <2> QED
      BY <1>3, <2>1, ProbeErrors, WireParts
      DEF SecondProbe, TablesTyped
  <1>4. CASE Verify
    BY <1>4 DEF Verify, historyVars, ReportTyped, IsPartial
  <1>5. CASE Rescue
    BY <1>5 DEF Rescue, historyVars, FoundAt, TablesTyped, IsPartial
  <1>6. CASE End
    BY <1>6, EmptyMap DEF End
  <1>7. ASSUME NEW network \in Network, SweepNetwork(network)
        PROVE  Asked'
    BY <1>7 DEF SweepNetwork, TablesTyped
  <1>8. CASE (\E ids \in SUBSET ID : Begin(ids)) \/ Environment \/ UNCHANGED vars
    BY <1>8 DEF Begin, Environment, vars, lanVars, roundVars, historyVars
  <1>9. CASE StartSweep \/ NoSweep \/ Record
    BY <1>9 DEF StartSweep, NoSweep, Record, roundVars, historyVars
  <1> QED
    BY <1>1, <1>2, <1>3, <1>4, <1>5, <1>6, <1>7, <1>8, <1>9 DEF Next

LEMMA SilentStep ==
  ASSUME Tidy, Asked, SilentWasAsked, [Next]_vars
  PROVE  SilentWasAsked'
  <1> USE RoundAssumption, Observations DEF Tidy, SilentWasAsked
  <1>1. CASE ReadTable
    BY <1>1, EmptyMap, ReadTableOutcome DEF ReadTable, Asked
  <1>2. CASE Verify
    BY <1>2 DEF Verify, Withheld, historyVars, Asked, ReportTyped, IsPartial
  <1>3. CASE Rescue
    BY <1>3 DEF Rescue, historyVars, FoundAt, TablesTyped, IsPartial
  <1>4. CASE End
    BY <1>4, EmptyMap DEF End
  <1>5. ASSUME NEW network \in Network, SweepNetwork(network)
        PROVE  SilentWasAsked'
    BY <1>5 DEF SweepNetwork, TablesTyped
  <1>6. ASSUME NEW ids \in SUBSET ID, Begin(ids)
        PROVE  SilentWasAsked'
    BY <1>6, EmptyMap DEF Begin, Blank
  <1>7. CASE FirstProbe \/ SecondProbe
    BY <1>7 DEF FirstProbe, SecondProbe
  <1>8. CASE Environment \/ UNCHANGED vars
    BY <1>8 DEF Environment, vars, roundVars, historyVars
  <1>9. CASE StartSweep \/ NoSweep \/ Record
    BY <1>9 DEF StartSweep, NoSweep, Record, roundVars, historyVars
  <1> QED
    BY <1>1, <1>2, <1>3, <1>4, <1>5, <1>6, <1>7, <1>8, <1>9 DEF Next

LEMMA SilenceInit == Init => Missing /\ Asked /\ SilentWasAsked
  BY EmptyMap DEF Init, Missing, Asked, SilentWasAsked

(* A target is only reported offline when it was asked at its own address, *)
(* or that address is on no attached network, and so too where the table   *)
(* had it: no failed probe, full buffer or broken socket is taken for      *)
(* absence, only a link or a route that has just gone.                     *)
THEOREM SilenceIsNoSendFailure == Spec => []SilentWasAsked
  <1>1. Tidy /\ Asked /\ [Next]_vars => Asked'
    BY AskedStep
  <1>2. Tidy /\ Asked /\ SilentWasAsked /\ [Next]_vars => SilentWasAsked'
    BY SilentStep
  <1> QED
    BY <1>1, <1>2, TidyInit, TidyStep, SilenceInit, PTL DEF Spec

LEMMA RescueStep ==
  ASSUME Tidy, Missing, MoveIsNoOutage, [Next]_vars
  PROVE  MoveIsNoOutage'
  <1> USE DEF Tidy, MoveIsNoOutage, FoundAt
  <1>1. CASE Rescue
    BY <1>1, Observations DEF Rescue, Missing, Unresolved, TablesTyped, IsPartial
  <1>2. CASE NoSweep
    BY <1>2, EmptyMap DEF NoSweep, roundVars, Blank
  <1>3. CASE UNCHANGED vars
    BY <1>3 DEF vars, roundVars
  <1>4. CASE ~Rescue /\ ~NoSweep /\ ~UNCHANGED vars
    BY <1>4 DEF Next, Begin, FirstProbe, ReadTable, SecondProbe, Verify,
       StartSweep, SweepNetwork, Record, End, Environment
  <1> QED
    BY <1>1, <1>2, <1>3, <1>4

(* A move is not reported as an outage: whoever the round's sweep found    *)
(* alive is not offline in its report.                                     *)
THEOREM MovedIsNotLost == Spec => []MoveIsNoOutage
  <1>1. Init => MoveIsNoOutage
    BY DEF Init, MoveIsNoOutage
  <1>2. Tidy /\ Missing /\ [Next]_vars => Missing'
    BY MissingStep
  <1>3. Tidy /\ Missing /\ MoveIsNoOutage /\ [Next]_vars => MoveIsNoOutage'
    BY RescueStep
  <1> QED
    BY <1>1, <1>2, <1>3, TidyInit, TidyStep, SilenceInit, PTL DEF Spec
-----------------------------------------------------------------------------
(* Coverage. *)

LEMMA VisitedStep ==
  ASSUME Tidy, Visited, ScannedIsCovered, [Next]_vars
  PROVE  Visited' /\ ScannedIsCovered'
  <1> USE LanAssumption DEF Tidy, Visited, ScannedIsCovered
  <1>1. ASSUME NEW network \in Network, SweepNetwork(network)
        PROVE  Visited' /\ ScannedIsCovered'
    <2>1. PICK outcome \in Wire(AddressesOf(network)) :
            /\ err' = SweepError(outcome)
            /\ notAsked' =
                 [notAsked EXCEPT !["sweep"] =
                    @ \cup NotAsked(AddressesOf(network), outcome)]
            /\ cutOff' = [cutOff EXCEPT !["sweep"] = @ \cup outcome.cut]
      BY <1>1 DEF SweepNetwork
    <2>2. /\ network \in todo /\ todo' = todo \ {network}
          /\ sweeping' = network /\ scanned' = scanned /\ pc' = "record"
      BY <1>1 DEF SweepNetwork
    <2>3. ASSUME NEW other \in Network, other # network
          PROVE  AddressesOf(other)' \cap Unasked("sweep")'
                   = AddressesOf(other) \cap Unasked("sweep")
      BY <2>1, <2>3, WireParts DEF AddressesOf, TablesTyped
    <2>4. err' = "none" =>
            AddressesOf(network)' \cap Unasked("sweep")' = {}
      BY <2>1, <2>2, SweepErrors DEF AddressesOf, TablesTyped
    <2> QED
      BY <2>2, <2>3, <2>4 DEF SetsTyped
  <1>2. CASE Record
    BY <1>2 DEF Record, Covered, historyVars, Blank, SetsTyped, AddressesOf
  <1>3. CASE StartSweep
    BY <1>3 DEF StartSweep, historyVars, Blank
  <1>4. CASE End
    BY <1>4 DEF End, TablesTyped, AddressesOf
  <1>5. CASE FirstProbe \/ SecondProbe
    BY <1>5 DEF FirstProbe, SecondProbe, TablesTyped, Blank
  <1>6. CASE ~StartSweep /\ ~Record /\ ~End /\ ~FirstProbe /\ ~SecondProbe
             /\ ~(\E network \in Network : SweepNetwork(network))
    <2>1. /\ todo' = todo /\ scanned' = scanned /\ sweeping' = sweeping
          /\ notAsked' = notAsked /\ cutOff' = cutOff
          /\ pc' = "record" => pc = "record" /\ err' = err
      BY <1>6 DEF Next, vars, roundVars, historyVars, Begin, ReadTable, Verify,
         NoSweep, Rescue, Environment
    <2> QED
      BY <2>1 DEF AddressesOf
  <1> QED
    BY <1>1, <1>2, <1>3, <1>4, <1>5, <1>6

(* A network is only claimed as covered when a packet to every address of  *)
(* it left the machine, its host answered, or the link or the route to it  *)
(* had just gone - and for no other reason, whichever networks failed      *)
(* before it or after.                                                     *)
THEOREM CoverageIsHonest == Spec => []ScannedIsCovered
  <1>1. Init => Visited /\ ScannedIsCovered
    BY LanAssumption DEF Init, Visited, ScannedIsCovered
  <1>2. Tidy /\ Visited /\ ScannedIsCovered /\ [Next]_vars
          => Visited' /\ ScannedIsCovered'
    BY VisitedStep
  <1> QED
    BY <1>1, <1>2, TidyInit, TidyStep, PTL DEF Spec

LEMMA CompleteStep ==
  ASSUME Tidy, Tidy', Missing, Complete, EveryDueReported, [Next]_vars
  PROVE  Complete' /\ EveryDueReported'
  <1> USE DEF Tidy, Complete, EveryDueReported
  <1>1. CASE FirstProbe
    <2>1. PICK outcome \in Wire(Askable(Known)) :
            /\ err' = IF ProbeError(Known, outcome) = "offLAN" THEN "none"
                      ELSE ProbeError(Known, outcome)
            /\ failed' = (ProbeError(Known, outcome) = "failed")
      BY <1>1 DEF FirstProbe, StandingLoss
    <2> QED
      BY <1>1, <2>1, ProbeErrors DEF FirstProbe
  <1>2. CASE ReadTable
    BY <1>2, ReadTableOutcome DEF ReadTable
  <1>3. CASE SecondProbe
    <2>1. PICK outcome \in Wire(Askable(Candidates)) :
            /\ err' = ProbeError(Candidates, outcome)
            /\ failed' = (err' = "failed")
            /\ strayed' = Candidates \ Askable(Candidates)
      BY <1>3 DEF SecondProbe
    <2> QED
      BY <1>3, <2>1, ProbeErrors DEF SecondProbe
  <1>4. CASE Verify
    <2>1. /\ DOMAIN observations' = due \ Withheld
          /\ due' = due /\ failed' = failed /\ strayed' = strayed
          /\ pc' = "decide"
      BY <1>4 DEF Verify, historyVars
    <2>2. ~failed /\ strayed = {} => Withheld = {}
      BY <1>4 DEF Verify, Withheld
    <2>3. \A id \in Withheld : mac[id] # None
      BY DEF Withheld, Missing
    <2> QED
      BY <2>1, <2>2, <2>3
  <1>5. ASSUME NEW ids \in SUBSET ID, Begin(ids)
        PROVE  Complete' /\ EveryDueReported'
    BY <1>5, EmptyMap DEF Begin, Blank
  <1>6. CASE StartSweep \/ NoSweep \/ Record \/ Rescue \/ End
    BY <1>6 DEF StartSweep, NoSweep, Record, Rescue, End
  <1>7. ASSUME NEW network \in Network, SweepNetwork(network)
        PROVE  Complete' /\ EveryDueReported'
    BY <1>7 DEF SweepNetwork
  <1>8. CASE Environment \/ UNCHANGED vars
    BY <1>8 DEF Environment, vars, roundVars, historyVars
  <1> QED
    BY <1>1, <1>2, <1>3, <1>4, <1>5, <1>6, <1>7, <1>8 DEF Next

(* An address off the LAN stops nobody from being reported: without a      *)
(* failed probe every target of the round has its observation, as long as  *)
(* the table offers only addresses of attached networks; and beside a      *)
(* silent target only targets with a MAC are left without one, as Runner's *)
(* Round assumes.                                                          *)
THEOREM NobodyIsForgotten == Spec => []EveryDueReported
  <1>1. Init => Complete /\ EveryDueReported
    BY DEF Init, Complete, EveryDueReported
  <1>2. Tidy /\ Missing /\ [Next]_vars => Missing'
    BY MissingStep
  <1>3. Tidy /\ Tidy' /\ Missing /\ Complete /\ EveryDueReported /\ [Next]_vars
          => Complete' /\ EveryDueReported'
    BY CompleteStep
  <1> QED
    BY <1>1, <1>2, <1>3, TidyInit, TidyStep, SilenceInit, PTL DEF Spec
=============================================================================
