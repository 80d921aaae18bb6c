----------------------------- MODULE ProbeRound -----------------------------
(***************************************************************************)
(* One round of work seen from the network (internal/agent/agent.go:       *)
(* probeTargetsContext, isTheSameDevice, rescue; discover.go: RunContext). *)
(*                                                                         *)
(* Runner takes a round as one step with a set of outcomes.  Here it is    *)
(* taken apart: the probe of the known addresses, the reading of the       *)
(* neighbour table, the probe of the addresses the table offers, a second  *)
(* reading, and a sweep network by network, each with its own reading.     *)
(* Devices move and the table changes between any two of them.             *)
(***************************************************************************)
EXTENDS Lan

CONSTANTS
  ID,               \* targets
  ip,               \* target -> the address the server knows it at
  mac,              \* target -> its MAC, or None
  Enabled,          \* the networks the server turned on
  MaxRounds, MaxMoves   \* bounds: rounds, changes of the network

ASSUME RoundAssumption ==
  /\ ip \in [ID -> Address]
  /\ mac \in [ID -> Device \cup {None}]
  /\ Enabled \subseteq Network
  /\ MaxRounds \in Nat
  /\ MaxMoves \in Nat

VARIABLES
  pc,
  due,              \* the targets of this round
  discoveryDue,     \* the schedule asks for a sweep
  replied, err,     \* what the last probe returned
  table,            \* the reading of the neighbour table in hand
  observations,     \* target -> [online, ip], partial
  moved,            \* targets that did not answer where they used to
  elsewhere,        \* target -> the address the table offers, partial
  todo,             \* the attached networks the sweep has still to visit
  sweeping,         \* the network it is on, or None
  devices,          \* address -> MAC, partial: who answered the sweep
  scanned           \* networks the sweep covered end to end

(* What the properties need to remember. *)
VARIABLES
  present,          \* who was where at some moment of this round
  notAsked,         \* step -> addresses whose silence in it says nothing
  cutOff,           \* those of them whose packet met a lost link or route
  failed,           \* a probe of targets failed in this round
  strayed,          \* addresses off the LAN that the table offered
  unnamed,          \* addresses that answered and the table had no MAC for
  rounds, moves

roundVars == <<due, discoveryDue, replied, err, table, observations, moved,
               elsewhere, todo, sweeping, devices, scanned>>
historyVars == <<present, notAsked, cutOff, failed, strayed, unnamed, rounds,
                 moves>>

vars == <<lanVars, pc, roundVars, historyVars>>

-----------------------------------------------------------------------------
NoMap == [x \in {} |-> x]

Known == {ip[id] : id \in due}

Candidates == {elsewhere[id] : id \in DOMAIN elsewhere}

NoAddresses == [step \in {"first", "again", "sweep"} |-> {}]

NoTable == [a \in Address |-> None]

Offline == [online |-> FALSE, ip |-> None]

(* Mutant of Online: the report does not say where. *)
OnlineSomewhere(a) == [online |-> TRUE, ip |-> None]

Online(a) == [online |-> TRUE, ip |-> a]

(* An address is not an identity: who holds it is asked when it is known.  *)
IsTheSameDevice(id, reading) ==
  mac[id] # None /\ reading[ip[id]] # None => reading[ip[id]] = mac[id]

Answers(id, reading) == ip[id] \in replied /\ IsTheSameDevice(id, reading)

(* The addresses one reading offers for a target, its own left out; the    *)
(* first line of the table that names the MAC decides.                     *)
Offers(id, reading) ==
  IF mac[id] = None THEN {} ELSE {a \in Address : reading[a] = mac[id]}

Where(reading) ==
  {w \in [Device -> Address \cup {None}] :
     \A d \in Device :
       IF \E a \in Address : reading[a] = d
       THEN w[d] \in Address /\ reading[w[d]] = d
       ELSE w[d] = None}

(* Mutant of Unresolved: only those the table knew nothing of. *)
UnresolvedNowhere ==
  {id \in moved \cap DOMAIN observations :
     ~observations[id].online /\ id \notin DOMAIN elsewhere}

(* The targets that answered nowhere at all. *)
Unresolved ==
  {id \in moved \cap DOMAIN observations : ~observations[id].online}

-----------------------------------------------------------------------------
Init ==
  /\ LanInit
  /\ pc = "idle"
  /\ due = {} /\ discoveryDue = FALSE
  /\ replied = {} /\ err = "none" /\ table = NoTable
  /\ observations = NoMap /\ moved = {} /\ elsewhere = NoMap
  /\ todo = {} /\ sweeping = None /\ devices = NoMap /\ scanned = {}
  /\ present = {}
  /\ notAsked = NoAddresses /\ cutOff = NoAddresses
  /\ failed = FALSE /\ strayed = {} /\ unnamed = {}
  /\ rounds = 0 /\ moves = 0

(* A round begins with the targets that are due. *)
Begin(ids) ==
  /\ pc = "idle"
  /\ rounds < MaxRounds
  /\ rounds' = rounds + 1
  /\ due' = ids
  /\ discoveryDue' \in BOOLEAN
  /\ ids # {} \/ discoveryDue'
  /\ present' = {<<d, home[d]>> : d \in {e \in Device : home[e] # None}}
  /\ pc' = IF ids = {} THEN "decide" ELSE "probe"
  /\ UNCHANGED <<lanVars, replied, err, table, observations, moved, elsewhere,
                 todo, sweeping, devices, scanned, notAsked, cutOff,
                 failed, strayed, unnamed, moves>>

(* Mutant of StandingLoss: an address off the LAN is a broken probe.       *)
NoLossStands(error) == FALSE

(* The error that is a finding rather than a malfunction. *)
StandingLoss(error) == error = "offLAN"

(* The known addresses are pinged together. *)
FirstProbe ==
  /\ pc = "probe"
  /\ \E outcome \in Wire(Askable(Known)) :
       LET error == ProbeError(Known, outcome)
       IN  /\ replied' = outcome.heard
           /\ err' = IF StandingLoss(error) THEN "none" ELSE error
           /\ Heard(outcome)
           /\ notAsked' = [notAsked EXCEPT
                             !["first"] = NotAsked(Askable(Known), outcome)]
           /\ cutOff' = [cutOff EXCEPT !["first"] = outcome.cut]
           /\ failed' = (error = "failed")
  /\ pc' = "read"
  /\ UNCHANGED <<home, attached, due, discoveryDue, table, observations, moved,
                 elsewhere, todo, sweeping, devices, scanned, present, strayed,
                 unnamed, rounds, moves>>

(* The table is read after the probe.  After a failure only positive       *)
(* evidence counts; otherwise a target that did not answer is offline      *)
(* until the table offers another address for it.                          *)
ReadTable ==
  /\ pc = "read"
  /\ LET here == {id \in due : Answers(id, arp)}
         gone == due \ here
     IN  IF err # "none"
         THEN /\ observations' = [id \in here |-> Online(ip[id])]
              /\ UNCHANGED <<moved, elsewhere>>
         ELSE /\ observations' = [id \in due |-> IF id \in here
                                                 THEN Online(ip[id])
                                                 ELSE Offline]
              /\ moved' = gone
              /\ \E w \in Where(arp) :
                   elsewhere' =
                     [id \in {i \in gone : Offers(i, arp) # {}
                                             /\ w[mac[i]] # ip[i]}
                        |-> w[mac[id]]]
  /\ IF elsewhere' = NoMap
     THEN pc' = "decide" /\ table' = NoTable
     ELSE pc' = "again" /\ table' = arp
  /\ replied' = {} /\ err' = "none"
  /\ unnamed' = {a \in replied : arp[a] = None}
  /\ UNCHANGED <<lanVars, due, discoveryDue, todo, sweeping, devices, scanned,
                 present, notAsked, cutOff, failed, strayed, rounds, moves>>

(* The addresses the table offers are pinged together. *)
SecondProbe ==
  /\ pc = "again"
  /\ \E outcome \in Wire(Askable(Candidates)) :
       /\ replied' = outcome.heard
       /\ err' = ProbeError(Candidates, outcome)
       /\ Heard(outcome)
       /\ notAsked' = [notAsked EXCEPT
                         !["again"] = NotAsked(Askable(Candidates), outcome)]
       /\ cutOff' = [cutOff EXCEPT !["again"] = outcome.cut]
       /\ failed' = (err' = "failed")
  /\ strayed' = Candidates \ Askable(Candidates)
  /\ pc' = "verify"
  /\ UNCHANGED <<home, attached, due, discoveryDue, table, observations, moved,
                 elsewhere, todo, sweeping, devices, scanned, present,
                 unnamed, rounds, moves>>

(* Mutant of Fresh: the first reading is used for the second probe. *)
FreshFromBefore == table

(* The reading a second probe is judged by. *)
Fresh == arp

(* Mutant of Withheld: silence after a failed send is called an outage. *)
WithheldNever == {}

(* Candidates whose silence says nothing lose their observation. *)
Withheld ==
  {id \in DOMAIN elsewhere : err # "none" /\ elsewhere[id] \notin replied}

(* A second reading ties the answers to the devices that gave them. *)
Verify ==
  /\ pc = "verify"
  /\ LET confirmed == {id \in DOMAIN elsewhere :
                         /\ elsewhere[id] \in replied
                         /\ Fresh[elsewhere[id]] = mac[id]}
     IN  observations' = [id \in DOMAIN observations \ Withheld |->
                            IF id \in confirmed THEN Online(elsewhere[id])
                            ELSE observations[id]]
  /\ table' = NoTable /\ replied' = {} /\ err' = "none"
  /\ pc' = "decide"
  /\ UNCHANGED <<lanVars, due, discoveryDue, moved, elsewhere, todo, sweeping,
                 devices, scanned, historyVars>>

-----------------------------------------------------------------------------
(* RunContext: a sweep that was due, or that a device just gone quiet has  *)
(* bought (Runner says which may), of the networks that are both attached  *)
(* and enabled.  It comes to nothing when Attachments fails.               *)
StartSweep ==
  /\ pc = "decide"
  /\ discoveryDue \/ Unresolved # {}
  /\ todo' = attached \cap Enabled
  /\ pc' = "sweep"
  /\ UNCHANGED <<lanVars, due, discoveryDue, replied, err, table, observations,
                 moved, elsewhere, sweeping, devices, scanned,
                 historyVars>>

NoSweep ==
  /\ pc = "decide"
  /\ pc' = "done"
  /\ UNCHANGED <<lanVars, roundVars, historyVars>>

SweepError(outcome) ==
  CASE outcome.socket = "refused"  -> "noProbe"
    [] outcome.socket = "broken"   -> "failed"
    [] Undelivered(outcome) # {}   -> "partly"
    [] OTHER                       -> "none"

(* Every address of one network is pinged. *)
SweepNetwork(network) ==
  /\ pc = "sweep"
  /\ network \in todo
  /\ todo' = todo \ {network}
  /\ sweeping' = network
  /\ \E outcome \in Wire(AddressesOf(network)) :
       /\ replied' = outcome.heard
       /\ err' = SweepError(outcome)
       /\ Heard(outcome)
       /\ notAsked' =
            [notAsked EXCEPT !["sweep"] =
               @ \cup NotAsked(AddressesOf(network), outcome)]
       /\ cutOff' = [cutOff EXCEPT !["sweep"] = @ \cup outcome.cut]
  /\ pc' = "record"
  /\ UNCHANGED <<home, attached, due, discoveryDue, table, observations, moved,
                 elsewhere, devices, scanned, present, failed,
                 strayed, unnamed, rounds, moves>>

(* Mutants of Seen and Covered: the table stands in for the answers when   *)
(* nothing could be probed; a network is covered whatever was not sent.    *)
SeenInTable ==
  IF err = "noProbe" THEN {a \in AddressesOf(sweeping) : arp[a] # None}
  ELSE replied

CoveredAnyway == err \in {"none", "partly"}

(* Presence is what answered, and a network is covered when everybody was  *)
(* asked.                                                                  *)
Seen == replied

Covered == err = "none"

(* The table, read after the sweep, puts a MAC on the answers. *)
Record ==
  /\ pc = "record"
  /\ devices' = [a \in DOMAIN devices \cup Seen |->
                   IF a \in Seen THEN arp[a] ELSE devices[a]]
  /\ scanned' = IF Covered THEN scanned \cup {sweeping} ELSE scanned
  /\ sweeping' = None /\ replied' = {} /\ err' = "none"
  /\ pc' = "sweep"
  /\ UNCHANGED <<lanVars, due, discoveryDue, table, observations, moved,
                 elsewhere, todo, historyVars>>

FoundAt(id) ==
  IF mac[id] = None THEN {} ELSE {a \in DOMAIN devices : devices[a] = mac[id]}

(* rescue: a target the sweep found alive is online where it was found.    *)
Rescue ==
  /\ pc = "sweep"
  /\ todo = {}
  /\ LET found == {id \in Unresolved : FoundAt(id) # {}}
     IN  \E at \in [found -> Address] :
           /\ \A id \in found : at[id] \in FoundAt(id)
           /\ observations' = [id \in DOMAIN observations |->
                                 IF id \in found THEN Online(at[id])
                                 ELSE observations[id]]
  /\ pc' = "done"
  /\ UNCHANGED <<lanVars, due, discoveryDue, replied, err, table, moved,
                 elsewhere, todo, sweeping, devices, scanned,
                 historyVars>>

(* The report has gone, and its round with it. *)
End ==
  /\ pc = "done"
  /\ pc' = "idle"
  /\ due' = {} /\ discoveryDue' = FALSE
  /\ replied' = {} /\ err' = "none" /\ table' = NoTable
  /\ observations' = NoMap /\ moved' = {} /\ elsewhere' = NoMap
  /\ todo' = {} /\ sweeping' = None /\ devices' = NoMap /\ scanned' = {}
  /\ present' = {}
  /\ notAsked' = NoAddresses /\ cutOff' = NoAddresses
  /\ failed' = FALSE /\ strayed' = {} /\ unnamed' = {}
  /\ UNCHANGED <<lanVars, rounds, moves>>

(* The network changes under the round, or before it; nothing looks at it  *)
(* between the last step of a round and the next round.                    *)
LanChanges ==
  \/ \E d \in Device, a \in Address \cup {None} : Move(d, a)
  \/ \E d \in Device : Announce(d)
  \/ \E a \in Address : Evict(a)
  \/ \E network \in Network : Leave(network) \/ Join(network)

Environment ==
  /\ pc # "done"
  /\ moves < MaxMoves
  /\ moves' = moves + 1
  /\ LanChanges
  /\ present' = IF pc = "idle" THEN present
                ELSE present \cup
                       {<<d, home'[d]>> : d \in {e \in Device : home'[e] # None}}
  /\ UNCHANGED <<pc, roundVars, notAsked, cutOff, failed, strayed, unnamed,
                 rounds>>

Next ==
  \/ \E ids \in SUBSET ID : Begin(ids)
  \/ FirstProbe
  \/ ReadTable
  \/ SecondProbe
  \/ Verify
  \/ StartSweep
  \/ NoSweep
  \/ \E network \in Network : SweepNetwork(network)
  \/ Record
  \/ Rescue
  \/ End
  \/ Environment

Spec == Init /\ [][Next]_vars
-----------------------------------------------------------------------------
IsPartial(f, S, T) == DOMAIN f \subseteq S /\ \A x \in DOMAIN f : f[x] \in T

Observation == [online : BOOLEAN, ip : Address \cup {None}]

(* Typing: an observation names an address exactly when it is online, and  *)
(* only of a target of the round (agent.go:397-416).                       *)
TypeOK ==
  /\ LanTypeOK
  /\ pc \in {"idle", "probe", "read", "again", "verify", "decide", "sweep",
             "record", "done"}
  /\ due \subseteq ID /\ discoveryDue \in BOOLEAN
  /\ replied \subseteq Address
  /\ err \in {"none", "offLAN", "failed", "noProbe", "partly"}
  /\ table \in [Address -> Device \cup {None}]
  /\ IsPartial(observations, due, Observation)
  /\ \A id \in DOMAIN observations :
       observations[id].online <=> observations[id].ip # None
  /\ moved \subseteq due
  /\ IsPartial(elsewhere, moved, Address)
  /\ todo \subseteq Network /\ scanned \subseteq Network
  /\ sweeping \in Network \cup {None}
  /\ IsPartial(devices, Address, Device \cup {None})
  /\ present \subseteq Device \X Address
  /\ notAsked \in [{"first", "again", "sweep"} -> SUBSET Address]
  /\ cutOff \in [{"first", "again", "sweep"} -> SUBSET Address]
  /\ failed \in BOOLEAN /\ strayed \subseteq Address
  /\ unnamed \subseteq Address
  /\ rounds \in Nat /\ moves \in Nat

(* An address is not an identity: a target whose MAC is known is only      *)
(* reported online where that very device was during the round, unless     *)
(* the kernel could not say who held its own address (agent.go:478-484).   *)
OnlineIsTheDevice ==
  \A id \in DOMAIN observations :
    observations[id].online /\ mac[id] # None =>
      \/ <<mac[id], observations[id].ip>> \in present
      \/ observations[id].ip = ip[id] /\ ip[id] \in unnamed

(* A send failure is not evidence of absence (agent.go:389-391): a target  *)
(* is only reported offline when it was asked at its own address, or that  *)
(* address is on no attached network, and so too where the table had it.   *)
(* A packet that met a link or a route just lost passes for one that was   *)
(* sent: the code makes no difference (isAbsence).                         *)
Unasked(step) == notAsked[step] \ cutOff[step]

SilentWasAsked ==
  \A id \in DOMAIN observations :
    ~observations[id].online /\ pc \in {"decide", "sweep", "record", "done"} =>
      /\ ip[id] \notin Unasked("first")
      /\ id \in DOMAIN elsewhere => elsewhere[id] \notin Unasked("again")

(* A move is not reported as an outage: what the sweep of a round found    *)
(* alive is not offline in its report (agent.go:504-507).                  *)
MoveIsNoOutage ==
  pc = "done" =>
    \A id \in DOMAIN observations :
      ~observations[id].online => FoundAt(id) = {}

(* Presence is what answered a probe sent now, under the MAC of the device *)
(* that gave the answer (README, "How presence is decided").               *)
DevicesWereThere ==
  \A a \in DOMAIN devices :
    IF devices[a] = None THEN \E d \in Device : <<d, a>> \in present
    ELSE <<devices[a], a>> \in present

(* A network is only claimed as covered when a packet to every address of  *)
(* it left the machine: one whose probes could not all be put on the wire  *)
(* is left out (discover.go:31-37).  The code breaks this when the link or *)
(* the route goes in the middle of the sweep.                              *)
ScannedWasAsked ==
  \A network \in scanned : AddressesOf(network) \cap notAsked["sweep"] = {}

(* What is left of it: only a lost link or route may stand in for a packet *)
(* sent - not a full buffer, a socket that could not be opened or broke,   *)
(* nor the deadline that passed, for this network or one swept before it.  *)
ScannedIsCovered ==
  \A network \in scanned : AddressesOf(network) \cap Unasked("sweep") = {}

(* An address off the LAN stops nobody from being reported                 *)
(* (interfaces.go:135-141): without a failed probe, every target of the    *)
(* round has its observation - as long as the addresses the table offers   *)
(* are on attached networks.  And when a target is reported silent, only   *)
(* those with a MAC may be left without one, which is what Runner's Round  *)
(* takes a round's probes to come to.                                      *)
EveryDueReported ==
  pc = "decide" =>
    /\ ~failed /\ strayed = {} => due = DOMAIN observations
    /\ (\E id \in DOMAIN observations : ~observations[id].online) =>
         \A id \in due \ DOMAIN observations : mac[id] # None

(* Whatever the table offers, a target whose address is off the LAN stops  *)
(* no other from being reported: without a failed probe, one that is left  *)
(* without an observation was itself looked for off the LAN.               *)
OffLANStopsNobodyElse ==
  pc = "decide" /\ ~failed =>
    \A id \in due \ DOMAIN observations :
      id \in DOMAIN elsewhere /\ elsewhere[id] \in strayed
=============================================================================
