-------------------------------- MODULE Lan --------------------------------
(***************************************************************************)
(* The network around the agent, and what an ICMP probe can learn of it    *)
(* (internal/discover: interfaces.go, icmp.go, icmp_unix.go).              *)
(*                                                                         *)
(* Devices come, go and change address whenever they like.  The kernel     *)
(* keeps a neighbour table whose entries outlive the devices they          *)
(* describe; it is right about a host that has just answered, and about    *)
(* one that has just spoken.                                               *)
(***************************************************************************)
EXTENDS Naturals, FiniteSets

CONSTANTS
  Address,          \* the addresses a device may hold
  Device,           \* devices, which are told apart by their MAC
  None,             \* no address, no MAC
  Network,          \* networks
  NetworkOf,        \* address -> the network it belongs to
  Foreign           \* networks the kernel speaks on and Attachments leaves out

ASSUME LanAssumption ==
  /\ None \notin Address \cup Device
  /\ NetworkOf \in [Address -> Network]
  /\ Foreign \subseteq Network

VARIABLES
  home,             \* device -> the address it answers at, or None
  arp,              \* address -> the MAC the neighbour table has for it
  attached          \* the networks Attachments returns

lanVars == <<home, arp, attached>>

LanTypeOK ==
  /\ home \in [Device -> Address \cup {None}]
  /\ arp \in [Address -> Device \cup {None}]
  /\ attached \in SUBSET (Network \ Foreign)

-----------------------------------------------------------------------------
AddressesOf(network) == {a \in Address : NetworkOf[a] = network}

Occupied(a) == \E d \in Device : home[d] = a

HolderOf(a) == CHOOSE d \in Device : home[d] = a

Local(a) == NetworkOf[a] \in attached

(* Anything may have happened to the table before. *)
LanInit ==
  /\ home \in {h \in [Device -> Address \cup {None}] :
                 \A d, e \in Device : h[d] = h[e] /\ d # e => h[d] = None}
  /\ arp \in [Address -> Device \cup {None}]
  /\ attached = Network \ Foreign

(* A device leaves, returns, or takes an address nobody holds. *)
Move(d, a) ==
  /\ a # home[d]
  /\ a = None \/ ~Occupied(a)
  /\ home' = [home EXCEPT ![d] = a]
  /\ UNCHANGED <<arp, attached>>

(* A device speaks to somebody, and the kernel overhears who it is. *)
Announce(d) ==
  /\ home[d] # None
  /\ NetworkOf[home[d]] \in attached \cup Foreign
  /\ arp' = [arp EXCEPT ![home[d]] = d]
  /\ UNCHANGED <<home, attached>>

(* The kernel drops an entry. *)
Evict(a) ==
  /\ arp[a] # None
  /\ arp' = [arp EXCEPT ![a] = None]
  /\ UNCHANGED <<home, attached>>

(* The machine leaves a network, and the kernel forgets it; or joins one. *)
Leave(network) ==
  /\ network \in attached
  /\ attached' = attached \ {network}
  /\ arp' = [a \in Address |->
               IF NetworkOf[a] = network THEN None ELSE arp[a]]
  /\ UNCHANGED home

Join(network) ==
  /\ network \in Network \ (attached \cup Foreign)
  /\ attached' = attached \cup {network}
  /\ UNCHANGED <<home, arp>>

-----------------------------------------------------------------------------
(* What pinging a set of hosts can come to: who was heard, whose packet    *)
(* could not be sent, whose packet met a link or a route just lost, and    *)
(* what went wrong with the socket, if anything did.  An answer may always *)
(* be lost.  A send refused because nobody holds the address (EHOSTUNREACH,*)
(* EHOSTDOWN) is the host's silence.                                       *)
Wire(hosts) ==
  {o \in [heard : SUBSET hosts, unsent : SUBSET hosts, cut : SUBSET hosts,
          socket : {"fine", "refused", "broken"}] :
     /\ \A a \in o.heard : Occupied(a) /\ Local(a)
     /\ o.heard \cap (o.unsent \cup o.cut) = {} /\ o.unsent \cap o.cut = {}
     /\ o.socket # "fine" => o.unsent = {} /\ o.cut = {}
     /\ o.socket = "refused" => o.heard = {}}

(* What probe counts as undelivered.  isAbsence takes a lost link or route *)
(* (ENETDOWN, ENETUNREACH) for the host's silence as well.                 *)
Undelivered(outcome) == outcome.unsent

(* The hosts whose silence says nothing about them: no packet to them left *)
(* this machine, or nobody was listening.                                  *)
NotAsked(hosts, outcome) ==
  (IF outcome.socket = "fine" THEN outcome.unsent \cup outcome.cut ELSE hosts)
    \ outcome.heard

(* Whoever answers is in the kernel's table because of it. *)
Heard(outcome) ==
  arp' = [a \in Address |->
            IF a \in outcome.heard THEN HolderOf(a) ELSE arp[a]]

(* ProbeLocalContext: only hosts on an attached network are asked.  Its    *)
(* error says that some were not, unless a probe failed, which is worse.   *)
Askable(hosts) == {a \in hosts : Local(a)}

ProbeError(hosts, outcome) ==
  IF outcome.socket # "fine" \/ Undelivered(outcome) # {} THEN "failed"
  ELSE IF Askable(hosts) # hosts THEN "offLAN"
  ELSE "none"
=============================================================================
