------------------------------ MODULE EchoPool ------------------------------
(***************************************************************************)
(* A probe on Windows (internal/discover/icmp_windows.go, probe): a pool   *)
(* of goroutines that take hosts from a channel, each with an ICMP handle  *)
(* of its own, and ask one host at a time.                                 *)
(*                                                                         *)
(* The hosts are in the channel, and the channel is closed, before the     *)
(* first worker starts, so a worker that finds it empty ends.  An action   *)
(* is one turn of a worker's loop up to the blocking IcmpSendEcho, or from *)
(* its return on; the counters are written under a mutex.  The deadline    *)
(* may pass, and the context be cancelled, between any two of them.        *)
(***************************************************************************)
EXTENDS Integers, FiniteSets

CONSTANTS
  Host,             \* the addresses there are
  Mapped,           \* those that are not IPv4 addresses
  MaxWorkers        \* how many workers a pool has at most

ASSUME PoolAssumption ==
  /\ IsFiniteSet(Host)
  /\ Mapped \subseteq Host
  /\ MaxWorkers \in Nat \ {0}

VARIABLES
  pool,             \* "idle", "running", or "returned" with a result
  hosts,            \* the hosts of the probe
  jobs,             \* what is left in the channel
  worker,           \* what each worker does
  inHand,           \* the host it asks, if it asks one
  expired,          \* less than a millisecond is left
  found, unsent,    \* the result
  failed            \* the system has no ICMP to offer: ErrNoProbe

VARIABLES
  absent            \* history: the hosts whose absence was proven

poolVars == <<pool, hosts, jobs, worker, inHand, expired, found, unsent,
              failed, absent>>

-----------------------------------------------------------------------------
Workers == 1 .. MaxWorkers

(* A pool has no more workers than it has hosts. *)
PoolSize(n) == IF n < MaxWorkers THEN n ELSE MaxWorkers

PoolInit ==
  /\ pool = "idle"
  /\ hosts = {} /\ jobs = {}
  /\ worker = [w \in Workers |-> "ended"]
  /\ inHand = [w \in Workers |-> {}]
  /\ expired = FALSE
  /\ found = {} /\ unsent = 0 /\ failed = FALSE /\ absent = {}

(* Without a host there is nothing to do. *)
PoolStart(asked) ==
  /\ pool = "idle"
  /\ hosts' = asked /\ jobs' = asked
  /\ worker' = [w \in Workers |->
                  IF w <= PoolSize(Cardinality(asked)) THEN "new" ELSE "ended"]
  /\ expired' = FALSE
  /\ found' = {} /\ unsent' = 0 /\ failed' = FALSE /\ absent' = {}
  /\ pool' = IF asked = {} THEN "returned" ELSE "running"
  /\ UNCHANGED inHand

(* A procedure of iphlpapi.dll is missing: no host was asked. *)
PoolUnavailable(asked) ==
  /\ pool = "idle"
  /\ asked # {}
  /\ hosts' = asked
  /\ found' = {} /\ unsent' = Cardinality(asked) /\ failed' = TRUE
  /\ absent' = {}
  /\ pool' = "returned"
  /\ UNCHANGED <<jobs, worker, inHand, expired>>

PoolExpires ==
  /\ pool = "running"
  /\ ~expired
  /\ expired' = TRUE
  /\ UNCHANGED <<pool, hosts, jobs, worker, inHand, found, unsent, failed,
                 absent>>

(* Mutant of Handleless: a worker without a handle leaves the work to the  *)
(* others.                                                                 *)
HandlelessLeaves == "ended"

(* Without a handle it takes hosts all the same. *)
Handleless == "draining"

(* IcmpCreateFile. *)
PoolHandle(w) ==
  /\ worker[w] = "new"
  /\ \E next \in {"ready", Handleless} : worker' = [worker EXCEPT ![w] = next]
  /\ UNCHANGED <<pool, hosts, jobs, inHand, expired, found, unsent, failed,
                 absent>>

(* The context is looked at, and the time, before a host is asked.         *)
Unaskable(h, cancelled) == cancelled \/ expired \/ h \in Mapped

(* A host that is taken from the channel and not asked is counted. *)
PoolSkip(w, cancelled) ==
  /\ \E h \in jobs :
       /\ \/ worker[w] = "draining"
          \/ worker[w] = "ready" /\ Unaskable(h, cancelled)
       /\ jobs' = jobs \ {h}
  /\ unsent' = unsent + 1
  /\ UNCHANGED <<pool, hosts, worker, inHand, expired, found, failed, absent>>

(* IcmpSendEcho is called. *)
PoolAsk(w, cancelled) ==
  /\ worker[w] = "ready"
  /\ \E h \in jobs :
       /\ ~Unaskable(h, cancelled)
       /\ jobs' = jobs \ {h}
       /\ inHand' = [inHand EXCEPT ![w] = {h}]
  /\ worker' = [worker EXCEPT ![w] = "asking"]
  /\ UNCHANGED <<pool, hosts, expired, found, unsent, failed, absent>>

(* What IcmpSendEcho can come to: the host's own answer, a timeout, a      *)
(* router that says it cannot be reached, anything else - an answer of     *)
(* somebody else among it.                                                 *)
Status == {"reply", "timeout", "unreachable", "other"}

ProvesAbsence(status) == status \in {"timeout", "unreachable"}

(* It returns, within a second at most. *)
PoolAnswer(w, status) ==
  /\ worker[w] = "asking"
  /\ found' = IF status = "reply" THEN found \cup inHand[w] ELSE found
  /\ absent' = IF ProvesAbsence(status) THEN absent \cup inHand[w] ELSE absent
  /\ unsent' = IF status = "reply" \/ ProvesAbsence(status)
               THEN unsent ELSE unsent + 1
  /\ inHand' = [inHand EXCEPT ![w] = {}]
  /\ worker' = [worker EXCEPT ![w] = "ready"]
  /\ UNCHANGED <<pool, hosts, jobs, expired, failed>>

(* A worker that finds the closed channel empty ends, and gives its handle *)
(* back.                                                                   *)
PoolWorkerEnds(w) ==
  /\ worker[w] \in {"ready", "draining"}
  /\ jobs = {}
  /\ worker' = [worker EXCEPT ![w] = "ended"]
  /\ UNCHANGED <<pool, hosts, jobs, inHand, expired, found, unsent, failed,
                 absent>>

(* wg.Wait. *)
PoolReturn ==
  /\ pool = "running"
  /\ \A w \in Workers : worker[w] = "ended"
  /\ pool' = "returned"
  /\ UNCHANGED <<hosts, jobs, worker, inHand, expired, found, unsent, failed,
                 absent>>

(* Nothing of a call is left when its result is taken, or its process gone. *)
NoCall ==
  /\ pool' = "idle"
  /\ hosts' = {} /\ jobs' = {}
  /\ worker' = [w \in Workers |-> "ended"]
  /\ inHand' = [w \in Workers |-> {}]
  /\ expired' = FALSE
  /\ found' = {} /\ unsent' = 0 /\ failed' = FALSE /\ absent' = {}

(* The caller has the result. *)
PoolTaken == pool = "returned" /\ NoCall

PoolStep(w, cancelled) ==
  \/ PoolHandle(w)
  \/ PoolSkip(w, cancelled)
  \/ PoolAsk(w, cancelled)
  \/ \E status \in Status : PoolAnswer(w, status)
  \/ PoolWorkerEnds(w)

(* Any caller, a context that may be cancelled and a process that may die  *)
(* at any time.                                                            *)
PoolNext ==
  \/ \E asked \in SUBSET Host : PoolStart(asked) \/ PoolUnavailable(asked)
  \/ PoolExpires
  \/ \E w \in Workers, cancelled \in BOOLEAN : PoolStep(w, cancelled)
  \/ PoolReturn
  \/ PoolTaken
  \/ NoCall

PoolSpec == PoolInit /\ [][PoolNext]_poolVars
-----------------------------------------------------------------------------
(* Typing: who asks has a host in hand. *)
PoolTypeOK ==
  /\ pool \in {"idle", "running", "returned"}
  /\ hosts \subseteq Host /\ jobs \subseteq Host
  /\ worker \in [Workers -> {"new", "ready", "draining", "asking", "ended"}]
  /\ inHand \in [Workers -> SUBSET Host]
  /\ \A w \in Workers : worker[w] # "asking" => inHand[w] = {}
  /\ expired \in BOOLEAN
  /\ found \subseteq Host /\ absent \subseteq Host
  /\ unsent \in Nat /\ failed \in BOOLEAN

(* Nothing not asked passes for silent: when a probe reports that every    *)
(* packet left, each host that was not heard was asked and its absence     *)
(* proven, whichever workers had no handle, and whenever the time was up   *)
(* or the context cancelled (icmp_windows.go:86).  It is what makes the    *)
(* round call a device offline.                                            *)
SilenceIsProven ==
  pool = "returned" /\ unsent = 0 => hosts \subseteq found \cup absent
=============================================================================
