----------------------------- MODULE EchoSocket -----------------------------
(***************************************************************************)
(* A probe on Linux and macOS (internal/discover/icmp.go,                  *)
(* probeWithConnection; icmp_unix.go, probe): one socket, a sender that    *)
(* asks one host after the other, and a goroutine that reads what arrives  *)
(* until the socket's deadline has passed or the socket is closed.         *)
(*                                                                         *)
(* Time goes on between any two steps.  The context closes the socket when *)
(* it is cancelled, at any time.  A raw socket hears everything: answers   *)
(* to a former probe, answers that come twice, late or in any order,       *)
(* answers that somebody gives from another address than the one asked.    *)
(* What never arrives is simply never read.                                *)
(***************************************************************************)
EXTENDS Naturals, Sequences

CONSTANTS
  Host,             \* addresses
  HostLists,        \* what may be asked; two targets may have one address
  Timeouts,         \* the ceilings a call may be given
  Settle            \* replySettleWindow

ASSUME SocketAssumption ==
  /\ HostLists \subseteq Seq(Host)
  /\ Timeouts \subseteq Nat /\ Settle \in Nat

VARIABLES
  call,             \* where the caller is
  hosts,            \* the hosts it asks, in that order
  timeout,          \* its ceiling: what a sweep has left, or five seconds
  next,             \* the one that is next
  undelivered,      \* how many were not asked
  socket,           \* "none", "open" or "closed"
  limit,            \* how long the socket is read
  reader,           \* the goroutine that reads: its loop, or how it ended
  answered,         \* whom it has heard
  err,              \* what the call returns beside that
  now               \* the time since the call

(* What the properties need to remember. *)
VARIABLES
  asked,            \* indices -> when the packet was sent, as far as it got
  spoke,            \* indices of the packets their host has answered
  heardUntil        \* when the reader stopped for want of time

callVars == <<call, hosts, timeout, next, undelivered, err>>
readerVars == <<reader, answered>>
askedVars == <<asked, spoke, heardUntil>>

socketVars == <<callVars, socket, limit, readerVars, now, askedVars>>

-----------------------------------------------------------------------------
(* Later than the ceiling is as late as it gets. *)
Late == timeout + 1

Never == Late + 1

ProbeInit ==
  /\ call = "idle" /\ hosts = <<>> /\ timeout = 0 /\ next = 1
  /\ undelivered = 0 /\ err = "none"
  /\ socket = "none" /\ limit = Never
  /\ reader = "none" /\ answered = {}
  /\ now = 0
  /\ asked = <<>> /\ spoke = {} /\ heardUntil = 0

(* The socket goes with the call: defer connection.Close. *)
Returns(result) ==
  /\ call' = "returned"
  /\ err' = result
  /\ socket' = "none"

(* No time, no host, no socket to be had: ErrNoProbe is told apart.        *)
ProbeStart(list, t) ==
  /\ call = "idle"
  /\ hosts' = list /\ timeout' = t
  /\ \/ t = 0 /\ Returns("failed") /\ undelivered' = Len(list)
     \/ t > 0 /\ list = <<>> /\ Returns("none") /\ undelivered' = 0
     \/ t > 0 /\ list # <<>> /\ Returns("noProbe") /\ undelivered' = 0
     \/ /\ t > 0 /\ list # <<>>
        /\ call' = "open" /\ socket' = "open"
        /\ UNCHANGED <<err, undelivered>>
  /\ UNCHANGED <<next, limit, readerVars, now, askedVars>>

(* Mutant of Ceiling: nothing bounds the reading until all were asked.     *)
CeilingNone == Never

Ceiling == timeout

(* SetDeadline, a nonce, and the reader starts. *)
ProbeListen ==
  /\ call = "open"
  /\ \/ /\ socket = "open"
        /\ limit' = Ceiling
        /\ reader' = "reading"
        /\ call' = "send"
        /\ UNCHANGED <<socket, err, undelivered>>
     \/ /\ Returns("failed")
        /\ undelivered' = Len(hosts)
        /\ UNCHANGED <<limit, reader>>
  /\ UNCHANGED <<hosts, timeout, next, answered, now, askedVars>>

-----------------------------------------------------------------------------
(* What WriteTo can come to: the packet leaves, or the kernel knows that   *)
(* nobody is there or that there is no way (isAbsence); a full buffer, a   *)
(* closed socket, a deadline that has passed.                              *)
WriteOutcomes ==
  IF socket = "closed" THEN {"failed"} ELSE {"sent", "absent", "failed"}

ProbeSend ==
  /\ call = "send"
  /\ next <= Len(hosts)
  /\ now <= timeout
  /\ \E outcome \in WriteOutcomes :
       /\ undelivered' = IF outcome = "failed" THEN undelivered + 1
                         ELSE undelivered
       /\ asked' = Append(asked, [how |-> outcome, at |-> now])
  /\ next' = next + 1
  /\ UNCHANGED <<call, hosts, timeout, err, socket, limit, readerVars, now,
                 spoke, heardUntil>>

(* The time is up before everybody was asked. *)
ProbeGivesUp ==
  /\ call = "send"
  /\ next <= Len(hosts)
  /\ now >= timeout
  /\ undelivered' = undelivered + Len(hosts) - next + 1
  /\ next' = Len(hosts) + 1
  /\ UNCHANGED <<call, hosts, timeout, err, socket, limit, readerVars, now,
                 askedVars>>

(* When all packets are out, the deadline is brought forward. *)
SettleLimit == now + Settle

ProbeSettle ==
  /\ call = "send"
  /\ next > Len(hosts)
  /\ limit' = IF socket = "open" /\ SettleLimit < timeout THEN SettleLimit
              ELSE limit
  /\ call' = "wait"
  /\ UNCHANGED <<hosts, timeout, next, undelivered, err, socket, readerVars,
                 now, askedVars>>

-----------------------------------------------------------------------------
(* A host answers a packet that was sent to it.  The answer may arrive at  *)
(* any time from then on, more than once, or never.                        *)
Sent(i) == i \in DOMAIN asked /\ asked[i].how = "sent"

HostAnswers(i) ==
  /\ call # "returned"
  /\ Sent(i) /\ i \notin spoke
  /\ spoke' = spoke \cup {i}
  /\ UNCHANGED <<callVars, socket, limit, readerVars, now, asked, heardUntil>>

(* What can arrive: packets from an address, with a sequence number, with  *)
(* the nonce of this call or without - answers to other calls, and answers *)
(* to packets of this one that another host gives.  Nobody knows the nonce *)
(* before a packet that carries it has left.                               *)
Arriving ==
  {p \in [from : Host, seq : 1 .. Len(hosts), ours : BOOLEAN] :
     p.ours => IF p.from = hosts[p.seq] THEN p.seq \in spoke ELSE Sent(p.seq)}

(* Mutant of Expected: the address and the sequence number are not held    *)
(* against each other.                                                     *)
ExpectedOfAnybody(p) == p.from \in {hosts[i] : i \in 1 .. Len(hosts)}

(* The sequence number is one that was sent to this address. *)
Expected(p) == hosts[p.seq] = p.from

ProbeRead(p) ==
  /\ reader = "reading"
  /\ socket = "open" /\ now <= limit
  /\ answered' = IF p.ours /\ Expected(p)
                 THEN answered \cup {p.from} ELSE answered
  /\ UNCHANGED <<callVars, socket, limit, reader, now, askedVars>>

(* ReadFrom returns a timeout. *)
ProbeReadTimeout ==
  /\ reader = "reading"
  /\ now >= limit
  /\ reader' = "done"
  /\ heardUntil' = now
  /\ UNCHANGED <<callVars, socket, limit, answered, now, asked, spoke>>

(* Mutant of ReadError: a closed socket is an end like any other.          *)
ReadErrorNone == "done"

(* Any other error is one of the call. *)
ReadError == "failed"

ProbeReadFails ==
  /\ reader = "reading"
  /\ reader' = ReadError
  /\ UNCHANGED <<callVars, socket, limit, answered, now, askedVars>>

(* Mutant of ReaderDone: the reader is left to itself. *)
ReaderLeft == TRUE

(* waiting.Wait. *)
ReaderDone == reader # "reading"

(* ProbeContext makes an error of what was not delivered, and so does the  *)
(* sweep.                                                                  *)
ProbeReturn ==
  /\ call = "wait"
  /\ ReaderDone
  /\ Returns(IF reader = "failed" THEN "failed"
             ELSE IF undelivered > 0 THEN "undelivered" ELSE "none")
  /\ UNCHANGED <<hosts, timeout, next, undelivered, limit, readerVars, now,
                 askedVars>>

(* The caller has the result. *)
ProbeTaken ==
  /\ call = "returned"
  /\ call' = "idle" /\ hosts' = <<>> /\ timeout' = 0 /\ next' = 1
  /\ undelivered' = 0 /\ err' = "none"
  /\ limit' = Never
  /\ reader' = "none" /\ answered' = {}
  /\ now' = 0
  /\ asked' = <<>> /\ spoke' = {} /\ heardUntil' = 0
  /\ UNCHANGED socket

-----------------------------------------------------------------------------
(* The context is cancelled: the socket is closed under both. *)
ProbeCancel ==
  /\ socket = "open"
  /\ socket' = "closed"
  /\ UNCHANGED <<callVars, limit, readerVars, now, askedVars>>

ProbeTick ==
  /\ call \in {"open", "send", "wait"}
  /\ now < Late
  /\ now' = now + 1
  /\ UNCHANGED <<callVars, socket, limit, readerVars, askedVars>>

Sender ==
  \/ ProbeListen
  \/ ProbeSend
  \/ ProbeGivesUp
  \/ ProbeSettle
  \/ ProbeReturn

ReaderEnds == ProbeReadTimeout \/ (socket = "closed" /\ ProbeReadFails)

ProbeNext ==
  \/ \E list \in HostLists, t \in Timeouts : ProbeStart(list, t)
  \/ Sender
  \/ \E i \in 1 .. Len(hosts) : HostAnswers(i)
  \/ \E p \in Arriving : ProbeRead(p)
  \/ ProbeReadTimeout
  \/ ProbeReadFails
  \/ ProbeTaken
  \/ ProbeCancel
  \/ ProbeTick

ProbeSpec == ProbeInit /\ [][ProbeNext]_socketVars

(* Both goroutines go on, a read ends when its time has come or its socket *)
(* is gone, and time passes.  Nothing is assumed of the network.           *)
FairProbeSpec ==
  /\ ProbeSpec
  /\ WF_socketVars(Sender)
  /\ WF_socketVars(ReaderEnds)
  /\ WF_socketVars(ProbeTick)
-----------------------------------------------------------------------------
(* Typing: nobody reads for a call that has returned. *)
SocketTypeOK ==
  /\ call \in {"idle", "open", "send", "wait", "returned"}
  /\ hosts \in Seq(Host) /\ timeout \in Nat
  /\ next \in 1 .. Len(hosts) + 1
  /\ undelivered \in 0 .. Len(hosts)
  /\ err \in {"none", "noProbe", "failed", "undelivered"}
  /\ socket \in {"none", "open", "closed"}
  /\ limit \in Nat /\ now \in 0 .. Late
  /\ reader \in {"none", "reading", "done", "failed"}
  /\ call \in {"idle", "open", "returned"} => reader # "reading"
  /\ answered \subseteq Host /\ spoke \subseteq 1 .. Len(hosts)
  /\ asked \in Seq([how : {"sent", "absent", "failed"}, at : Nat])
  /\ Len(asked) <= Len(hosts)
  /\ heardUntil \in Nat

(* Only an answer to a probe sent now proves anything (icmp.go:44-46): a   *)
(* host counts as heard when it has itself answered a packet that this     *)
(* call sent to it - not an earlier call, not another host.                *)
HeardIsAlive == answered \subseteq {hosts[i] : i \in spoke}

(* A host that was never pinged has not been looked for                    *)
(* (icmp_unix.go:13-17): a call without an error has asked every host, and *)
(* has listened for the whole settle window after the packet of each one   *)
(* it did not hear, or up to its ceiling - whenever the context closed the *)
(* socket, a packet could not be sent, or the sender was held up.          *)
SilenceIsAwaited ==
  call = "returned" /\ err = "none" =>
    \A i \in 1 .. Len(hosts) :
      \/ hosts[i] \in answered
      \/ i \in DOMAIN asked /\ asked[i].how = "absent"
      \/ /\ Sent(i)
         /\ heardUntil >= asked[i].at + Settle \/ heardUntil >= timeout

(* The ceiling bounds a call that hangs (icmp.go:76-79): it returns, even  *)
(* though the sender waits for the reader and nothing need ever arrive.    *)
ProbeEnds == call = "open" ~> call = "returned"
=============================================================================
