----------------------------- MODULE StateFile -----------------------------
(***************************************************************************)
(* The agent's identity: how it is obtained and how it is kept             *)
(* (internal/config/config.go: Load, Save, EnsureWritable; cmd/.../main.go:*)
(* enrolledState, uninstallService; internal/report/client.go: Enroll).    *)
(*                                                                         *)
(* Several processes may work on one state file - an enrollment in the     *)
(* foreground, the service, a second enrollment - and nothing locks it.    *)
(* Any of them may be killed between two system calls, any system call may *)
(* fail, and the machine may lose power, which undoes what was not synced. *)
(***************************************************************************)
EXTENDS Naturals

CONSTANTS
  Process,
  Token,            \* one-time tokens; a token names the identity it buys
  Runtime,          \* configurations the server sends
  None,             \* no token, no configuration, no identity
  SyncsDirectory,   \* Save ends with a sync of the directory (Unix)
  MaxSaves, MaxStarts, MaxPurges   \* bounds: files written, starts, deletions

ASSUME FileAssumption ==
  /\ None \notin Token \cup Runtime
  /\ SyncsDirectory \in BOOLEAN
  /\ MaxSaves \in Nat \ {0} /\ MaxStarts \in Nat /\ MaxPurges \in Nat

VARIABLES
  named,            \* the file the path names, or 0
  durable,          \* the files it may name after a power loss
  written,          \* file -> how much of it was written
  value,            \* file -> the state it was meant to hold
  synced,           \* the files whose contents were synced
  temps,            \* the files that still have a temporary name
  used,             \* how many files were created
  writable          \* the directory can be written to

VARIABLES
  pc,               \* process -> where it is
  token,            \* process -> the token it was given, or None
  state,            \* process -> the state it holds in memory
  file,             \* process -> the file it is saving to, or 0
  enrolling,        \* process -> its Save is enrolledState's, not Run's
  spent             \* the tokens the server has exchanged

(* What the properties need to remember. *)
VARIABLES
  promised,         \* a Save that returned success left a file there
  mishap,           \* something has failed, and not the directory's rights
  abandoned,        \* files whose writer died
  starts, purges

diskVars == <<named, durable, written, value, synced, temps, used>>
memoryVars == <<token, state, file, enrolling>>
historyVars == <<promised, mishap, abandoned, starts, purges>>

vars == <<diskVars, writable, pc, memoryVars, spent, historyVars>>

-----------------------------------------------------------------------------
File == 1 .. MaxSaves

State == [identity : Token, server : BOOLEAN, runtime : Runtime \cup {None}]

Broken == [identity |-> None, server |-> FALSE, runtime |-> None]

Nothing == [identity |-> None, server |-> TRUE, runtime |-> None]

(* What a reader of the path finds when it names a file. *)
Content(f) ==
  IF f = 0 THEN Nothing ELSE IF written[f] = "whole" THEN value[f] ELSE Broken

(* The promise, over what the path names. *)
Store == INSTANCE StateStore
  WITH Cell <- State, shown <- Content(named),
       kept <- {Content(f) : f \in durable}

(* The state of a fresh identity, before it says which server it is of.    *)
Unbound(t) == [identity |-> t, server |-> FALSE, runtime |-> None]

Bound(s) == [s EXCEPT !.server = TRUE]

Configured(s, config) == [s EXCEPT !.runtime = config]

Busy(p) == pc[p] \notin {"down", "run"}

-----------------------------------------------------------------------------
(* A first installation, or one made by a version that did not record the  *)
(* server its identity belongs to.                                         *)
Init ==
  /\ \E old \in {Unbound(t) : t \in Token} \cup {Nothing} :
       /\ named = IF old = Nothing THEN 0 ELSE 1
       /\ value = [f \in File |-> IF f = named THEN old ELSE Nothing]
       /\ spent = {old.identity} \ {None}
  /\ used = named
  /\ durable = {named}
  /\ written = [f \in File |-> IF f = named THEN "whole" ELSE "none"]
  /\ synced = {named} \ {0}
  /\ promised = (named # 0)
  /\ temps = {}
  /\ writable \in BOOLEAN
  /\ pc = [p \in Process |-> "down"]
  /\ token = [p \in Process |-> None]
  /\ state = [p \in Process |-> Nothing]
  /\ file = [p \in Process |-> 0]
  /\ enrolling = [p \in Process |-> FALSE]
  /\ mishap = FALSE
  /\ abandoned = {}
  /\ starts = 0 /\ purges = 0

Goes(p, place) == pc' = [pc EXCEPT ![p] = place]

(* The process is gone, and its memory with it. *)
Stops(p) ==
  /\ Goes(p, "down")
  /\ token' = [token EXCEPT ![p] = None]
  /\ state' = [state EXCEPT ![p] = Nothing]
  /\ file' = [file EXCEPT ![p] = 0]
  /\ enrolling' = [enrolling EXCEPT ![p] = FALSE]

(* An operator, or the service manager, starts the agent. *)
Start(p, t) ==
  /\ pc[p] = "down"
  /\ starts < MaxStarts
  /\ starts' = starts + 1
  /\ token' = [token EXCEPT ![p] = t]
  /\ Goes(p, "load")
  /\ UNCHANGED <<diskVars, writable, state, file, enrolling, spent, promised,
                 mishap, abandoned, purges>>

(* Load, and what enrolledState makes of it. *)
Load(p) ==
  /\ pc[p] = "load"
  /\ LET found == Content(named)
     IN  IF found = Nothing /\ token[p] # None
         THEN Goes(p, "check") /\ UNCHANGED memoryVars
         ELSE IF found \in {Nothing, Broken} \/ token[p] # None
         THEN Stops(p)
         ELSE /\ state' = [state EXCEPT ![p] = Bound(found)]
              /\ IF found.server
                 THEN Goes(p, "run") /\ UNCHANGED enrolling
                 ELSE /\ enrolling' = [enrolling EXCEPT ![p] = TRUE]
                      /\ Goes(p, "create")
              /\ UNCHANGED <<token, file>>
  /\ UNCHANGED <<diskVars, writable, spent, historyVars>>

(* Mutant of Storable: the filesystem is not asked. *)
StorableUnasked == TRUE

(* EnsureWritable is an actual write. *)
Storable == writable

CheckWritable(p) ==
  /\ pc[p] = "check"
  /\ \/ Storable /\ Goes(p, "enroll") /\ UNCHANGED memoryVars
     \/ Stops(p)
  /\ UNCHANGED <<diskVars, writable, spent, historyVars>>

(* Enroll: the server exchanges a token once, and its answer may be lost.  *)
Enroll(p) ==
  /\ pc[p] = "enroll"
  /\ token[p] \notin spent
  /\ spent' = spent \cup {token[p]}
  /\ \/ /\ state' = [state EXCEPT ![p] = Bound(Unbound(token[p]))]
        /\ enrolling' = [enrolling EXCEPT ![p] = TRUE]
        /\ Goes(p, "create")
        /\ UNCHANGED <<token, file, mishap>>
     \/ mishap' = TRUE /\ Stops(p)
  /\ UNCHANGED <<diskVars, writable, promised, abandoned, starts, purges>>

(* The server refuses the token, or cannot be reached. *)
EnrollRefused(p) ==
  /\ pc[p] = "enroll"
  /\ Stops(p)
  /\ UNCHANGED <<diskVars, writable, spent, historyVars>>

(* A report brings another configuration (Runner says when it is stored).  *)
Exchange(p, config) ==
  /\ pc[p] = "run"
  /\ state' = [state EXCEPT ![p] = Configured(state[p], config)]
  /\ enrolling' = [enrolling EXCEPT ![p] = FALSE]
  /\ Goes(p, "create")
  /\ UNCHANGED <<diskVars, writable, token, file, spent, historyVars>>
-----------------------------------------------------------------------------
(* Save.  It returns to the loop, or to enrolledState, which gives up when *)
(* it failed.  It promises nothing of a file deleted before it returned.   *)
Saved(p) ==
  /\ promised' = (named' # 0)
  /\ file' = [file EXCEPT ![p] = 0]
  /\ Goes(p, "run")
  /\ UNCHANGED <<token, state, enrolling>>

(* Mutant of Removed: the temporary file is left behind. *)
RemovedNothing(p) == temps

(* The deferred Remove. *)
Removed(p) == temps \ {file[p]}

SaveFails(p) ==
  /\ temps' = Removed(p)
  /\ IF enrolling[p]
     THEN Stops(p)
     ELSE /\ file' = [file EXCEPT ![p] = 0]
          /\ Goes(p, "run")
          /\ UNCHANGED <<token, state, enrolling>>

(* Mutant of TempFile: one temporary name for every writer. *)
SharedTempFile == 1

(* CreateTemp makes a file that did not exist. *)
TempFile == used + 1

CreateTemp(p) ==
  /\ pc[p] = "create"
  /\ \/ /\ writable
        /\ used < MaxSaves
        /\ used' = TempFile
        /\ file' = [file EXCEPT ![p] = TempFile]
        /\ temps' = temps \cup {TempFile}
        /\ value' = [value EXCEPT ![TempFile] = state[p]]
        /\ Goes(p, "write")
        /\ UNCHANGED <<token, state, enrolling, mishap>>
     \/ /\ SaveFails(p)
        /\ mishap' = (mishap \/ writable)
        /\ UNCHANGED <<value, used>>
  /\ UNCHANGED <<named, durable, written, synced, writable, spent, promised,
                 abandoned, starts, purges>>

(* A write may stop half-way. *)
WriteTemp(p) ==
  /\ pc[p] = "write"
  /\ \/ /\ written' = [written EXCEPT ![file[p]] = "whole"]
        /\ Goes(p, "sync")
        /\ UNCHANGED <<memoryVars, temps, mishap>>
     \/ /\ written' = [written EXCEPT ![file[p]] = "part"]
        /\ SaveFails(p)
        /\ mishap' = TRUE
  /\ UNCHANGED <<named, durable, value, synced, used, writable, spent, promised,
                 abandoned, starts, purges>>

(* Mutant of Flushed: the contents are left to the cache. *)
FlushedLater(f) == synced

Flushed(f) == synced \cup {f}

SyncTemp(p) ==
  /\ pc[p] = "sync"
  /\ \/ /\ synced' = Flushed(file[p])
        /\ Goes(p, "rename")
        /\ UNCHANGED <<memoryVars, temps, mishap>>
     \/ /\ SaveFails(p)
        /\ mishap' = TRUE
        /\ UNCHANGED synced
  /\ UNCHANGED <<named, durable, written, value, used, writable, spent,
                 promised, abandoned, starts, purges>>

Rename(p) ==
  /\ pc[p] = "rename"
  /\ \/ /\ named' = file[p]
        /\ durable' = durable \cup {file[p]}
        /\ temps' = temps \ {file[p]}
        /\ IF SyncsDirectory
           THEN Goes(p, "syncdir") /\ UNCHANGED <<memoryVars, promised>>
           ELSE Saved(p)
        /\ UNCHANGED mishap
     \/ /\ SaveFails(p)
        /\ mishap' = TRUE
        /\ UNCHANGED <<named, durable, promised>>
  /\ UNCHANGED <<written, value, synced, used, writable, spent, abandoned,
                 starts, purges>>

(* Mutant of Settled: the directory is not synced. *)
SettledLater == durable

Settled == {named}

SyncDirectory(p) ==
  /\ pc[p] = "syncdir"
  /\ UNCHANGED named
  /\ \/ /\ durable' = Settled
        /\ Saved(p)
        /\ UNCHANGED <<temps, mishap>>
     \/ /\ SaveFails(p)
        /\ mishap' = TRUE
        /\ UNCHANGED <<durable, promised>>
  /\ UNCHANGED <<written, value, synced, used, writable, spent,
                 abandoned, starts, purges>>
-----------------------------------------------------------------------------
(* A process dies where it is; what it was writing stays. *)
Kill(p) ==
  /\ pc[p] # "down"
  /\ Stops(p)
  /\ mishap' = (mishap \/ Busy(p))
  /\ abandoned' = abandoned \cup ({file[p]} \cap temps)
  /\ UNCHANGED <<diskVars, writable, spent, promised, starts, purges>>

(* What was not synced may be undone, in part or altogether. *)
PowerLoss ==
  /\ \E p \in Process : pc[p] # "down"
  /\ named' \in durable
  /\ durable' = {named'}
  /\ written' \in [File -> {"none", "part", "whole"}]
  /\ \A f \in File :
       f \in synced \/ f \notin durable => written'[f] = written[f]
  /\ \A f \in File : written[f] = "none" => written'[f] = "none"
  /\ \A f \in File : written[f] = "part" => written'[f] # "whole"
  /\ pc' = [p \in Process |-> "down"]
  /\ token' = [p \in Process |-> None]
  /\ state' = [p \in Process |-> Nothing]
  /\ file' = [p \in Process |-> 0]
  /\ enrolling' = [p \in Process |-> FALSE]
  /\ mishap' = TRUE
  /\ abandoned' = abandoned \cup temps
  /\ UNCHANGED <<value, synced, temps, used, writable, spent, promised, starts,
                 purges>>

(* service uninstall --purge deletes the identity, whoever is running.     *)
Purge ==
  /\ named # 0
  /\ purges < MaxPurges
  /\ purges' = purges + 1
  /\ named' = 0
  /\ durable' = durable \cup {0}
  /\ promised' = FALSE
  /\ UNCHANGED <<written, value, synced, temps, used, writable, pc, memoryVars,
                 spent, mishap, abandoned, starts>>

Next ==
  \/ \E p \in Process, t \in Token \cup {None} : Start(p, t)
  \/ \E p \in Process : Load(p)
  \/ \E p \in Process : CheckWritable(p)
  \/ \E p \in Process : Enroll(p)
  \/ \E p \in Process : EnrollRefused(p)
  \/ \E p \in Process, config \in Runtime : Exchange(p, config)
  \/ \E p \in Process : CreateTemp(p)
  \/ \E p \in Process : WriteTemp(p)
  \/ \E p \in Process : SyncTemp(p)
  \/ \E p \in Process : Rename(p)
  \/ \E p \in Process : SyncDirectory(p)
  \/ \E p \in Process : Kill(p)
  \/ PowerLoss
  \/ Purge

Spec == Init /\ [][Next]_vars
-----------------------------------------------------------------------------
DiskTypeOK ==
  /\ named \in File \cup {0}
  /\ durable \subseteq File \cup {0} /\ named \in durable
  /\ written \in [File -> {"none", "part", "whole"}]
  /\ value \in [File -> State \cup {Nothing}]
  /\ synced \subseteq File /\ temps \subseteq File
  /\ used \in 0 .. MaxSaves

Place == {"down", "load", "check", "enroll", "run", "create", "write", "sync",
          "rename", "syncdir"}

ProcessTypeOK ==
  /\ pc \in [Process -> Place]
  /\ token \in [Process -> Token \cup {None}]
  /\ state \in [Process -> State \cup {Nothing}]
  /\ file \in [Process -> File \cup {0}]
  /\ enrolling \in [Process -> BOOLEAN]

HistoryTypeOK ==
  /\ spent \subseteq Token
  /\ abandoned \subseteq File
  /\ starts \in Nat /\ purges \in Nat
  /\ writable \in BOOLEAN /\ promised \in BOOLEAN /\ mishap \in BOOLEAN

(* Two processes never write to one file. *)
OwnFiles ==
  \A p, q \in Process : file[p] = file[q] /\ p # q => file[p] = 0

(* Typing: a process that saves holds a state of its own, and a file of    *)
(* its own that nobody else writes to (config.go:148).                     *)
TypeOK == DiskTypeOK /\ ProcessTypeOK /\ HistoryTypeOK /\ OwnFiles

(* A failed write leaves the previous identity intact and readers see      *)
(* whole JSON (config.go:146-147): the path behaves as one cell, whatever  *)
(* fails, dies or loses power.                                             *)
AtomicStore == Store!StoreSpec

(* An identity that was stored is stored for good (config.go:171): once a  *)
(* Save has succeeded, no failed Save, no crash and no power loss leaves   *)
(* the agent without an identity the server gave it; deleting the file     *)
(* does.  Of two enrollments at once either identity may be the one kept.  *)
IdentityKept == promised => Content(named).identity \in spent

(* A token is good once, and it is only spent when the identity can be     *)
(* stored (config.go:186-190, main.go:397-398): unless something broke     *)
(* afterwards, or the file was deleted, a spent token has left an identity.*)
TokenBuysIdentity ==
  ~mishap /\ purges = 0 /\ spent # {} /\ (\A p \in Process : ~Busy(p)) =>
    Content(named).identity \in spent

(* Save leaves no file of its own behind, whichever of its steps failed;   *)
(* only a death in the middle does (config.go:152).                        *)
NoLitter ==
  temps \subseteq abandoned \cup {file[p] : p \in Process}
=============================================================================
