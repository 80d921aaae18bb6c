-------------------------- MODULE StateFileProofs --------------------------
(***************************************************************************)
(* Theorems about StateFile, for any processes, tokens and configurations  *)
(* and any number of files, starts and deletions.                          *)
(***************************************************************************)
EXTENDS StateFile, TLAPS

(* A file that can be read: whole, on disk, and of an identity the server  *)
(* gave out.                                                               *)
Readable(f) ==
  /\ f \in synced
  /\ written[f] = "whole"
  /\ value[f] \in State
  /\ value[f].identity \in spent

(* Only readable files are ever named, and no name is used again.          *)
Disk ==
  /\ \A f \in durable : f # 0 => Readable(f)
  /\ \A f \in durable \cup temps : f <= used
  /\ \A p \in Process : file[p] <= used
  /\ 0 \notin temps

(* What a process that saves has done so far, to a file that is its own    *)
(* until the rename.                                                       *)
Saving(p) ==
  /\ file[p] # 0 <=> pc[p] \in {"write", "sync", "rename", "syncdir"}
  /\ pc[p] \in {"write", "sync", "rename"} =>
       /\ file[p] \notin durable
       /\ value[file[p]] = state[p]
  /\ pc[p] \in {"sync", "rename"} => written[file[p]] = "whole"
  /\ pc[p] = "rename" => file[p] \in synced
  /\ pc[p] = "syncdir" => file[p] \notin temps

(* What a process holds, and that it asks for an identity only where it    *)
(* can be stored.                                                          *)
Holding(p) ==
  /\ pc[p] \in {"run", "create", "write", "sync", "rename", "syncdir"} =>
       state[p] \in State
  /\ state[p] \in State => state[p].identity \in spent
  /\ pc[p] \in {"check", "enroll"} => token[p] \in Token
  /\ pc[p] = "enroll" => writable

Kept ==
  /\ TypeOK
  /\ Disk
  /\ \A p \in Process : Saving(p) /\ Holding(p)

LEMMA NothingIsNoState ==
  /\ Nothing \notin State /\ Broken \notin State
  /\ Nothing # Broken
  /\ Nothing.identity = None /\ Broken.identity = None
  /\ \A t \in Token : Unbound(t) \in State /\ Unbound(t).identity = t
  BY FileAssumption DEF Nothing, Broken, State, Unbound

LEMMA ChangedState ==
  ASSUME NEW s \in State
  PROVE  /\ Bound(s) \in State /\ Bound(s).identity = s.identity
         /\ \A config \in Runtime :
              /\ Configured(s, config) \in State
              /\ Configured(s, config).identity = s.identity
  BY DEF State, Bound, Configured

LEMMA KeptInit == Init => Kept
  <1> SUFFICES ASSUME Init PROVE Kept
    OBVIOUS
  <1> USE FileAssumption, NothingIsNoState
  <1>1. PICK old \in {Unbound(t) : t \in Token} \cup {Nothing} :
          /\ named = IF old = Nothing THEN 0 ELSE 1
          /\ value = [f \in File |-> IF f = named THEN old ELSE Nothing]
          /\ spent = {old.identity} \ {None}
    BY DEF Init
  <1>2. named \in {0, 1} /\ 1 \in File /\ 0 \notin File
    BY <1>1 DEF File
  <1>3. /\ old \in State \cup {Nothing}
        /\ named # 0 => old \in State /\ old.identity \in spent
        /\ spent \subseteq Token
    BY <1>1
  <1>4. TypeOK
    <2> USE DEF Init
    <2>1. DiskTypeOK
      BY <1>1, <1>2, <1>3 DEF DiskTypeOK, File
    <2>2. ProcessTypeOK
      <3>1. pc \in [Process -> Place]
        BY DEF Place
      <3>2. enrolling \in [Process -> BOOLEAN]
        OBVIOUS
      <3>3. /\ token \in [Process -> Token \cup {None}]
            /\ state \in [Process -> State \cup {Nothing}]
            /\ file \in [Process -> File \cup {0}]
        OBVIOUS
      <3> QED
        BY <3>1, <3>2, <3>3 DEF ProcessTypeOK
    <2>3. HistoryTypeOK
      BY <1>3 DEF HistoryTypeOK
    <2>4. OwnFiles
      BY DEF OwnFiles
    <2> QED
      BY <2>1, <2>2, <2>3, <2>4 DEF TypeOK
  <1>5. Disk
    BY <1>1, <1>2, <1>3 DEF Init, Disk, Readable
  <1>6. \A p \in Process : Saving(p) /\ Holding(p)
    BY DEF Init, Saving, Holding
  <1> QED
    BY <1>4, <1>5, <1>6 DEF Kept

LEMMA Numbers ==
  ASSUME Kept
  PROVE  /\ used \in Nat
         /\ \A p \in Process : file[p] \in Nat /\ file[p] <= used
  <1>1. File \subseteq Nat /\ MaxSaves \in Nat
    BY FileAssumption DEF File
  <1>2. used \in Nat
    BY <1>1 DEF Kept, TypeOK, DiskTypeOK
  <1>3. \A p \in Process : file[p] \in Nat
    <2>1. file \in [Process -> File \cup {0}]
      BY DEF Kept, TypeOK, ProcessTypeOK
    <2> QED
      BY <2>1, FileAssumption DEF File
  <1>4. \A p \in Process : file[p] <= used
    BY DEF Kept, Disk
  <1> QED
    BY <1>2, <1>3, <1>4

(* Every step of every process, and every accident, keeps the disk in      *)
(* order.                                                                  *)
LEMMA KeptStart ==
  ASSUME Kept, NEW p \in Process, NEW t \in Token \cup {None}, Start(p, t)
  PROVE  Kept'
  <1> USE FileAssumption
      DEF Kept, Start, Goes, diskVars
  <1>1. DiskTypeOK'
    BY DEF TypeOK, DiskTypeOK, ProcessTypeOK
  <1>2. ProcessTypeOK'
    BY DEF TypeOK, ProcessTypeOK, DiskTypeOK, Place
  <1>3. HistoryTypeOK'
    BY DEF TypeOK, HistoryTypeOK, ProcessTypeOK, DiskTypeOK
  <1>4. OwnFiles'
    BY DEF TypeOK, OwnFiles, ProcessTypeOK, DiskTypeOK
  <1>5. Disk'
    BY DEF TypeOK, DiskTypeOK, ProcessTypeOK, Disk, Readable
  <1>6. \A q \in Process : Saving(q)'
    BY DEF TypeOK, ProcessTypeOK, DiskTypeOK, Saving
  <1>7. \A q \in Process : Holding(q)'
    BY DEF TypeOK, ProcessTypeOK, HistoryTypeOK, Holding
  <1> QED
    BY <1>1, <1>2, <1>3, <1>4, <1>5, <1>6, <1>7 DEF TypeOK

LEMMA KeptLoad ==
  ASSUME Kept, NEW p \in Process, Load(p)
  PROVE  Kept'
  <1> USE FileAssumption, NothingIsNoState
      DEF Kept, Load, Goes, Stops, diskVars, memoryVars, historyVars
  <1>0. \/ Content(named) \in {Nothing, Broken}
        \/ /\ Content(named) \in State
           /\ Content(named).identity \in spent
           /\ Content(named).server \in BOOLEAN
    BY DEF TypeOK, DiskTypeOK, Disk, Content, Readable, State
  <1>1. DiskTypeOK'
    BY DEF TypeOK, DiskTypeOK, ProcessTypeOK
  <1>2. ProcessTypeOK'
    <2> USE <1>0, ChangedState DEF TypeOK, ProcessTypeOK, DiskTypeOK
    <2>1. pc' \in [Process -> Place]
      BY DEF Place
    <2>2. token' \in [Process -> Token \cup {None}]
      OBVIOUS
    <2>3. state' \in [Process -> State \cup {Nothing}]
      OBVIOUS
    <2>4. file' \in [Process -> File \cup {0}]
      OBVIOUS
    <2>5. enrolling' \in [Process -> BOOLEAN]
      <3> HIDE DEF Load
      <3>1. \/ enrolling' = enrolling
            \/ enrolling' = [enrolling EXCEPT ![p] = FALSE]
            \/ enrolling' = [enrolling EXCEPT ![p] = TRUE]
        BY DEF Load
      <3>2. enrolling \in [Process -> BOOLEAN]
        OBVIOUS
      <3> QED
        BY ONLY <3>1, <3>2
    <2> QED
      BY <2>1, <2>2, <2>3, <2>4, <2>5
  <1>3. HistoryTypeOK'
    BY DEF TypeOK, HistoryTypeOK, ProcessTypeOK, DiskTypeOK
  <1>4. OwnFiles'
    BY DEF TypeOK, OwnFiles, ProcessTypeOK, DiskTypeOK
  <1>5. Disk'
    BY DEF TypeOK, DiskTypeOK, ProcessTypeOK, Disk, Readable
  <1>6. \A q \in Process : Saving(q)'
    BY DEF TypeOK, ProcessTypeOK, DiskTypeOK, Saving
  <1>7. \A q \in Process : Holding(q)'
    BY <1>0, ChangedState DEF TypeOK, ProcessTypeOK, HistoryTypeOK, Holding
  <1> QED
    BY <1>1, <1>2, <1>3, <1>4, <1>5, <1>6, <1>7 DEF TypeOK

LEMMA KeptCheckWritable ==
  ASSUME Kept, NEW p \in Process, CheckWritable(p)
  PROVE  Kept'
  <1> USE FileAssumption, NothingIsNoState
      DEF Kept, CheckWritable, Storable, Goes, Stops, diskVars, memoryVars, historyVars
  <1>1. DiskTypeOK'
    BY DEF TypeOK, DiskTypeOK, ProcessTypeOK
  <1>2. ProcessTypeOK'
    BY DEF TypeOK, ProcessTypeOK, DiskTypeOK, Place
  <1>3. HistoryTypeOK'
    BY DEF TypeOK, HistoryTypeOK, ProcessTypeOK, DiskTypeOK
  <1>4. OwnFiles'
    BY DEF TypeOK, OwnFiles, ProcessTypeOK, DiskTypeOK
  <1>5. Disk'
    BY DEF TypeOK, DiskTypeOK, ProcessTypeOK, Disk, Readable
  <1>6. \A q \in Process : Saving(q)'
    BY DEF TypeOK, ProcessTypeOK, DiskTypeOK, Saving
  <1>7. \A q \in Process : Holding(q)'
    BY DEF TypeOK, ProcessTypeOK, HistoryTypeOK, Holding
  <1> QED
    BY <1>1, <1>2, <1>3, <1>4, <1>5, <1>6, <1>7 DEF TypeOK

LEMMA KeptEnroll ==
  ASSUME Kept, NEW p \in Process, Enroll(p)
  PROVE  Kept'
  <1> USE FileAssumption, NothingIsNoState
      DEF Kept, Enroll, Goes, Stops, diskVars
  <1>0. /\ token[p] \in Token
        /\ Bound(Unbound(token[p])) \in State
        /\ Bound(Unbound(token[p])).identity = token[p]
    BY ChangedState DEF Holding
  <1>1. DiskTypeOK'
    BY DEF TypeOK, DiskTypeOK, ProcessTypeOK
  <1>2. ProcessTypeOK'
    <2> USE <1>0 DEF TypeOK, ProcessTypeOK, DiskTypeOK
    <2>1. pc' \in [Process -> Place]
      BY DEF Place
    <2>2. token' \in [Process -> Token \cup {None}]
      OBVIOUS
    <2>3. state' \in [Process -> State \cup {Nothing}]
      OBVIOUS
    <2>4. file' \in [Process -> File \cup {0}]
      OBVIOUS
    <2>5. enrolling' \in [Process -> BOOLEAN]
      OBVIOUS
    <2> QED
      BY <2>1, <2>2, <2>3, <2>4, <2>5
  <1>3. HistoryTypeOK'
    BY <1>0 DEF TypeOK, HistoryTypeOK, ProcessTypeOK, DiskTypeOK
  <1>4. OwnFiles'
    BY DEF TypeOK, OwnFiles, ProcessTypeOK, DiskTypeOK
  <1>5. Disk'
    BY DEF TypeOK, DiskTypeOK, ProcessTypeOK, Disk, Readable
  <1>6. \A q \in Process : Saving(q)'
    BY DEF TypeOK, ProcessTypeOK, DiskTypeOK, Saving
  <1>7. \A q \in Process : Holding(q)'
    BY <1>0 DEF TypeOK, ProcessTypeOK, HistoryTypeOK, Holding
  <1> QED
    BY <1>1, <1>2, <1>3, <1>4, <1>5, <1>6, <1>7 DEF TypeOK

LEMMA KeptEnrollRefused ==
  ASSUME Kept, NEW p \in Process, EnrollRefused(p)
  PROVE  Kept'
  <1> USE FileAssumption, NothingIsNoState
      DEF Kept, EnrollRefused, Goes, Stops, diskVars, historyVars
  <1>1. DiskTypeOK'
    BY DEF TypeOK, DiskTypeOK, ProcessTypeOK
  <1>2. ProcessTypeOK'
    BY DEF TypeOK, ProcessTypeOK, DiskTypeOK, Place
  <1>3. HistoryTypeOK'
    BY DEF TypeOK, HistoryTypeOK, ProcessTypeOK, DiskTypeOK
  <1>4. OwnFiles'
    BY DEF TypeOK, OwnFiles, ProcessTypeOK, DiskTypeOK
  <1>5. Disk'
    BY DEF TypeOK, DiskTypeOK, ProcessTypeOK, Disk, Readable
  <1>6. \A q \in Process : Saving(q)'
    BY DEF TypeOK, ProcessTypeOK, DiskTypeOK, Saving
  <1>7. \A q \in Process : Holding(q)'
    BY DEF TypeOK, ProcessTypeOK, HistoryTypeOK, Holding
  <1> QED
    BY <1>1, <1>2, <1>3, <1>4, <1>5, <1>6, <1>7 DEF TypeOK

LEMMA KeptExchange ==
  ASSUME Kept, NEW p \in Process, NEW config \in Runtime, Exchange(p, config)
  PROVE  Kept'
  <1> USE FileAssumption
      DEF Kept, Exchange, Goes, diskVars, historyVars
  <1>1. DiskTypeOK'
    BY DEF TypeOK, DiskTypeOK, ProcessTypeOK
  <1>2. ProcessTypeOK'
    BY ChangedState DEF TypeOK, ProcessTypeOK, DiskTypeOK, Place, Holding
  <1>3. HistoryTypeOK'
    BY DEF TypeOK, HistoryTypeOK, ProcessTypeOK, DiskTypeOK
  <1>4. OwnFiles'
    BY DEF TypeOK, OwnFiles, ProcessTypeOK, DiskTypeOK
  <1>5. Disk'
    BY DEF TypeOK, DiskTypeOK, ProcessTypeOK, Disk, Readable
  <1>6. \A q \in Process : Saving(q)'
    BY DEF TypeOK, ProcessTypeOK, DiskTypeOK, Saving
  <1>7. \A q \in Process : Holding(q)'
    BY ChangedState DEF TypeOK, ProcessTypeOK, HistoryTypeOK, Holding
  <1> QED
    BY <1>1, <1>2, <1>3, <1>4, <1>5, <1>6, <1>7 DEF TypeOK

LEMMA KeptCreateTemp ==
  ASSUME Kept, NEW p \in Process, CreateTemp(p)
  PROVE  Kept'
  <1> USE FileAssumption, NothingIsNoState
      DEF Kept, CreateTemp, TempFile, Goes, Stops, Removed, SaveFails, memoryVars
  <1>0. /\ state[p] \in State
        /\ used < MaxSaves => used + 1 \in File
        /\ 0 \notin File /\ File \subseteq Nat
    BY DEF TypeOK, DiskTypeOK, Holding, File
  <1>1. DiskTypeOK'
    <2>1. used' \in 0 .. MaxSaves
      BY DEF TypeOK, DiskTypeOK
    <2>2. /\ temps' \subseteq File
          /\ value' \in [File -> State \cup {Nothing}]
      BY <1>0 DEF TypeOK, DiskTypeOK
    <2> QED
      BY <2>1, <2>2 DEF TypeOK, DiskTypeOK
  <1>2. ProcessTypeOK'
    <2> USE <1>0 DEF TypeOK, ProcessTypeOK, DiskTypeOK
    <2>1. pc' \in [Process -> Place]
      BY DEF Place
    <2>2. token' \in [Process -> Token \cup {None}]
      OBVIOUS
    <2>3. state' \in [Process -> State \cup {Nothing}]
      OBVIOUS
    <2>4. file' \in [Process -> File \cup {0}]
      OBVIOUS
    <2>5. enrolling' \in [Process -> BOOLEAN]
      OBVIOUS
    <2> QED
      BY <2>1, <2>2, <2>3, <2>4, <2>5
  <1>3. HistoryTypeOK'
    BY DEF TypeOK, HistoryTypeOK, ProcessTypeOK, DiskTypeOK
  <1>4. OwnFiles'
    BY DEF TypeOK, OwnFiles, ProcessTypeOK, DiskTypeOK, Disk
  <1>5. Disk'
    <2>1. \A f \in durable \cup temps : f # used + 1 /\ f <= used + 1
      BY <1>0 DEF TypeOK, DiskTypeOK, Disk
    <2>2. \A f \in durable : f # 0 => Readable(f)'
      BY <2>1 DEF TypeOK, DiskTypeOK, Disk, Readable
    <2>3. \A f \in durable' \cup temps' : f <= used'
      BY <2>1, <1>0 DEF TypeOK, DiskTypeOK, Disk
    <2>4. \A q \in Process : file'[q] <= used'
      <3>1. \A q \in Process : file'[q] \in {file[q], 0, used'}
        BY DEF TypeOK, ProcessTypeOK
      <3>2. used' \in {used, used + 1}
        OBVIOUS
      <3> QED
        BY <3>1, <3>2, Numbers
    <2>5. 0 \notin temps'
      BY <1>0 DEF TypeOK, DiskTypeOK, Disk
    <2> QED
      BY <2>2, <2>3, <2>4, <2>5 DEF Disk
  <1>6. \A q \in Process : Saving(q)'
    BY <1>0 DEF TypeOK, ProcessTypeOK, DiskTypeOK, Saving, Disk
  <1>7. \A q \in Process : Holding(q)'
    BY DEF TypeOK, ProcessTypeOK, HistoryTypeOK, Holding
  <1> QED
    BY <1>1, <1>2, <1>3, <1>4, <1>5, <1>6, <1>7 DEF TypeOK

LEMMA KeptWriteTemp ==
  ASSUME Kept, NEW p \in Process, WriteTemp(p)
  PROVE  Kept'
  <1> USE FileAssumption, NothingIsNoState
      DEF Kept, WriteTemp, Goes, Stops, Removed, SaveFails, memoryVars
  <1>1. DiskTypeOK'
    BY DEF TypeOK, DiskTypeOK, ProcessTypeOK, Saving
  <1>2. ProcessTypeOK'
    <2> USE DEF TypeOK, ProcessTypeOK, DiskTypeOK
    <2>1. pc' \in [Process -> Place]
      BY DEF Place
    <2>2. token' \in [Process -> Token \cup {None}]
      OBVIOUS
    <2>3. state' \in [Process -> State \cup {Nothing}]
      OBVIOUS
    <2>4. file' \in [Process -> File \cup {0}]
      OBVIOUS
    <2>5. enrolling' \in [Process -> BOOLEAN]
      OBVIOUS
    <2> QED
      BY <2>1, <2>2, <2>3, <2>4, <2>5
  <1>3. HistoryTypeOK'
    BY DEF TypeOK, HistoryTypeOK, ProcessTypeOK, DiskTypeOK
  <1>4. OwnFiles'
    BY DEF TypeOK, OwnFiles, ProcessTypeOK, DiskTypeOK
  <1>5. Disk'
    BY DEF TypeOK, DiskTypeOK, ProcessTypeOK, Disk, Readable, Saving
  <1>6. \A q \in Process : Saving(q)'
    BY DEF TypeOK, ProcessTypeOK, DiskTypeOK, Saving, OwnFiles
  <1>7. \A q \in Process : Holding(q)'
    BY DEF TypeOK, ProcessTypeOK, HistoryTypeOK, Holding
  <1> QED
    BY <1>1, <1>2, <1>3, <1>4, <1>5, <1>6, <1>7 DEF TypeOK

LEMMA KeptSyncTemp ==
  ASSUME Kept, NEW p \in Process, SyncTemp(p)
  PROVE  Kept'
  <1> USE FileAssumption, NothingIsNoState
      DEF Kept, SyncTemp, Flushed, Goes, Stops, Removed, SaveFails, memoryVars
  <1>1. DiskTypeOK'
    BY DEF TypeOK, DiskTypeOK, ProcessTypeOK, Saving
  <1>2. ProcessTypeOK'
    <2> USE DEF TypeOK, ProcessTypeOK, DiskTypeOK
    <2>1. pc' \in [Process -> Place]
      BY DEF Place
    <2>2. token' \in [Process -> Token \cup {None}]
      OBVIOUS
    <2>3. state' \in [Process -> State \cup {Nothing}]
      OBVIOUS
    <2>4. file' \in [Process -> File \cup {0}]
      OBVIOUS
    <2>5. enrolling' \in [Process -> BOOLEAN]
      OBVIOUS
    <2> QED
      BY <2>1, <2>2, <2>3, <2>4, <2>5
  <1>3. HistoryTypeOK'
    BY DEF TypeOK, HistoryTypeOK, ProcessTypeOK, DiskTypeOK
  <1>4. OwnFiles'
    BY DEF TypeOK, OwnFiles, ProcessTypeOK, DiskTypeOK
  <1>5. Disk'
    BY DEF TypeOK, DiskTypeOK, ProcessTypeOK, Disk, Readable
  <1>6. \A q \in Process : Saving(q)'
    BY DEF TypeOK, ProcessTypeOK, DiskTypeOK, Saving
  <1>7. \A q \in Process : Holding(q)'
    BY DEF TypeOK, ProcessTypeOK, HistoryTypeOK, Holding
  <1> QED
    BY <1>1, <1>2, <1>3, <1>4, <1>5, <1>6, <1>7 DEF TypeOK

LEMMA KeptRename ==
  ASSUME Kept, NEW p \in Process, Rename(p)
  PROVE  Kept'
  <1> USE FileAssumption, NothingIsNoState
      DEF Kept, Rename, Saved, Goes, Stops, Removed, SaveFails, memoryVars
  <1>1. DiskTypeOK'
    BY DEF TypeOK, DiskTypeOK, ProcessTypeOK, Saving
  <1>2. ProcessTypeOK'
    <2> USE DEF TypeOK, ProcessTypeOK, DiskTypeOK
    <2>1. pc' \in [Process -> Place]
      BY DEF Place
    <2>2. token' \in [Process -> Token \cup {None}]
      OBVIOUS
    <2>3. state' \in [Process -> State \cup {Nothing}]
      OBVIOUS
    <2>4. file' \in [Process -> File \cup {0}]
      OBVIOUS
    <2>5. enrolling' \in [Process -> BOOLEAN]
      OBVIOUS
    <2> QED
      BY <2>1, <2>2, <2>3, <2>4, <2>5
  <1>3. HistoryTypeOK'
    BY DEF TypeOK, HistoryTypeOK, ProcessTypeOK, DiskTypeOK
  <1>4. OwnFiles'
    BY DEF TypeOK, OwnFiles, ProcessTypeOK, DiskTypeOK
  <1>5. Disk'
    BY DEF TypeOK, DiskTypeOK, ProcessTypeOK, Disk, Readable, Saving, Holding
  <1>6. \A q \in Process : Saving(q)'
    BY DEF TypeOK, ProcessTypeOK, DiskTypeOK, Saving, OwnFiles
  <1>7. \A q \in Process : Holding(q)'
    BY DEF TypeOK, ProcessTypeOK, HistoryTypeOK, Holding
  <1> QED
    BY <1>1, <1>2, <1>3, <1>4, <1>5, <1>6, <1>7 DEF TypeOK

LEMMA KeptSyncDirectory ==
  ASSUME Kept, NEW p \in Process, SyncDirectory(p)
  PROVE  Kept'
  <1> USE FileAssumption, NothingIsNoState
      DEF Kept, SyncDirectory, Saved, Settled, Goes, Stops, Removed, SaveFails, memoryVars
  <1>1. DiskTypeOK'
    BY DEF TypeOK, DiskTypeOK, ProcessTypeOK
  <1>2. ProcessTypeOK'
    <2> USE DEF TypeOK, ProcessTypeOK, DiskTypeOK
    <2>1. pc' \in [Process -> Place]
      BY DEF Place
    <2>2. token' \in [Process -> Token \cup {None}]
      OBVIOUS
    <2>3. state' \in [Process -> State \cup {Nothing}]
      OBVIOUS
    <2>4. file' \in [Process -> File \cup {0}]
      OBVIOUS
    <2>5. enrolling' \in [Process -> BOOLEAN]
      OBVIOUS
    <2> QED
      BY <2>1, <2>2, <2>3, <2>4, <2>5
  <1>3. HistoryTypeOK'
    BY DEF TypeOK, HistoryTypeOK, ProcessTypeOK, DiskTypeOK
  <1>4. OwnFiles'
    BY DEF TypeOK, OwnFiles, ProcessTypeOK, DiskTypeOK
  <1>5. Disk'
    BY DEF TypeOK, DiskTypeOK, ProcessTypeOK, Disk, Readable
  <1>6. \A q \in Process : Saving(q)'
    BY DEF TypeOK, ProcessTypeOK, DiskTypeOK, Saving
  <1>7. \A q \in Process : Holding(q)'
    BY DEF TypeOK, ProcessTypeOK, HistoryTypeOK, Holding
  <1> QED
    BY <1>1, <1>2, <1>3, <1>4, <1>5, <1>6, <1>7 DEF TypeOK

LEMMA KeptKill ==
  ASSUME Kept, NEW p \in Process, Kill(p)
  PROVE  Kept'
  <1> USE FileAssumption, NothingIsNoState
      DEF Kept, Kill, Goes, Stops, diskVars
  <1>1. DiskTypeOK'
    BY DEF TypeOK, DiskTypeOK, ProcessTypeOK
  <1>2. ProcessTypeOK'
    BY DEF TypeOK, ProcessTypeOK, DiskTypeOK, Place
  <1>3. HistoryTypeOK'
    BY DEF TypeOK, HistoryTypeOK, ProcessTypeOK, DiskTypeOK
  <1>4. OwnFiles'
    BY DEF TypeOK, OwnFiles, ProcessTypeOK, DiskTypeOK
  <1>5. Disk'
    BY DEF TypeOK, DiskTypeOK, ProcessTypeOK, Disk, Readable
  <1>6. \A q \in Process : Saving(q)'
    BY DEF TypeOK, ProcessTypeOK, DiskTypeOK, Saving
  <1>7. \A q \in Process : Holding(q)'
    BY DEF TypeOK, ProcessTypeOK, HistoryTypeOK, Holding
  <1> QED
    BY <1>1, <1>2, <1>3, <1>4, <1>5, <1>6, <1>7 DEF TypeOK

LEMMA KeptPowerLoss ==
  ASSUME Kept, PowerLoss
  PROVE  Kept'
  <1> USE FileAssumption, NothingIsNoState
      DEF Kept, PowerLoss
  <1>0. \A f \in File : written'[f] = written[f]
    BY DEF TypeOK, DiskTypeOK, Disk, Readable, File
  <1>1. DiskTypeOK'
    BY DEF TypeOK, DiskTypeOK, ProcessTypeOK
  <1>2. ProcessTypeOK'
    BY DEF TypeOK, ProcessTypeOK, DiskTypeOK, Place
  <1>3. HistoryTypeOK'
    BY DEF TypeOK, HistoryTypeOK, ProcessTypeOK, DiskTypeOK
  <1>4. OwnFiles'
    BY DEF TypeOK, OwnFiles, ProcessTypeOK, DiskTypeOK
  <1>5. Disk'
    BY <1>0 DEF TypeOK, DiskTypeOK, ProcessTypeOK, Disk, Readable
  <1>6. \A q \in Process : Saving(q)'
    BY <1>0 DEF TypeOK, ProcessTypeOK, DiskTypeOK, Saving
  <1>7. \A q \in Process : Holding(q)'
    BY DEF TypeOK, ProcessTypeOK, HistoryTypeOK, Holding
  <1> QED
    BY <1>1, <1>2, <1>3, <1>4, <1>5, <1>6, <1>7 DEF TypeOK

LEMMA KeptPurge ==
  ASSUME Kept, Purge
  PROVE  Kept'
  <1> USE FileAssumption
      DEF Kept, Purge, memoryVars
  <1>1. DiskTypeOK'
    BY DEF TypeOK, DiskTypeOK, ProcessTypeOK
  <1>2. ProcessTypeOK'
    BY DEF TypeOK, ProcessTypeOK, DiskTypeOK, Place
  <1>3. HistoryTypeOK'
    <2>1. promised' \in BOOLEAN
      OBVIOUS
    <2> QED
      BY <2>1 DEF TypeOK, HistoryTypeOK
  <1>4. OwnFiles'
    BY DEF TypeOK, OwnFiles, ProcessTypeOK, DiskTypeOK
  <1>5. Disk'
    BY DEF TypeOK, DiskTypeOK, ProcessTypeOK, Disk, Readable
  <1>6. \A q \in Process : Saving(q)'
    BY DEF TypeOK, ProcessTypeOK, DiskTypeOK, Saving
  <1>7. \A q \in Process : Holding(q)'
    BY DEF TypeOK, ProcessTypeOK, HistoryTypeOK, Holding
  <1> QED
    BY <1>1, <1>2, <1>3, <1>4, <1>5, <1>6, <1>7 DEF TypeOK

LEMMA KeptStep == Kept /\ [Next]_vars => Kept'
  <1> SUFFICES ASSUME Kept, [Next]_vars PROVE Kept'
    OBVIOUS
  <1>1. ASSUME NEW p \in Process, NEW t \in Token \cup {None}, Start(p, t)
        PROVE  Kept'
    BY <1>1, KeptStart
  <1>2. ASSUME NEW p \in Process, NEW config \in Runtime, Exchange(p, config)
        PROVE  Kept'
    BY <1>2, KeptExchange
  <1>3. ASSUME NEW p \in Process,
               \/ Load(p) \/ CheckWritable(p) \/ Enroll(p) \/ EnrollRefused(p)
        PROVE  Kept'
    BY <1>3, KeptLoad, KeptCheckWritable, KeptEnroll, KeptEnrollRefused
  <1>4. ASSUME NEW p \in Process,
               \/ CreateTemp(p) \/ WriteTemp(p) \/ SyncTemp(p) \/ Rename(p)
               \/ SyncDirectory(p) \/ Kill(p)
        PROVE  Kept'
    BY <1>4, KeptCreateTemp, KeptWriteTemp, KeptSyncTemp, KeptRename,
       KeptSyncDirectory, KeptKill
  <1>5. CASE PowerLoss \/ Purge
    BY <1>5, KeptPowerLoss, KeptPurge
  <1>6. CASE UNCHANGED vars
    BY <1>6 DEF vars, diskVars, memoryVars, historyVars, Kept, TypeOK,
       DiskTypeOK, ProcessTypeOK, HistoryTypeOK, OwnFiles, Disk, Readable,
       Saving, Holding
  <1> QED
    BY <1>1, <1>2, <1>3, <1>4, <1>5, <1>6 DEF Next

(* Every reachable state is well typed: a process that saves holds a state *)
(* of its own, and two processes never write to one file.                  *)
THEOREM TypeCorrect == Spec => []TypeOK
  <1>1. Kept => TypeOK
    BY DEF Kept
  <1> QED
    BY <1>1, KeptInit, KeptStep, PTL DEF Spec

-----------------------------------------------------------------------------
(* A success that was reported left a file, and settled it.                *)
Promise == promised => named # 0 /\ 0 \notin durable

LEMMA PromiseStep ==
  ASSUME SyncsDirectory, Kept, Promise, [Next]_vars
  PROVE  Promise'
  <1> USE DEF Promise
  <1>1. ASSUME NEW p \in Process, NEW t \in Token \cup {None}, Start(p, t)
        PROVE  Promise'
    BY <1>1 DEF Start, diskVars
  <1>2. ASSUME NEW p \in Process, NEW config \in Runtime, Exchange(p, config)
        PROVE  Promise'
    BY <1>2 DEF Exchange, diskVars, historyVars
  <1>3. ASSUME NEW p \in Process,
               \/ Load(p) \/ CheckWritable(p) \/ Enroll(p) \/ EnrollRefused(p)
        PROVE  Promise'
    BY <1>3 DEF Load, CheckWritable, Enroll, EnrollRefused, diskVars, historyVars
  <1>4. ASSUME NEW p \in Process,
               CreateTemp(p) \/ WriteTemp(p) \/ SyncTemp(p) \/ Kill(p)
        PROVE  Promise'
    BY <1>4 DEF CreateTemp, WriteTemp, SyncTemp, Kill, diskVars
  <1>5. ASSUME NEW p \in Process, Rename(p)
        PROVE  Promise'
    BY <1>5, Numbers DEF Rename, Kept, Saving
  <1>6. ASSUME NEW p \in Process, SyncDirectory(p)
        PROVE  Promise'
    BY <1>6 DEF SyncDirectory, Saved, Settled
  <1>7. CASE PowerLoss
    BY <1>7 DEF PowerLoss
  <1>8. CASE Purge
    BY <1>8 DEF Purge
  <1>9. CASE UNCHANGED vars
    BY <1>9 DEF vars, diskVars, historyVars
  <1> QED
    BY <1>1, <1>2, <1>3, <1>4, <1>5, <1>6, <1>7, <1>8, <1>9 DEF Next

(* Where Save ends with a sync of the directory: once a Save has reported  *)
(* success, no failed Save, no death and no power loss leaves the agent    *)
(* without an identity the server gave it, however many processes enroll   *)
(* and save at once, unless the file is deleted.                           *)
THEOREM StoredIdentityStays ==
  ASSUME SyncsDirectory
  PROVE  Spec => []IdentityKept
  <1>1. Init => Promise
    BY DEF Init, Promise
  <1>2. Kept /\ Promise => IdentityKept
    BY DEF Kept, TypeOK, DiskTypeOK, HistoryTypeOK, Disk, Readable, Promise,
       IdentityKept, Content
  <1>3. Kept /\ Promise /\ [Next]_vars => Promise'
    BY PromiseStep
  <1> QED
    BY <1>1, <1>2, <1>3, KeptInit, KeptStep, PTL DEF Spec

-----------------------------------------------------------------------------
(* A token that was spent while nothing broke, and has left no identity    *)
(* yet, is still in the hands of a process that will store one.            *)
InHand ==
  ~mishap /\ purges = 0 /\ spent # {} /\ named = 0 =>
    /\ writable
    /\ \E p \in Process : pc[p] \in {"create", "write", "sync", "rename"}

LEMMA InHandStep ==
  ASSUME Kept, InHand, [Next]_vars
  PROVE  InHand'
  <1> USE DEF InHand, Kept, TypeOK, ProcessTypeOK, Goes
  <1>1. ASSUME NEW p \in Process, NEW t \in Token \cup {None}, Start(p, t)
        PROVE  InHand'
    BY <1>1 DEF Start, diskVars
  <1>2. ASSUME NEW p \in Process, NEW config \in Runtime, Exchange(p, config)
        PROVE  InHand'
    BY <1>2 DEF Exchange, diskVars, historyVars
  <1>3. ASSUME NEW p \in Process, Load(p) \/ CheckWritable(p) \/ EnrollRefused(p)
        PROVE  InHand'
    BY <1>3 DEF Load, CheckWritable, EnrollRefused, Stops, diskVars, historyVars
  <1>4. ASSUME NEW p \in Process, Enroll(p)
        PROVE  InHand'
    BY <1>4 DEF Enroll, diskVars, Holding
  <1>5. ASSUME NEW p \in Process, CreateTemp(p)
        PROVE  InHand'
    BY <1>5 DEF CreateTemp, SaveFails, Stops
  <1>6. ASSUME NEW p \in Process, WriteTemp(p) \/ SyncTemp(p)
        PROVE  InHand'
    BY <1>6 DEF WriteTemp, SyncTemp
  <1>7. ASSUME NEW p \in Process, Rename(p)
        PROVE  InHand'
    BY <1>7 DEF Rename, Saving
  <1>8. ASSUME NEW p \in Process, SyncDirectory(p)
        PROVE  InHand'
    BY <1>8 DEF SyncDirectory, Saved
  <1>9. ASSUME NEW p \in Process, Kill(p)
        PROVE  InHand'
    BY <1>9 DEF Kill, Stops, Busy, diskVars
  <1>10. CASE PowerLoss
    BY <1>10 DEF PowerLoss
  <1>11. CASE Purge
    BY <1>11 DEF Purge, HistoryTypeOK
  <1>12. CASE UNCHANGED vars
    BY <1>12 DEF vars, diskVars, historyVars
  <1> QED
    BY <1>1, <1>2, <1>3, <1>4, <1>5, <1>6, <1>7, <1>8, <1>9, <1>10, <1>11,
       <1>12 DEF Next

(* A token is spent only where its identity can be stored: unless a system *)
(* call failed, a process died or the file was deleted, a spent token has  *)
(* left an identity the server knows.                                      *)
THEOREM SpentTokenLeavesIdentity == Spec => []TokenBuysIdentity
  <1>1. Init => InHand
    BY FileAssumption, NothingIsNoState DEF Init, InHand
  <1>2. Kept /\ InHand => TokenBuysIdentity
    BY DEF Kept, TypeOK, DiskTypeOK, Disk, Readable, InHand, Busy,
       TokenBuysIdentity, Content
  <1>3. Kept /\ InHand /\ [Next]_vars => InHand'
    BY InHandStep
  <1> QED
    BY <1>1, <1>2, <1>3, KeptInit, KeptStep, PTL DEF Spec
-----------------------------------------------------------------------------
LEMMA LitterStep ==
  ASSUME Kept, NoLitter, [Next]_vars
  PROVE  NoLitter'
  <1> USE DEF NoLitter, Kept, TypeOK, ProcessTypeOK, SaveFails, Removed, Stops
  <1>1. ASSUME NEW p \in Process, NEW t \in Token \cup {None}, Start(p, t)
        PROVE  NoLitter'
    BY <1>1 DEF Start, diskVars
  <1>2. ASSUME NEW p \in Process, NEW config \in Runtime, Exchange(p, config)
        PROVE  NoLitter'
    BY <1>2 DEF Exchange, diskVars, historyVars
  <1>3. ASSUME NEW p \in Process,
               \/ Load(p) \/ CheckWritable(p) \/ Enroll(p) \/ EnrollRefused(p)
        PROVE  NoLitter'
    <2>1. temps' = temps /\ abandoned' = abandoned
      BY <1>3 DEF Load, CheckWritable, Enroll, EnrollRefused, diskVars,
                  historyVars
    <2>2. file[p] = 0
      BY <1>3 DEF Load, CheckWritable, Enroll, EnrollRefused, Saving
    <2>3. \A q \in Process : file'[q] = file[q]
      BY <1>3, <2>2
      DEF Load, CheckWritable, Enroll, EnrollRefused, memoryVars
    <2> QED
      BY <2>1, <2>3
  <1>4. ASSUME NEW p \in Process, CreateTemp(p)
        PROVE  NoLitter'
    <2>1. file[p] = 0 /\ 0 \notin temps
      BY <1>4 DEF CreateTemp, Saving, Disk
    <2> QED
      BY <1>4, <2>1 DEF CreateTemp
  <1>5. ASSUME NEW p \in Process, WriteTemp(p) \/ SyncTemp(p)
        PROVE  NoLitter'
    BY <1>5 DEF WriteTemp, SyncTemp, memoryVars
  <1>6. ASSUME NEW p \in Process, Rename(p)
        PROVE  NoLitter'
    BY <1>6 DEF Rename, Saved, memoryVars
  <1>7. ASSUME NEW p \in Process, SyncDirectory(p)
        PROVE  NoLitter'
    BY <1>7 DEF SyncDirectory, Saved, Saving
  <1>8. ASSUME NEW p \in Process, Kill(p)
        PROVE  NoLitter'
    BY <1>8 DEF Kill, diskVars
  <1>9. CASE PowerLoss
    BY <1>9 DEF PowerLoss
  <1>10. CASE Purge
    BY <1>10 DEF Purge, memoryVars
  <1>11. CASE UNCHANGED vars
    BY <1>11 DEF vars, diskVars, memoryVars, historyVars
  <1> QED
    BY <1>1, <1>2, <1>3, <1>4, <1>5, <1>6, <1>7, <1>8, <1>9, <1>10, <1>11
    DEF Next

(* Save and its deferred Remove leave no temporary file behind, whichever  *)
(* of its calls fails; only the death of its process does.                 *)
THEOREM NothingLeftBehind == Spec => []NoLitter
  <1>1. Init => NoLitter
    BY DEF Init, NoLitter
  <1>2. Kept /\ NoLitter /\ [Next]_vars => NoLitter'
    BY LitterStep
  <1> QED
    BY <1>1, <1>2, KeptInit, KeptStep, PTL DEF Spec

-----------------------------------------------------------------------------
(* The state file implements the cell that is replaced as a whole.         *)

(* The two variables of StateStore, in terms of the disk.                  *)
Shown == Content(named)
Lasting == {Content(f) : f \in durable}

(* While the names stay, and the files that are named, a reader sees the   *)
(* same.                                                                   *)
LEMMA SameSeen ==
  ASSUME Kept,
         \A f \in durable : f # 0 => written'[f] = written[f] /\ value'[f] = value[f]
  PROVE  \A f \in durable : Content(f)' = Content(f)
  BY DEF Content

LEMMA StoreStutters ==
  ASSUME Kept, named' = named, durable' = durable,
         \A f \in durable : f # 0 => written'[f] = written[f] /\ value'[f] = value[f]
  PROVE  Shown' = Shown /\ Lasting' = Lasting
  BY DEF Kept, TypeOK, DiskTypeOK, Shown, Lasting, Content

(* What is named is a state, or nothing: never half a file.                *)
LEMMA SeenWhole ==
  ASSUME Kept
  PROVE  \A f \in durable : Content(f) \in State \cup {Nothing}
  BY DEF Kept, Disk, Readable, Content

LEMMA StoreStep ==
  ASSUME Kept, [Next]_vars
  PROVE  [Store!StoreNext]_<<Shown, Lasting>>
  <1> USE DEF Kept, TypeOK, DiskTypeOK, ProcessTypeOK
  <1>1. ASSUME NEW p \in Process, NEW t \in Token \cup {None}, Start(p, t)
        PROVE  UNCHANGED <<Shown, Lasting>>
    BY <1>1 DEF Start, diskVars, Shown, Lasting, Content
  <1>2. ASSUME NEW p \in Process, NEW config \in Runtime, Exchange(p, config)
        PROVE  UNCHANGED <<Shown, Lasting>>
    BY <1>2 DEF Exchange, diskVars, Shown, Lasting, Content
  <1>3. ASSUME NEW p \in Process,
               \/ Load(p) \/ CheckWritable(p) \/ Enroll(p) \/ EnrollRefused(p)
               \/ Kill(p)
        PROVE  UNCHANGED <<Shown, Lasting>>
    BY <1>3 DEF Load, CheckWritable, Enroll, EnrollRefused, Kill, diskVars,
                Shown, Lasting, Content
  <1>4. ASSUME NEW p \in Process, CreateTemp(p)
        PROVE  UNCHANGED <<Shown, Lasting>>
    <2>1. used + 1 \notin durable
      BY Numbers DEF Disk
    <2> QED
      BY <1>4, <2>1, StoreStutters DEF CreateTemp, TempFile, SaveFails
  <1>5. ASSUME NEW p \in Process, WriteTemp(p) \/ SyncTemp(p)
        PROVE  UNCHANGED <<Shown, Lasting>>
    BY <1>5, StoreStutters DEF WriteTemp, SyncTemp, Saving
  <1>6. ASSUME NEW p \in Process, Rename(p)
        PROVE  [Store!StoreNext]_<<Shown, Lasting>>
    <2>1. CASE named' = named /\ durable' = durable
      BY <1>6, <2>1, StoreStutters DEF Rename
    <2>2. CASE named' = file[p] /\ durable' = durable \cup {file[p]}
      <3>1. Content(file[p]) \in State
        BY <1>6, NothingIsNoState DEF Rename, Saving, Holding, Content
      <3>2. \A f \in durable' : Content(f)' = Content(f)
        BY <1>6 DEF Rename, Content
      <3>3. Shown' = Content(file[p])
        BY <2>2, <3>2
        DEF Shown
      <3>4. Lasting' = Lasting \cup {Content(file[p])}
        BY <2>2, <3>2 DEF Lasting
      <3> QED
        BY <3>1, <3>3, <3>4 DEF Store!StoreNext, Store!Replace, Shown, Lasting
    <2> QED
      BY <1>6, <2>1, <2>2 DEF Rename
  <1>7. ASSUME NEW p \in Process, SyncDirectory(p)
        PROVE  [Store!StoreNext]_<<Shown, Lasting>>
    BY <1>7 DEF SyncDirectory, Settled, Shown, Lasting, Content,
                Store!StoreNext, Store!Settle
  <1>8. CASE PowerLoss
    <2>1. \A f \in durable : f # 0 => written'[f] = written[f] /\ value'[f] = value[f]
      BY <1>8 DEF PowerLoss, Disk, Readable
    <2>2. \A f \in durable : Content(f)' = Content(f)
      BY <2>1, SameSeen
    <2>3. named' \in durable /\ durable' = {named'}
      BY <1>8 DEF PowerLoss
    <2> QED
      BY <2>2, <2>3 DEF Store!StoreNext, Store!PowerLoss, Shown, Lasting
  <1>9. CASE Purge
    <2>1. \A f \in durable' : Content(f)' = Content(f)
      BY <1>9 DEF Purge, Content
    <2>2. named' = 0 /\ durable' = durable \cup {0} /\ Content(0) = Nothing
      BY <1>9 DEF Purge, Content
    <2>3. Shown' = Nothing /\ Lasting' = Lasting \cup {Nothing}
      BY <2>1, <2>2 DEF Shown, Lasting
    <2> QED
      BY <2>3 DEF Store!StoreNext, Store!Replace, Shown, Lasting
  <1>10. CASE UNCHANGED vars
    BY <1>10 DEF vars, diskVars, Shown, Lasting, Content
  <1> QED
    BY <1>1, <1>2, <1>3, <1>4, <1>5, <1>6, <1>7, <1>8, <1>9, <1>10 DEF Next

(* A reader sees nothing or one whole state: whatever fails, dies or loses *)
(* power, the path behaves as one cell that is replaced as a whole, and a  *)
(* replacement that was settled is not undone.                             *)
THEOREM StoreIsAtomic == Spec => AtomicStore
  <1>1. Init => Store!StoreInit
    BY KeptInit, SeenWhole
    DEF Init, Store!StoreInit, Kept, TypeOK, DiskTypeOK
  <1>2. Kept /\ [Next]_vars => [Store!StoreNext]_<<Shown, Lasting>>
    BY StoreStep
  <1> QED
    BY <1>1, <1>2, KeptInit, KeptStep, PTL
    DEF Spec, AtomicStore, Store!StoreSpec, Shown, Lasting
=============================================================================
