-------------------------- MODULE ConfigPropagation --------------------------
(***************************************************************************)
(* How a configuration value travels: the callers of PocoConfigAdapter's   *)
(* setters and of its bulk updates, the store in memory, the JSON file it  *)
(* is saved to, the watcher thread that loads config.json when its         *)
(* modification time changes, and the observers, which copy a value only   *)
(* when an event names its key.  PocoConfigManager's operations run under  *)
(* its mutex and are one step each; publishEvent holds observers_mutex_    *)
(* while the observers run, and an observer first reads, then stores.      *)
(*                                                                         *)
(* Modification times are abstracted to what the watcher compares: stale   *)
(* says that config.json's differs from last_write_time_.                  *)
(***************************************************************************)
CONSTANTS
  Keys,         \* settings the observers follow
  Values,       \* values of a setting
  Callers,      \* threads that handle configuration requests
  OwnFile,      \* config_file_path_: the first candidate the constructor loaded
  Broken,       \* the content of a file that does not parse
  Bulk,         \* POST /config and PUT /config/processing are used
  Edits,        \* config.json is edited from outside
  BootEdits,    \* ... also between the first load and the first stat
  SaveMayFail   \* the file may not open for writing

(* config/config.json and config.json in the working directory. *)
Paths == {"project", "local"}
Watched == "local"
BulkTarget == "local"

ASSUME ConfigAssumption ==
  /\ OwnFile \in Paths
  /\ Broken \notin [Keys -> Values]
  /\ Bulk \in BOOLEAN
  /\ Edits \in BOOLEAN
  /\ BootEdits \in BOOLEAN
  /\ SaveMayFail \in BOOLEAN

VARIABLES
  phase,     \* "down", or how far main() has come
  memory,    \* poco_cfg_
  file,      \* the contents of the two files
  stale,     \* config.json was written since last_write_time_ was taken
  watcher,   \* the watcher thread
  caller,    \* the request threads
  seen       \* ContinuousProcessingManager's atomics

vars == <<phase, memory, file, stale, watcher, caller, seen>>

Settings == [Keys -> Values]
Contents == Settings \cup {Broken}

(* What one request changes: some keys. *)
Patches == UNION {[S -> Values] : S \in SUBSET Keys}
NoPatch == [k \in {} |-> CHOOSE v \in Values : TRUE]
Patched(settings, patch) ==
  [k \in Keys |-> IF k \in DOMAIN patch THEN patch[k] ELSE settings[k]]

IdleCaller == [pc |-> "idle", patch |-> NoPatch, got |-> NoPatch]
IdleWatcher == [pc |-> "sleep", dirty |-> FALSE]

CallerStates ==
  {q \in [pc : {"idle", "save", "publish", "store", "saveBulk", "publishBulk"},
           patch : Patches, got : Patches] : q.pc = "store" => DOMAIN q.got = DOMAIN q.patch}

TypeOK ==
  /\ phase \in {"down", "loaded", "watching", "up"}
  /\ memory \in Settings
  /\ file \in [Paths -> Contents]
  /\ stale \in BOOLEAN
  /\ watcher \in [pc : {"sleep", "load", "publish"}, dirty : BOOLEAN]
  /\ caller \in [Callers -> CallerStates]
  /\ seen \in Settings

Init ==
  /\ phase = "down"
  /\ file \in [Paths -> Settings]
  /\ memory = file[OwnFile]
  /\ seen = file[OwnFile]
  /\ stale = FALSE
  /\ watcher = IdleWatcher
  /\ caller = [c \in Callers |-> IdleCaller]

-----------------------------------------------------------------------------
(* Files *)

(* p is written: config.json gets a new modification time, which a watcher
   that has already taken the time will find different at its next tick. *)
Write(p, content) ==
  /\ file' = [file EXCEPT ![p] = content]
  /\ IF p = Watched
       THEN /\ stale' = TRUE
            /\ watcher' = [watcher EXCEPT !.dirty = watcher.pc # "sleep"]
       ELSE UNCHANGED <<stale, watcher>>

(* An editor saves, or leaves the file unparsable until it saves again. *)
EditFile(p) ==
  /\ Edits
  /\ phase = "loaded" => BootEdits
  /\ \E content \in Contents : Write(p, content)
  /\ UNCHANGED <<phase, memory, caller, seen>>

-----------------------------------------------------------------------------
(* The process: load, start watching, construct the processing manager *)

(* A file that does not parse throws out of the constructor. *)
Boot ==
  /\ phase = "down"
  /\ file[OwnFile] # Broken
  /\ memory' = file[OwnFile]
  /\ phase' = "loaded"
  /\ UNCHANGED <<file, stale, watcher, caller, seen>>

StartWatching ==
  /\ phase = "loaded"
  /\ stale' = FALSE
  /\ phase' = "watching"
  /\ UNCHANGED <<memory, file, watcher, caller, seen>>

(* The constructor subscribes and copies everything; then HTTP starts. *)
StartObserver ==
  /\ phase = "watching"
  /\ seen' = memory
  /\ phase' = "up"
  /\ UNCHANGED <<memory, file, stale, watcher, caller>>

(* save() truncates the file before it writes it: dying in between leaves
   nothing that parses. *)
SavesTo(c) == IF caller[c].pc = "save" THEN OwnFile ELSE BulkTarget

Crash ==
  /\ phase # "down"
  /\ phase' = "down"
  /\ \/ UNCHANGED file
     \/ \E c \in Callers : /\ caller[c].pc \in {"save", "saveBulk"}
                           /\ file' = [file EXCEPT ![SavesTo(c)] = Broken]
  /\ watcher' = IdleWatcher
  /\ caller' = [c \in Callers |-> IdleCaller]
  /\ UNCHANGED <<memory, stale, seen>>

-----------------------------------------------------------------------------
(* Setters: update, persistChanges, publishEvent with the key *)

Setter(c) ==
  /\ phase = "up"
  /\ caller[c].pc = "idle"
  /\ \E k \in Keys : \E patch \in [{k} -> Values] :
       /\ memory' = Patched(memory, patch)
       /\ caller' = [caller EXCEPT ![c] = [IdleCaller EXCEPT !.pc = "save", !.patch = patch]]
  /\ UNCHANGED <<phase, file, stale, watcher, seen>>

(* Fault: the save stands back when the file has changed since it was loaded. *)
FaultySetterSave(c) ==
  /\ caller[c].pc = "save"
  /\ IF OwnFile = Watched /\ stale
       THEN UNCHANGED <<file, stale, watcher>>
       ELSE Write(OwnFile, memory)
  /\ caller' = [caller EXCEPT ![c].pc = "publish"]
  /\ UNCHANGED <<phase, memory, seen>>

(* The whole store is saved, other callers' updates included; a failure is
   logged. *)
SetterSave(c) ==
  /\ caller[c].pc = "save"
  /\ \/ Write(OwnFile, memory)
     \/ SaveMayFail /\ UNCHANGED <<file, stale, watcher>>
  /\ caller' = [caller EXCEPT ![c].pc = "publish"]
  /\ UNCHANGED <<phase, memory, seen>>

(* Nobody is inside publishEvent. *)
ObserversFree == \A c \in Callers : caller[c].pc # "store"

(* Fault: observers run outside the mutex. *)
FaultySetterNotify(c) ==
  /\ caller[c].pc = "publish"
  /\ caller' = [caller EXCEPT ![c].pc = "store",
                              ![c].got = [k \in DOMAIN caller[c].patch |-> memory[k]]]
  /\ UNCHANGED <<phase, memory, file, stale, watcher, seen>>

(* The observer reads the value that is configured now, not the one that was
   set, *)
SetterNotify(c) ==
  /\ caller[c].pc = "publish"
  /\ ObserversFree
  /\ caller' = [caller EXCEPT ![c].pc = "store",
                              ![c].got = [k \in DOMAIN caller[c].patch |-> memory[k]]]
  /\ UNCHANGED <<phase, memory, file, stale, watcher, seen>>

(* and stores it; the setter returns. *)
SetterStore(c) ==
  /\ caller[c].pc = "store"
  /\ seen' = Patched(seen, caller[c].got)
  /\ caller' = [caller EXCEPT ![c] = IdleCaller]
  /\ UNCHANGED <<phase, memory, file, stale, watcher>>

-----------------------------------------------------------------------------
(* updateConfig and updateProcessingConfig: any keys at once, saved to
   config.json, announced under a name no observer looks for *)

BulkUpdate(c) ==
  /\ Bulk
  /\ phase = "up"
  /\ caller[c].pc = "idle"
  /\ \E patch \in Patches :
       /\ memory' = Patched(memory, patch)
       /\ caller' = [caller EXCEPT ![c] = [IdleCaller EXCEPT !.pc = "saveBulk", !.patch = patch]]
  /\ UNCHANGED <<phase, file, stale, watcher, seen>>

BulkSave(c) ==
  /\ caller[c].pc = "saveBulk"
  /\ \/ Write(BulkTarget, memory)
     \/ SaveMayFail /\ UNCHANGED <<file, stale, watcher>>
  /\ caller' = [caller EXCEPT ![c].pc = "publishBulk"]
  /\ UNCHANGED <<phase, memory, seen>>

BulkPublish(c) ==
  /\ caller[c].pc = "publishBulk"
  /\ ObserversFree
  /\ caller' = [caller EXCEPT ![c] = IdleCaller]
  /\ UNCHANGED <<phase, memory, file, stale, watcher, seen>>

-----------------------------------------------------------------------------
(* The watcher: take the modification time, load, publish, remember the time *)

WatchStat ==
  /\ phase \in {"watching", "up"}
  /\ watcher.pc = "sleep"
  /\ stale
  /\ watcher' = [pc |-> "load", dirty |-> FALSE]
  /\ UNCHANGED <<phase, memory, file, stale, caller, seen>>

(* Fault: a load that fails is taken for one that succeeded. *)
FaultyWatchLoad ==
  /\ watcher.pc = "load"
  /\ memory' = file[Watched]
  /\ watcher' = [watcher EXCEPT !.pc = "publish"]
  /\ UNCHANGED <<phase, file, stale, caller, seen>>

(* A file that does not parse is tried again at the next tick. *)
WatchLoad ==
  /\ watcher.pc = "load"
  /\ IF file[Watched] = Broken
       THEN watcher' = IdleWatcher /\ UNCHANGED memory
       ELSE memory' = file[Watched] /\ watcher' = [watcher EXCEPT !.pc = "publish"]
  /\ UNCHANGED <<phase, file, stale, caller, seen>>

(* Fault: the time that is remembered is taken after the load. *)
FaultyWatchPublish ==
  /\ watcher.pc = "publish"
  /\ ObserversFree
  /\ stale' = FALSE
  /\ watcher' = IdleWatcher
  /\ UNCHANGED <<phase, memory, file, caller, seen>>

(* The event names "configuration", which no observer looks for. *)
WatchPublish ==
  /\ watcher.pc = "publish"
  /\ ObserversFree
  /\ stale' = watcher.dirty
  /\ watcher' = IdleWatcher
  /\ UNCHANGED <<phase, memory, file, caller, seen>>

-----------------------------------------------------------------------------
WatchStep == WatchStat \/ WatchLoad \/ WatchPublish
SetterStep(c) == SetterSave(c) \/ SetterNotify(c) \/ SetterStore(c)
BulkStep(c) == BulkSave(c) \/ BulkPublish(c)
BootStep == Boot \/ StartWatching \/ StartObserver

Next ==
  \/ \E p \in Paths : EditFile(p)
  \/ BootStep
  \/ Crash
  \/ \E c \in Callers : Setter(c) \/ SetterStep(c) \/ BulkUpdate(c) \/ BulkStep(c)
  \/ WatchStep

Spec == Init /\ [][Next]_vars

(* Threads that can go on do, and a process that can start is started. *)
FairSpec ==
  /\ Spec
  /\ WF_vars(BootStep)
  /\ WF_vars(WatchStep)
  /\ \A c \in Callers : WF_vars(SetterStep(c) \/ BulkStep(c))

-----------------------------------------------------------------------------
(* Properties *)

(* Caller c has a new value for k and has not returned. *)
InFlight(c, k) == caller[c].pc # "idle" /\ k \in DOMAIN caller[c].patch

(* "All configuration settings are now observable with real-time updates":
   an observer's copy that is not the configured value is about to be
   corrected by a request that has not returned yet. *)
ObserversFollow ==
  phase = "up" =>
    \A k \in Keys : seen[k] # memory[k] =>
      \E c \in Callers : InFlight(c, k)

(* Once the setters have returned, the file the next start will load says
   what the store in memory says, although the watcher keeps loading the very
   file they write. *)
SavedOnceReturned ==
  phase = "up" =>
    \A k \in Keys : file[OwnFile][k] # memory[k] =>
      \E c \in Callers : InFlight(c, k) /\ caller[c].pc = "save"

(* With one configuration file, memory differs from it only while the watcher
   has yet to load it, a request has yet to save, or it does not parse. *)
Reconciling ==
  phase = "up" /\ memory # file[Watched] =>
    \/ file[Watched] = Broken
    \/ stale
    \/ \E c \in Callers : caller[c].pc \in {"save", "saveBulk"}

(* "The configuration is also watched for file changes": when requests,
   edits and crashes stop, the store ends up with what the file says. *)
Settled(content) ==
  phase = "up" /\ file[Watched] = content /\ \A c \in Callers : caller[c].pc = "idle"

EditsLoaded ==
  \A content \in Settings : <>[]Settled(content) => <>[](memory = content)

(* The conditions under which the observers keep up: only the setters write. *)
SettersOnly == ~Bulk /\ ~Edits /\ ~SaveMayFail

(* With the above, inductive: the value an observer is about to store is
   current too, and only the own file is ever written. *)
StoringCurrent ==
  \A c \in Callers : caller[c].pc = "store" =>
    \A k \in DOMAIN caller[c].got : caller[c].got[k] # memory[k] =>
      \E d \in Callers : InFlight(d, k) /\ caller[d].pc \in {"save", "publish"}

SettersInv ==
  /\ \A c \in Callers : caller[c].pc \notin {"saveBulk", "publishBulk"}
  /\ phase # "down" => file[OwnFile] # Broken
  /\ phase \in {"down", "loaded"} => watcher.pc = "sleep"
  /\ phase # "up" => \A c \in Callers : caller[c].pc = "idle"
  /\ phase \in {"loaded", "watching"} => memory = file[OwnFile]
  /\ OwnFile # Watched => ~stale /\ watcher.pc = "sleep"
  /\ ObserversFollow
  /\ StoringCurrent
  /\ SavedOnceReturned

(* The same for Reconciling: what the watcher is about to forget. *)
OneFile == OwnFile = Watched /\ ~BootEdits /\ ~SaveMayFail

OutOfStep == memory # file[Watched] /\ file[Watched] # Broken
             /\ \A c \in Callers : caller[c].pc \notin {"save", "saveBulk"}

ReconcilingInv ==
  /\ phase \in {"down", "loaded"} => watcher.pc = "sleep"
  /\ phase # "up" => \A c \in Callers : caller[c].pc = "idle"
  /\ phase = "loaded" => memory = file[Watched]
  /\ phase = "watching" /\ OutOfStep => stale
  /\ phase # "down" /\ OutOfStep /\ watcher.pc = "publish" => watcher.dirty
  /\ Reconciling

(* "Any configuration modifications made through the API or code are
   immediately saved and survive server restarts": when a request returns,
   the file that is loaded at the next start holds what it set. *)
ReturnedIsSaved ==
  [][\A c \in Callers :
       caller[c].pc \in {"store", "publishBulk"} /\ caller'[c].pc = "idle" /\ phase' = "up" =>
         \A k \in DOMAIN caller[c].patch : file'[OwnFile][k] = caller[c].patch[k]]_vars
=============================================================================
