--------------------------- MODULE DuplicateLinker ---------------------------
(***************************************************************************)
(* DuplicateLinker's worker thread over the tables it reads and writes.    *)
(* A pass takes a hash of the tables, is skipped when the hash is the one  *)
(* stored by the last pass, and otherwise reads the successful results of  *)
(* the configured mode, rewrites the links of every file that has a        *)
(* duplicate, and stores the hash it took.  Meanwhile results are stored,  *)
(* scans ask for a full rescan, the mode changes, statements fail and the  *)
(* process dies.                                                           *)
(*                                                                         *)
(* Each DatabaseManager call is one step.  SHA256 is abstracted to the     *)
(* data it is taken of (a table read short has a hash of its own: Nothing),*)
(* and the columns the linker does not look at        *)
(* (metadata, flags, the rows of cache_map) to one counter.                *)
(***************************************************************************)
EXTENDS Integers

CONSTANTS
  Files,
  Modes,
  Hashes,              \* artifact_hash of a successful result
  NoHash,              \* ... of a failed one, or of none
  Nothing,             \* no stored hash, or a text that is no hash
  InitialMode,         \* dedup_mode at first start
  FullRescanInterval,  \* incremental passes between two periodic full ones
  MaxResults,          \* bound: results stored
  MaxWrites,           \* bound: other writes to the hashed tables
  MaxFailures,         \* bound: statements that fail
  MaxCrashes           \* bound: how often the process dies

ASSUME LinkerAssumption ==
  /\ NoHash \notin Hashes
  /\ InitialMode \in Modes
  /\ FullRescanInterval \in Nat
  /\ MaxResults \in Nat
  /\ MaxWrites \in Nat
  /\ MaxFailures \in Nat
  /\ MaxCrashes \in Nat

VARIABLES
  config,            \* dedup_mode
  results,           \* media_processing_results
  lastId,            \* the last id AUTOINCREMENT gave out
  links,             \* links_<mode> of each file
  writes,            \* how often the columns that are only hashed changed
  stored,            \* the flag "dedup_linker_state"
  needsFullRescan,   \* needs_full_rescan_
  incrementalRuns,   \* incremental_run_count_
  linker,            \* the worker thread
  failures,
  crashes,
  unseen             \* history: since the last pass that did all it set out to
                     \* do, in the mode configured when it ended, the mode
                     \* changed or a pass lost rows or links

tables == <<results, lastId, links, writes>>
vars == <<config, results, lastId, links, writes, stored, needsFullRescan,
          incrementalRuns, linker, failures, crashes, unseen>>

-----------------------------------------------------------------------------
Artifacts == Hashes \cup {NoHash}
Rows == [id : 0 .. MaxResults, hash : Artifacts]
NoRow == [id |-> 0, hash |-> NoHash]
Snapshots == [results : [Files -> [Modes -> Rows]],
              links : [Files -> [Modes -> SUBSET Files]],
              writes : 0 .. MaxWrites]

ASSUME NothingAssumption == Nothing \notin Snapshots

(* What the hash is taken of. *)
Data == [results |-> results, links |-> links, writes |-> writes]

(* getNewSuccessfulResults(mode, 0) *)
Successful(m) == [f \in Files |-> results[f][m].hash]

(* The files with the hash of f: what its links should be, and are set to
   unless there are none. *)
Duplicates(found, f) ==
  {g \in Files \ {f} : found[f] # NoHash /\ found[g] = found[f]}
Grouped(found) == {f \in Files : Duplicates(found, f) # {}}

IdleLinker(pc) == [pc |-> pc, mode |-> InitialMode, full |-> FALSE, hash |-> Nothing,
                   found |-> [f \in Files |-> NoHash], todo |-> {}, lost |-> FALSE]

LinkerStates ==
  [pc : {"off", "wait", "hash", "read", "link", "store"}, mode : Modes, full : BOOLEAN,
   hash : Snapshots \cup {Nothing}, found : [Files -> Artifacts], todo : SUBSET Files,
   lost : BOOLEAN]

TypeOK ==
  /\ config \in Modes
  /\ results \in [Files -> [Modes -> Rows]]
  /\ lastId \in 0 .. MaxResults
  /\ links \in [Files -> [Modes -> SUBSET Files]]
  /\ writes \in 0 .. MaxWrites
  /\ stored \in Snapshots \cup {Nothing}
  /\ needsFullRescan \in BOOLEAN
  /\ incrementalRuns \in 0 .. FullRescanInterval
  /\ linker \in LinkerStates
  /\ failures \in 0 .. MaxFailures
  /\ crashes \in 0 .. MaxCrashes
  /\ unseen \in BOOLEAN

Init ==
  /\ config = InitialMode
  /\ results = [f \in Files |-> [m \in Modes |-> NoRow]]
  /\ lastId = 0
  /\ links = [f \in Files |-> [m \in Modes |-> {}]]
  /\ writes = 0
  /\ stored = Nothing
  /\ needsFullRescan = TRUE
  /\ incrementalRuns = 0
  /\ linker = IdleLinker("wait")
  /\ failures = 0
  /\ crashes = 0
  /\ unseen = FALSE

-----------------------------------------------------------------------------
(* The other threads *)

Running == linker.pc # "off"

Reconfigure ==
  /\ config' \in Modes \ {config}
  /\ unseen' = TRUE
  /\ UNCHANGED <<tables, stored, needsFullRescan, incrementalRuns, linker, failures, crashes>>

(* INSERT OR REPLACE: the row gets a new id.  The mode is the one configured
   when the file was read, which may be another by now. *)
StoreResult(f, m, h) ==
  /\ Running
  /\ lastId < MaxResults
  /\ lastId' = lastId + 1
  /\ results' = [results EXCEPT ![f][m] = [id |-> lastId + 1, hash |-> h]]
  /\ UNCHANGED <<config, links, writes, stored, needsFullRescan, incrementalRuns, linker,
                 failures, crashes, unseen>>

(* storeScannedFile found a new or a changed file: requestFullRescan. *)
ScanChange ==
  /\ Running
  /\ writes < MaxWrites
  /\ writes' = writes + 1
  /\ needsFullRescan' = TRUE
  /\ UNCHANGED <<config, results, lastId, links, stored, incrementalRuns, linker, failures,
                 crashes, unseen>>

(* A flag is marked, a job moves on: nobody asks for a rescan. *)
OtherChange ==
  /\ Running
  /\ writes < MaxWrites
  /\ writes' = writes + 1
  /\ UNCHANGED <<config, results, lastId, links, stored, needsFullRescan, incrementalRuns,
                 linker, failures, crashes, unseen>>

Crash ==
  /\ Running
  /\ crashes < MaxCrashes
  /\ crashes' = crashes + 1
  /\ linker' = IdleLinker("off")
  /\ UNCHANGED <<config, tables, stored, needsFullRescan, incrementalRuns, failures, unseen>>

(* A new process begins with a full rescan. *)
Start ==
  /\ ~Running
  /\ needsFullRescan' = TRUE
  /\ incrementalRuns' = 0
  /\ linker' = IdleLinker("wait")
  /\ UNCHANGED <<config, tables, stored, failures, crashes, unseen>>

-----------------------------------------------------------------------------
(* workerLoop *)

(* Fault: one incremental pass too many. *)
FaultyPeriodOver == incrementalRuns > FullRescanInterval

(* FULL_RESCAN_INTERVAL incremental runs were made *)
PeriodOver == incrementalRuns >= FullRescanInterval

(* The interval has passed (a notification wakes nobody: the predicate only
   looks at shutdown). *)
Wake ==
  LET periodic == ~needsFullRescan /\ PeriodOver
  IN /\ linker.pc = "wait"
     /\ linker' = [linker EXCEPT !.pc = "hash", !.mode = config,
                                 !.full = needsFullRescan \/ periodic]
     /\ incrementalRuns' = IF periodic THEN 0 ELSE incrementalRuns
     /\ UNCHANGED <<config, tables, stored, needsFullRescan, failures, crashes, unseen>>

Fails == failures < MaxFailures /\ failures' = failures + 1

(* getDuplicateDetectionHash, then getTextFlag, which nobody else writes: an
   incremental pass is skipped when they agree.  A pass goes on without a
   hash, or without the stored one. *)
TakeHash ==
  /\ linker.pc = "hash"
  /\ \/ /\ ~linker.full /\ stored = Data
        /\ linker' = IdleLinker("wait")
        /\ UNCHANGED failures
     \/ /\ linker.full \/ stored # Data
        /\ linker' = [linker EXCEPT !.pc = "read", !.hash = Data]
        /\ UNCHANGED failures
     \/ /\ Fails
        /\ \E hash \in {Nothing} \cup (IF linker.full THEN {} ELSE {Data}) :
             linker' = [linker EXCEPT !.pc = "read", !.hash = hash]
  /\ UNCHANGED <<config, tables, stored, needsFullRescan, incrementalRuns, crashes, unseen>>

(* Full or incremental, all successful results are read; a query that fails
   on the way leaves some out. *)
ReadRows ==
  /\ linker.pc = "read"
  /\ LET all == Successful(linker.mode)
         Read(found, lost) ==
           /\ linker' = [linker EXCEPT !.pc = "link", !.found = found,
                                       !.todo = Grouped(found), !.lost = lost]
           /\ unseen' = (unseen \/ lost)
     IN \/ Read(all, FALSE) /\ UNCHANGED failures
        \/ /\ Fails
           /\ \E left \in SUBSET Files :
                Read([f \in Files |-> IF f \in left THEN NoHash ELSE all[f]], TRUE)
  /\ incrementalRuns' = IF linker.full THEN incrementalRuns ELSE incrementalRuns + 1
  /\ UNCHANGED <<config, tables, stored, needsFullRescan, crashes>>

(* setFileLinksForMode, file after file.  Its result is ignored, and so is
   that of getFileId, which leaves a file out of the links. *)
LinkFile(f) ==
  /\ linker.pc = "link"
  /\ f \in linker.todo
  /\ LET all == Duplicates(linker.found, f)
     IN \/ /\ links' = [links EXCEPT ![f][linker.mode] = all]
           /\ linker' = [linker EXCEPT !.todo = @ \ {f}]
           /\ UNCHANGED <<failures, unseen>>
        \/ /\ Fails
           /\ \E some \in {links[f][linker.mode]} \cup SUBSET all :
                links' = [links EXCEPT ![f][linker.mode] = some]
           /\ linker' = [linker EXCEPT !.todo = @ \ {f}, !.lost = TRUE]
           /\ unseen' = TRUE
  /\ UNCHANGED <<config, results, lastId, writes, stored, needsFullRescan, incrementalRuns,
                 crashes>>

(* Fault: the request that led to the pass is not taken back. *)
FaultyRequestLeft == needsFullRescan

(* A full pass clears the request, also one that came during the pass. *)
RequestLeft == needsFullRescan /\ ~linker.full

PassDone ==
  /\ linker.pc = "link"
  /\ linker.todo = {}
  /\ needsFullRescan' = RequestLeft
  /\ linker' = [linker EXCEPT !.pc = "store"]
  /\ unseen' = (unseen /\ (linker.lost \/ linker.mode # config))
  /\ UNCHANGED <<config, tables, stored, incrementalRuns, failures, crashes>>

(* Fault: the hash is taken when the pass is over, so that the pass does not
   invalidate it by the links it writes. *)
FaultyHashToStore == Data

(* The hash from before the pass *)
HashToStore == linker.hash

(* setTextFlag; the text of an error is stored like a hash. *)
StoreHash ==
  /\ linker.pc = "store"
  /\ \/ stored' = HashToStore /\ UNCHANGED failures
     \/ Fails /\ UNCHANGED stored
  /\ linker' = IdleLinker("wait")
  /\ UNCHANGED <<config, tables, needsFullRescan, incrementalRuns, crashes, unseen>>

-----------------------------------------------------------------------------
LinkerStep ==
  \/ Wake
  \/ TakeHash
  \/ ReadRows
  \/ \E f \in Files : LinkFile(f)
  \/ PassDone
  \/ StoreHash

Next ==
  \/ Reconfigure
  \/ \E f \in Files, m \in Modes, h \in Artifacts : StoreResult(f, m, h)
  \/ ScanChange
  \/ OtherChange
  \/ Crash
  \/ Start
  \/ LinkerStep

Spec == Init /\ [][Next]_vars

(* The worker thread runs and a dead process is started again. *)
FairSpec == Spec /\ WF_vars(LinkerStep) /\ WF_vars(Start)

-----------------------------------------------------------------------------
(* Properties *)

(* Every file that has duplicates in mode m is linked to exactly them. *)
Linked(m) ==
  \A f \in Grouped(Successful(m)) : links[f][m] = Duplicates(Successful(m), f)

(* "No data loss: optimization only affects when duplicate detection runs":
   the stored hash agrees with the tables, so that the pass is skipped, only
   if there is nothing to link.  This although results arrive during a pass,
   a request for a full rescan may be cleared by the pass it arrived in,
   passes die half way, and the hash or the flag cannot be read or written.
   What the hash does not see (unseen) one undisturbed pass makes good. *)
SkippedOnlyIfLinked == stored = Data /\ ~unseen => Linked(config)

(* The linker comes to rest with everything linked: it does not run for ever
   after its own links, which the hash covers. *)
ComesToRest == <>[](stored = Data /\ ~needsFullRescan /\ (unseen \/ Linked(config)))

(* "Request DuplicateLinker to do a full rescan since existing links may be
   stale": when the linker has nothing more to do, the links of a file are
   its duplicates, no more and no less. *)
LinksRight ==
  stored = Data /\ ~needsFullRescan /\ ~unseen /\ linker.pc = "wait" =>
    \A f \in Files : links[f][config] = Duplicates(Successful(config), f)

-----------------------------------------------------------------------------
(* An incremental pass that has not been counted yet is due. *)
CountInv ==
  linker.pc \in {"hash", "read"} /\ ~linker.full => incrementalRuns < FullRescanInterval

(* What makes SkippedOnlyIfLinked inductive: row ids never come back, so that
   what a pass has in hand is what is in the table unless the table has a row
   the hash has not, and the files the pass has done are linked. *)
IdsKnown(snapshot) ==
  snapshot # Nothing =>
    \A f \in Files, m \in Modes : snapshot.results[f][m].id <= lastId

InPass == linker.pc \in {"link", "store"}

FoundCurrent(snapshot) ==
  InPass /\ ~linker.lost /\ snapshot # Nothing /\ snapshot.results = results =>
    linker.found = Successful(linker.mode)

LinkerInv ==
  /\ linker.pc \notin {"off", "wait"} /\ ~unseen => linker.mode = config
  /\ InPass /\ ~unseen => ~linker.lost
  /\ \A f \in Files, m \in Modes : results[f][m].id <= lastId
  /\ IdsKnown(stored) /\ IdsKnown(linker.hash)
  /\ FoundCurrent(stored) /\ FoundCurrent(linker.hash)
  /\ InPass /\ ~linker.lost =>
       \A f \in Grouped(linker.found) \ linker.todo :
         links[f][linker.mode] = Duplicates(linker.found, f)
  /\ linker.pc = "store" => linker.todo = {}
  /\ stored # Nothing /\ ~unseen => (stored.results = results => Linked(config))
=============================================================================
