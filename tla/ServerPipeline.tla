--------------------------- MODULE ServerPipeline ---------------------------
(***************************************************************************)
(* The processing pipeline the server's main() runs over one database:     *)
(*   - scanners (the scheduler's scan, the startup scan and the detached   *)
(*     threads of POST /scan) that stat a file and store the result;       *)
(*   - ContinuousProcessingManager's one thread, which claims batches and  *)
(*     marks their files;                                                  *)
(*   - FileProcessor, once per POST /process request, which processes a    *)
(*     file whether or not it is claimed, stores the result and marks it;  *)
(*   - crashes, and the startup that follows them.                         *)
(* DatabaseManager calls are one step each; everything a thread reads      *)
(* between two calls (the clock of the disk, the configuration) is read in *)
(* a step of its own when another thread may change it.                    *)
(***************************************************************************)
EXTENDS MediaStore

CONSTANTS
  Scanners,         \* concurrent scan threads
  Requests,         \* concurrent POST /process requests
  NoFile,           \* no file: what an idle thread works on
  InitialConfig,    \* [mode, stack] in the configuration at first start
  Reconfigurable,   \* dedup_mode and pre_process_quality_stack may change
  StatMayFail,      \* getFileMetadata may return nothing
  MaxCrashes        \* bound: how often the process dies

Configs == [mode : Modes, stack : BOOLEAN]

ASSUME PipelineAssumption ==
  /\ NoFile \notin Files
  /\ InitialConfig \in Configs
  /\ Reconfigurable \in BOOLEAN
  /\ StatMayFail \in BOOLEAN
  /\ MaxCrashes \in Nat

VARIABLES
  disk,        \* the content version of each file on disk
  scanned,     \* the rows of scanned_files
  meta,        \* file_metadata
  flag,        \* processed_<mode>
  result,      \* media_processing_results
  config,      \* what PocoConfigAdapter returns
  observed,    \* the loop's copy: dedup_mode_ and pre_process_quality_stack_
  up,          \* the process is running
  crashes,     \* how often it died
  loop,        \* the continuous processing thread
  scanner,     \* the scan threads
  request      \* the processing requests

tables == <<scanned, meta, flag, result>>
vars == <<disk, scanned, meta, flag, result, config, observed, up, crashes,
          loop, scanner, request>>

-----------------------------------------------------------------------------
(* Threads *)

IdleLoop(pc) == [pc |-> pc, mode |-> InitialConfig.mode, stack |-> InitialConfig.stack,
                 left |-> [f \in Files |-> 0], file |-> NoFile, marks |-> {}]
IdleScanner == [file |-> NoFile, stat |-> Unreadable]
IdleRequest == [pc |-> "idle", file |-> NoFile, mode |-> InitialConfig.mode,
                outcome |-> NoResult]

LoopStates ==
  [pc : {"off", "top", "claim", "batch", "mark"}, mode : Modes, stack : BOOLEAN,
   left : [Files -> 0 .. 2], file : Files \cup {NoFile}, marks : SUBSET Modes]
ScannerStates == [file : Files \cup {NoFile}, stat : Metadata]
RequestStates ==
  {q \in [pc : {"idle", "process", "store", "done", "fail"}, file : Files \cup {NoFile},
           mode : Modes, outcome : Results] : q.pc # "idle" => q.file \in Files}

TypeOK ==
  /\ disk \in [Files -> Versions]
  /\ scanned \subseteq Files
  /\ meta \in [Files -> Metadata]
  /\ flag \in [Files -> [Modes -> FlagValues]]
  /\ result \in [Files -> [Modes -> Results]]
  /\ config \in Configs
  /\ observed \in Configs
  /\ up \in BOOLEAN
  /\ crashes \in 0 .. MaxCrashes
  /\ loop \in LoopStates
  /\ scanner \in [Scanners -> ScannerStates]
  /\ request \in [Requests -> RequestStates]

Init ==
  /\ disk = [f \in Files |-> 1]
  /\ scanned = {}
  /\ meta = [f \in Files |-> Unreadable]
  /\ flag = [f \in Files |-> FreshFlags]
  /\ result = [f \in Files |-> [m \in Modes |-> NoResult]]
  /\ config = InitialConfig
  /\ observed = InitialConfig
  /\ up = TRUE
  /\ crashes = 0
  /\ loop = IdleLoop("top")
  /\ scanner = [s \in Scanners |-> IdleScanner]
  /\ request = [r \in Requests |-> IdleRequest]

-----------------------------------------------------------------------------
(* The world outside the process *)

EditFile(f) ==
  /\ disk[f] < MaxVersion
  /\ disk' = [disk EXCEPT ![f] = @ + 1]
  /\ UNCHANGED <<tables, config, observed, up, crashes, loop, scanner, request>>

Reconfigure ==
  /\ Reconfigurable
  /\ \E c \in Configs : config' = c
  /\ UNCHANGED <<disk, tables, observed, up, crashes, loop, scanner, request>>

(* onConfigUpdate copies the configuration into the loop's atomics; an event
   may come late or, after a reload of the whole file, not at all. *)
Observe ==
  /\ up
  /\ observed' = config
  /\ UNCHANGED <<disk, tables, config, up, crashes, loop, scanner, request>>

Crash ==
  /\ up
  /\ crashes < MaxCrashes
  /\ up' = FALSE
  /\ crashes' = crashes + 1
  /\ loop' = IdleLoop("off")
  /\ scanner' = [s \in Scanners |-> IdleScanner]
  /\ request' = [r \in Requests |-> IdleRequest]
  /\ UNCHANGED <<disk, tables, config, observed>>

(* Fault: startup forgets to give up the claims of the previous process. *)
FaultyRestart ==
  /\ ~up
  /\ up' = TRUE
  /\ observed' = config
  /\ loop' = IdleLoop("top")
  /\ UNCHANGED <<disk, tables, config, crashes, scanner, request>>

(* main() resets the flags before it starts any thread, and goes on when the
   reset failed. *)
Restart ==
  /\ ~up
  /\ up' = TRUE
  /\ flag' \in Attempt(flag, ResetInProgress(flag))
  /\ observed' = config
  /\ loop' = IdleLoop("top")
  /\ UNCHANGED <<disk, scanned, meta, result, config, crashes, scanner, request>>

-----------------------------------------------------------------------------
(* Scanning: stat outside the mutex, then storeScannedFile *)

ScanStat(s, f) ==
  /\ up
  /\ scanner[s].file = NoFile
  /\ \E v \in {disk[f]} \cup (IF StatMayFail THEN {Unreadable} ELSE {}) :
       scanner' = [scanner EXCEPT ![s] = [file |-> f, stat |-> v]]
  /\ UNCHANGED <<disk, tables, config, observed, up, crashes, loop, request>>

ScanStore(s) ==
  LET f == scanner[s].file
      v == scanner[s].stat
  IN /\ f # NoFile
     /\ \/ /\ scanned' = scanned \cup {f}
           /\ meta' = [meta EXCEPT ![f] = v]
           /\ flag' = FlagsAfterScan(scanned, meta, flag, f, v)
        \/ /\ DbMayFail
           /\ UNCHANGED <<scanned, meta, flag>>
     /\ scanner' = [scanner EXCEPT ![s] = IdleScanner]
     /\ UNCHANGED <<disk, result, config, observed, up, crashes, loop, request>>

-----------------------------------------------------------------------------
(* ContinuousProcessingManager::processingLoop *)

(* The modes a configuration selects. *)
SelectedModes(stack, mode) == IF stack THEN Modes ELSE {mode}

LoopSnapshot ==
  /\ loop.pc = "top"
  /\ loop' = [loop EXCEPT !.pc = "claim", !.mode = observed.mode, !.stack = observed.stack]
  /\ UNCHANGED <<disk, tables, config, observed, up, crashes, scanner, request>>

(* An empty claim makes the loop sleep and start over; a row whose UPDATE
   failed, in one of the modes or in all, is in the batch all the same. *)
LoopClaim ==
  /\ loop.pc = "claim"
  /\ \E c \in IF loop.stack THEN ClaimForAnyMode(scanned, flag)
                            ELSE ClaimForMode(scanned, flag, loop.mode) :
       \E P \in MarkedPairs(c, SelectedModes(loop.stack, loop.mode)) :
         /\ flag' = MarkInProgress(flag, P)
         /\ loop' = [loop EXCEPT !.pc = IF c = NoClaim THEN "top" ELSE "batch",
                                 !.left = [f \in Files |-> Listed(c, f)]]
  /\ UNCHANGED <<disk, scanned, meta, result, config, observed, up, crashes, scanner, request>>

(* Faults: the configured mode is marked even when the quality stack is on;
   the end of the batch is overrun. *)
FaultyNextFileOneMode(f) ==
  /\ loop.pc = "batch"
  /\ loop.left[f] > 0
  /\ loop' = [loop EXCEPT !.pc = "mark", !.file = f, !.left[f] = @ - 1,
                          !.marks = {observed.mode}]
  /\ UNCHANGED <<disk, tables, config, observed, up, crashes, scanner, request>>
FaultyNextFileOverrun(f) ==
  /\ loop.pc = "batch"
  /\ loop' = [loop EXCEPT !.pc = "mark", !.file = f, !.left[f] = @ - 1,
                          !.marks = SelectedModes(observed.stack, observed.mode)]
  /\ UNCHANGED <<disk, tables, config, observed, up, crashes, scanner, request>>

(* processSingleFile does no processing: it reads the configuration again and
   marks the modes it finds there. *)
LoopNextFile(f) ==
  /\ loop.pc = "batch"
  /\ loop.left[f] > 0
  /\ loop' = [loop EXCEPT !.pc = "mark", !.file = f, !.left[f] = @ - 1,
                          !.marks = SelectedModes(observed.stack, observed.mode)]
  /\ UNCHANGED <<disk, tables, config, observed, up, crashes, scanner, request>>

(* The modes are marked one call after another, the lowest first; the result
   of the call is ignored. *)
LoopMark(m) ==
  /\ loop.pc = "mark"
  /\ m \in loop.marks
  /\ \A n \in loop.marks : m <= n
  /\ flag' \in Attempt(flag, SetProcessingFlag(flag, loop.file, m))
  /\ loop' = IF loop.marks = {m}
               THEN [loop EXCEPT !.pc = "batch", !.file = NoFile, !.marks = {}]
               ELSE [loop EXCEPT !.marks = @ \ {m}]
  /\ UNCHANGED <<disk, scanned, meta, result, config, observed, up, crashes, scanner, request>>

LoopBatchDone ==
  /\ loop.pc = "batch"
  /\ \A f \in Files : loop.left[f] = 0
  /\ loop' = IdleLoop("top")
  /\ UNCHANGED <<disk, tables, config, observed, up, crashes, scanner, request>>

-----------------------------------------------------------------------------
(* FileProcessor::handleFile and processFile *)

(* The file must have a row; the mode is the configured one. *)
ReqBegin(r, f) ==
  /\ up
  /\ request[r].pc = "idle"
  /\ f \in scanned
  /\ request' = [request EXCEPT ![r] =
       [pc |-> "process", file |-> f, mode |-> config.mode, outcome |-> NoResult]]
  /\ UNCHANGED <<disk, tables, config, observed, up, crashes, loop, scanner>>

(* MediaProcessor::processFile reads the content and succeeds or not. *)
ReqProcess(r) ==
  /\ request[r].pc = "process"
  /\ \E ok \in BOOLEAN :
       request' = [request EXCEPT ![r].pc = "store",
                     ![r].outcome = [ok |-> ok, ver |-> disk[request[r].file]]]
  /\ UNCHANGED <<disk, tables, config, observed, up, crashes, loop, scanner>>

(* Processing threw: the handler reads the mode again. *)
ReqThrow(r) ==
  /\ request[r].pc = "process"
  /\ request' = [request EXCEPT ![r].pc = "fail", ![r].mode = config.mode]
  /\ UNCHANGED <<disk, tables, config, observed, up, crashes, loop, scanner>>

(* A result that cannot be stored ends the request with the flag as it was. *)
ReqStore(r) ==
  LET q == request[r]
  IN /\ q.pc = "store"
     /\ \/ /\ result' = StoreProcessingResult(result, q.file, q.mode, q.outcome)
           /\ request' = [request EXCEPT ![r].pc = IF q.outcome.ok THEN "done" ELSE "fail"]
        \/ /\ DbMayFail
           /\ request' = [request EXCEPT ![r] = IdleRequest]
           /\ UNCHANGED result
     /\ UNCHANGED <<disk, scanned, meta, flag, config, observed, up, crashes, loop, scanner>>

ReqMarkDone(r) ==
  /\ request[r].pc = "done"
  /\ flag' \in Attempt(flag, SetProcessingFlag(flag, request[r].file, request[r].mode))
  /\ request' = [request EXCEPT ![r] = IdleRequest]
  /\ UNCHANGED <<disk, scanned, meta, result, config, observed, up, crashes, loop, scanner>>

ReqMarkFailed(r) ==
  /\ request[r].pc = "fail"
  /\ flag' \in Attempt(flag, SetProcessingFlagError(flag, request[r].file, request[r].mode))
  /\ request' = [request EXCEPT ![r] = IdleRequest]
  /\ UNCHANGED <<disk, scanned, meta, result, config, observed, up, crashes, loop, scanner>>

-----------------------------------------------------------------------------
LoopStep ==
  \/ LoopSnapshot
  \/ LoopClaim
  \/ \E f \in Files : LoopNextFile(f)
  \/ \E m \in Modes : LoopMark(m)
  \/ LoopBatchDone

RequestStep(r) ==
  \/ \E f \in Files : ReqBegin(r, f)
  \/ ReqProcess(r)
  \/ ReqThrow(r)
  \/ ReqStore(r)
  \/ ReqMarkDone(r)
  \/ ReqMarkFailed(r)

ScanStep(s) == (\E f \in Files : ScanStat(s, f)) \/ ScanStore(s)

Next ==
  \/ \E f \in Files : EditFile(f)
  \/ Reconfigure
  \/ Observe
  \/ Crash
  \/ Restart
  \/ \E s \in Scanners : ScanStep(s)
  \/ LoopStep
  \/ \E r \in Requests : RequestStep(r)

Spec == Init /\ [][Next]_vars

(* The loop thread runs whenever it can, main() restarts after a crash (a
   supervisor or the operator), and the scheduler scans every file again and
   again.  Nothing is assumed of requests, edits and configuration changes. *)
FairSpec ==
  /\ Spec
  /\ WF_vars(LoopStep)
  /\ WF_vars(Restart)
  /\ \A s \in Scanners : WF_vars(ScanStore(s))
  /\ \A f \in Files : \E s \in Scanners : SF_vars(ScanStat(s, f))

-----------------------------------------------------------------------------
(* Properties *)

(* The database never loses a write and the configuration the loop claimed
   under is the one it marks under. *)
Frozen == ~Reconfigurable /\ ~DbMayFail

(* The loop has claimed mode m of f and will still mark it. *)
Holds(f, m) == loop.left[f] > 0 \/ (loop.file = f /\ m \in loop.marks)

(* A flag at -1 belongs to the batch the running loop is working on: no file
   is left in progress with nobody to finish it.  It needs the frozen
   configuration, because processSingleFile marks the modes configured when
   it runs and not the ones that were claimed. *)
InProgressHeld ==
  Frozen /\ up =>
    \A f \in Files, m \in Modes : flag[f][m] = InProgress => Holds(f, m)

(* Whatever crashes happen, at most one batch of files is ever in progress in
   the table: a claim is made only when the previous one is finished. *)
BatchBounded ==
  Frozen => Cardinality({f \in Files : \E m \in Modes : flag[f][m] = InProgress}) <= BatchSize

(* A batch never lists a file twice, although its two queries do not exclude
   each other. *)
ListedOnce == Frozen => \A f \in Files : loop.left[f] <= 1

(* What makes the three inductive: which of the loop's locals go together,
   that nobody reconfigures it, and that only the selected modes are ever
   claimed. *)
LoopShape ==
  /\ up <=> loop.pc # "off"
  /\ loop.pc \notin {"batch", "mark"} => \A f \in Files : loop.left[f] = 0
  /\ loop.pc = "mark" <=> loop.marks # {}
  /\ loop.pc = "mark" => loop.file \in Files

ConfigKept ==
  Frozen => /\ config = InitialConfig
            /\ observed = InitialConfig
            /\ loop.mode = InitialConfig.mode
            /\ loop.stack = InitialConfig.stack

ClaimedModes ==
  Frozen =>
    \A f \in Files, m \in Modes :
      flag[f][m] = InProgress => m \in SelectedModes(InitialConfig.stack, InitialConfig.mode)

PipelineInv ==
  /\ LoopShape
  /\ ConfigKept
  /\ ClaimedModes
  /\ InProgressHeld
  /\ ListedOnce
  /\ BatchBounded

(* A file is handed out for processing again only after storeScannedFile
   recorded other metadata for it (or none it could compare), and then in
   every mode at once: neither a claim, nor a restart, nor a request reopens
   a mode that is done or failed. *)
SettledReopens ==
  [][\A f \in Files, m \in Modes :
       flag[f][m] \in {Done, Error} /\ flag'[f][m] \notin {Done, Error} =>
         /\ flag'[f] = FreshFlags
         /\ ~SameContent(meta[f], meta'[f])]_vars

(* Nobody between storing a result of f in mode m and marking it. *)
Quiet(f, m) ==
  \A r \in Requests : ~(request[r].pc \in {"done", "fail"}
                        /\ request[r].file = f /\ request[r].mode = m)

(* "Set processing flag for a specific mode after successful processing": a
   flag that says done has the result of a successful processing beside it
   in the results table, unless a request is about to correct the flag. *)
DoneHasResult ==
  \A f \in Files, m \in Modes :
    flag[f][m] = Done /\ Quiet(f, m) => result[f][m].ok

(* Files keep being discovered and worked off: once edits and crashes stop,
   every file is recorded with the content it has on disk and its flag in the
   configured mode is settled, for good. *)
Converges ==
  <>[](\A f \in Files : /\ f \in scanned
                        /\ meta[f] = disk[f]
                        /\ flag[f][config.mode] \in {Done, Error})

(* The flags move the way the ledger promises. *)
StateName(v) ==
  CASE v = InProgress -> "busy"
    [] v = Done -> "done"
    [] v = Error -> "failed"
    [] OTHER -> "todo"

Ledger == INSTANCE FlagLedger WITH
  ledger <- [f \in Files |-> [m \in Modes |-> StateName(flag[f][m])]]

KeepsLedger == Ledger!Spec
=============================================================================
