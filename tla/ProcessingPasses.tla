-------------------------- MODULE ProcessingPasses --------------------------
(***************************************************************************)
(* MediaProcessingOrchestrator over the flags of scanned_files: passes     *)
(* that claim a batch and process it file by file, overlapping one         *)
(* another, the cancellation they share, and the timer thread with its     *)
(* mutex.  Next to the passes work the callers of DatabaseManager's other  *)
(* claims, which take a batch (getAndMarkFilesForProcessing) or one pair   *)
(* of a file and a mode (tryAcquireProcessingLock) and mark what they have *)
(* processed, and scans, which put a changed file back to do.              *)
(***************************************************************************)
EXTENDS Integers, FiniteSets

CONSTANTS
  Files, Modes, BatchSize,
  Raw,           \* files to be transcoded before they are processed
  Stacks,        \* values of pre_process_quality_stack
  Passes,        \* callers of processAllScannedFiles
  Claimers,      \* callers of the claims without priority
  NoFile,        \* no file
  MaxClaims,     \* bound: how many claims are made
  MaxTroubles    \* bound: failing statements, exceptions, cancellations,
                 \* disabled types, starts of the timer, and scans that find
                 \* a file changed, together

ASSUME PassesAssumption ==
  /\ IsFiniteSet(Files) /\ NoFile \notin Files /\ Raw \subseteq Files
  /\ IsFiniteSet(Modes) /\ Modes \subseteq Nat /\ Modes # {}
  /\ BatchSize \in Nat
  /\ Stacks \subseteq BOOLEAN /\ Stacks # {}
  /\ Passes \cap Claimers = {}
  /\ MaxClaims \in Nat /\ MaxTroubles \in Nat

VARIABLES
  flag,        \* processed_<mode> of each file
  transcoded,  \* files with a finished row in cache_map
  enabled,     \* files whose type is enabled in the configuration
  cancelled,   \* cancelled_
  pass,        \* the passes
  held,        \* the pairs each claimer has claimed
  mutex,       \* processing_mutex_: "free", or who has it
  timer,       \* the timer thread: "off", "top", "checked", "hung"
  running,     \* timer_processing_running_
  scans,       \* scans that found a file changed
  reopened,    \* history: pairs that a scan put back to do while they were
               \* taken, and that somebody still had at the last scan
  claims,      \* claims that were made
  troubles     \* statements that failed, exceptions, cancellations, disabled
               \* files, starts of the timer

timing == <<mutex, timer, running>>
scanning == <<scans, reopened>>
vars == <<flag, transcoded, enabled, cancelled, pass, held, scanning, timing, claims, troubles>>

INSTANCE MediaStore WITH
  Transcoded <- transcoded, HasStatusColumn <- TRUE, DbMayFail <- FALSE,
  MaxVersion <- 1

-----------------------------------------------------------------------------
Pairs == Files \X Modes

IdlePass == [pc |-> "idle", modes |-> {}, left |-> [f \in Files |-> 0], file |-> NoFile,
             marks |-> {}, took |-> {}, listed |-> 0, events |-> 0]

PassStates ==
  [pc : {"idle", "files", "mode", "mark"}, modes : SUBSET Modes,
   left : [Files -> 0 .. 2], file : Files \cup {NoFile}, marks : SUBSET Modes,
   took : SUBSET Pairs, listed : 0 .. BatchSize, events : 0 .. BatchSize]

TypeOK ==
  /\ flag \in [Files -> [Modes -> FlagValues]]
  /\ transcoded \subseteq Raw
  /\ enabled \subseteq Files
  /\ cancelled \in BOOLEAN
  /\ pass \in [Passes -> PassStates]
  /\ held \in [Claimers -> SUBSET Pairs]
  /\ mutex \in {"free", "timer", "stop"}
  /\ timer \in {"off", "top", "checked", "hung"}
  /\ running \in BOOLEAN
  /\ scans \in 0 .. MaxTroubles
  /\ reopened \subseteq Pairs
  /\ claims \in 0 .. MaxClaims
  /\ troubles \in 0 .. MaxTroubles

Init ==
  /\ flag = [f \in Files |-> FreshFlags]
  /\ transcoded = {}
  /\ enabled = Files
  /\ cancelled = FALSE
  /\ pass = [p \in Passes |-> IdlePass]
  /\ held = [c \in Claimers |-> {}]
  /\ mutex = "free"
  /\ timer = "off"
  /\ running = FALSE
  /\ scans = 0
  /\ reopened = {}
  /\ claims = 0
  /\ troubles = 0

Trouble == troubles + scans < MaxTroubles /\ troubles' = troubles + 1
Claims == claims < MaxClaims /\ claims' = claims + 1

-----------------------------------------------------------------------------
(* Who has what *)

(* The pairs a pass has still to process. *)
Work(p) ==
  IF pass[p].pc # "idle"
    THEN {x \in Pairs : \/ pass[p].left[x[1]] > 0 /\ x[2] \in pass[p].modes
                        \/ pass[p].file = x[1] /\ x[2] \in pass[p].marks}
    ELSE {}

(* What a claim has taken from "to do" and its caller is not through with. *)
Owned(x) == IF x \in Claimers THEN held[x] ELSE Work(x) \cap pass[x].took

-----------------------------------------------------------------------------
(* Around the passes *)

(* storeScannedFile finds other metadata: the file has every mode to do, even
   those that a caller has taken and is working on. *)
Rescan(f) ==
  /\ troubles + scans < MaxTroubles
  /\ scans' = scans + 1
  /\ flag' = [flag EXCEPT ![f] = FreshFlags]
  /\ reopened' = {x \in reopened \cup ({f} \X Modes) :
                    \E c \in Passes \cup Claimers : x \in Owned(c)}
  /\ UNCHANGED <<transcoded, enabled, cancelled, pass, held, timing, claims, troubles>>

(* The transcoding thread finishes a file that a pass has queued. *)
Transcode(f) ==
  /\ f \in Raw \ transcoded
  /\ \E m \in Modes : flag[f][m] = InProgress
  /\ transcoded' = transcoded \cup {f}
  /\ UNCHANGED <<flag, enabled, cancelled, pass, held, scanning, timing, claims,
                 troubles>>

(* The configuration disables a file type. *)
Disable(f) ==
  /\ f \in enabled
  /\ enabled' = enabled \ {f}
  /\ Trouble
  /\ UNCHANGED <<flag, transcoded, cancelled, pass, held, scanning, timing, claims>>

Cancel ==
  /\ ~cancelled
  /\ cancelled' = TRUE
  /\ Trouble
  /\ UNCHANGED <<flag, transcoded, enabled, pass, held, scanning, timing, claims>>

-----------------------------------------------------------------------------
(* Claims without priority *)

(* getAndMarkFilesForProcessing: rows of enabled types that nobody has
   claimed.  The query and the updates are one transaction. *)
BatchClaims(M) == Limit(Pending(enabled, flag, M), BatchSize)

(* What marking the pairs of P takes. *)
TodoPairs(P) == {x \in P : flag[x[1]][x[2]] = Todo}

ClaimBatch(c) ==
  /\ held[c] = {}
  /\ Claims
  /\ \E M \in {{m} : m \in Modes} \cup {Modes} : \E S \in BatchClaims(M) :
       /\ S # {}
       /\ flag' = MarkInProgress(flag, S \X M)
       /\ held' = [held EXCEPT ![c] = TodoPairs(S \X M)]
  /\ UNCHANGED <<transcoded, enabled, cancelled, pass, scanning, timing, troubles>>

(* Fault: the UPDATE does not ask for the old value. *)
FaultyLockable(f, m) == flag[f][m] \in {Todo, InProgress}

Lockable(f, m) == flag[f][m] = Todo

(* tryAcquireProcessingLock: won when the UPDATE has changed a row. *)
ClaimOne(c) ==
  /\ held[c] = {}
  /\ Claims
  /\ \E f \in Files, m \in Modes :
       /\ Lockable(f, m)
       /\ flag' = [flag EXCEPT ![f][m] = InProgress]
       /\ held' = [held EXCEPT ![c] = {<<f, m>>}]
  /\ UNCHANGED <<transcoded, enabled, cancelled, pass, scanning, timing, troubles>>

(* setProcessingFlag, or resetProcessingFlag, which gives the pair back. *)
ClaimerMark(c) ==
  /\ \E f \in Files, m \in Modes :
       /\ <<f, m>> \in held[c]
       /\ flag' \in {SetProcessingFlag(flag, f, m), [flag EXCEPT ![f][m] = Todo]}
       /\ held' = [held EXCEPT ![c] = @ \ {<<f, m>>}]
  /\ UNCHANGED <<transcoded, enabled, cancelled, pass, scanning, timing, claims,
                 troubles>>

-----------------------------------------------------------------------------
(* processAllScannedFiles *)

Move(p, r) == pass' = [pass EXCEPT ![p] = r]

Workloads == {Modes : stack \in Stacks \cap {TRUE}} \cup
             {{m} : m \in IF FALSE \in Stacks THEN Modes ELSE {}}

(* The call takes the mutex only to make the observable.  Subscribing clears
   the cancellation, whomever it was meant for, and claims a batch in one
   transaction; rows whose UPDATE fails, in one mode or in all, are claimed
   all the same. *)
PassBegin(p) ==
  /\ pass[p].pc = "idle"
  /\ mutex = "free"
  /\ Claims
  /\ cancelled' = FALSE
  /\ \E M \in Workloads : \E c \in Selections(enabled, flag, M) :
       LET Claimed(P) ==
             /\ flag' = MarkInProgress(flag, P)
             /\ Move(p, [IdlePass EXCEPT
                           !.pc = "files", !.modes = M, !.took = TodoPairs(P),
                           !.left = [f \in Files |-> Listed(c, f)],
                           !.listed = Cardinality(c.stuck) + Cardinality(c.pending)])
       IN \/ Claimed(Selected(c) \X M) /\ UNCHANGED troubles
          \/ Trouble /\ \E P \in SUBSET (Selected(c) \X M) : Claimed(P)
  /\ UNCHANGED <<transcoded, enabled, held, scanning, timing>>

(* A cancelled pass returns without a word; its files stay in progress. *)
PassQuits(p) ==
  /\ pass[p].pc = "files"
  /\ cancelled
  /\ \E f \in Files : pass[p].left[f] > 0
  /\ Move(p, IdlePass)
  /\ UNCHANGED <<flag, transcoded, enabled, cancelled, held, scanning, timing, claims,
                 troubles>>

(* onComplete *)
PassDone(p) ==
  /\ pass[p].pc = "files"
  /\ \A f \in Files : pass[p].left[f] = 0
  /\ Move(p, IdlePass)
  /\ UNCHANGED <<flag, transcoded, enabled, cancelled, held, scanning, timing, claims,
                 troubles>>

(* Fault: the file of a type that is disabled is passed over in silence. *)
FaultyPassFile(p, f) ==
  /\ pass[p].pc = "files" /\ ~cancelled /\ pass[p].left[f] > 0
  /\ Move(p, IF f \in enabled
               THEN [pass[p] EXCEPT !.pc = "mode", !.file = f, !.marks = pass[p].modes,
                                    !.left[f] = @ - 1]
               ELSE [pass[p] EXCEPT !.left[f] = @ - 1])
  /\ UNCHANGED <<flag, transcoded, enabled, cancelled, held, scanning, timing, claims,
                 troubles>>

(* The next file: an event at once when its type is not supported any more. *)
PassFile(p, f) ==
  /\ pass[p].pc = "files" /\ ~cancelled /\ pass[p].left[f] > 0
  /\ Move(p, IF f \in enabled
               THEN [pass[p] EXCEPT !.pc = "mode", !.file = f, !.marks = pass[p].modes,
                                    !.left[f] = @ - 1]
               ELSE [pass[p] EXCEPT !.left[f] = @ - 1, !.events = @ + 1])
  /\ UNCHANGED <<flag, transcoded, enabled, cancelled, held, scanning, timing, claims,
                 troubles>>

(* The mode is through; after the last one the file has its event. *)
NextMode(p, m) ==
  Move(p, IF pass[p].marks = {m}
            THEN [pass[p] EXCEPT !.pc = "files", !.marks = {}, !.file = NoFile,
                                 !.events = @ + 1]
            ELSE [pass[p] EXCEPT !.pc = "mode", !.marks = @ \ {m}])

NextInLine(p, m) == m \in pass[p].marks /\ \A n \in pass[p].marks : m <= n

(* A raw file without its output is queued, stays in progress and goes to its
   next mode; any other file is processed and the result stored.  When that
   fails the flag stays as it is. *)
PassProcess(p, m) ==
  LET f == pass[p].file
  IN /\ pass[p].pc = "mode" /\ NextInLine(p, m)
     /\ \/ /\ f \in Raw \ transcoded
           /\ NextMode(p, m)
           /\ UNCHANGED troubles
        \/ /\ f \notin Raw \ transcoded
           /\ \/ Move(p, [pass[p] EXCEPT !.pc = "mark"]) /\ UNCHANGED troubles
              \/ Trouble /\ NextMode(p, m)
     /\ UNCHANGED <<flag, transcoded, enabled, cancelled, held, scanning, timing, claims>>

(* Fault: only a success is marked. *)
FaultyMarks(f, m) == {SetProcessingFlag(flag, f, m), flag}

(* Done or failed, as the processing went. *)
Marks(f, m) == {SetProcessingFlag(flag, f, m), SetProcessingFlagError(flag, f, m)}

(* The flag, and another look at cancelled_. *)
PassMark(p, m) ==
  /\ pass[p].pc = "mark" /\ NextInLine(p, m)
  /\ \/ /\ flag' \in Marks(pass[p].file, m)
        /\ UNCHANGED troubles
     \/ /\ Trouble
        /\ UNCHANGED flag
  /\ \/ cancelled /\ Move(p, IdlePass)
     \/ ~cancelled /\ NextMode(p, m)
  /\ UNCHANGED <<transcoded, enabled, cancelled, held, scanning, timing, claims>>

(* An exception on the way (from the file system, say) ends the file with a
   failed event: the modes that were left are skipped and stay in progress. *)
PassThrow(p) ==
  /\ pass[p].pc \in {"mode", "mark"}
  /\ Trouble
  /\ Move(p, [pass[p] EXCEPT !.pc = "files", !.marks = {}, !.file = NoFile, !.events = @ + 1])
  /\ UNCHANGED <<flag, transcoded, enabled, cancelled, held, scanning, timing, claims>>

-----------------------------------------------------------------------------
(* The timer thread *)

StartTimer ==
  /\ mutex = "free" /\ ~running
  /\ running' = TRUE
  /\ cancelled' = FALSE
  /\ timer' = "top"
  /\ Trouble
  /\ UNCHANGED <<flag, transcoded, enabled, pass, held, scanning, mutex, claims>>

TimerCheck ==
  /\ timer = "top"
  /\ timer' = IF running /\ ~cancelled THEN "checked" ELSE "off"
  /\ UNCHANGED <<flag, transcoded, enabled, cancelled, pass, held, scanning, mutex,
                 running, claims, troubles>>

(* It takes processing_mutex_ for the run and calls processAllScannedFiles,
   which takes the same mutex: no run of the timer ever begins. *)
TimerRun ==
  /\ timer = "checked"
  /\ mutex = "free"
  /\ mutex' = "timer"
  /\ timer' = "hung"
  /\ UNCHANGED <<flag, transcoded, enabled, cancelled, pass, held, scanning, running,
                 claims, troubles>>

(* stopTimerBasedProcessing holds the mutex while it waits for the thread. *)
StopTimer ==
  /\ mutex = "free" /\ running
  /\ mutex' = "stop"
  /\ running' = FALSE
  /\ cancelled' = TRUE
  /\ UNCHANGED <<flag, transcoded, enabled, pass, held, scanning, timer, claims,
                 troubles>>

(* Fault: the join waits for a run to come. *)
FaultyStopReturn ==
  /\ mutex = "stop" /\ timer = "hung"
  /\ mutex' = "free"
  /\ UNCHANGED <<flag, transcoded, enabled, cancelled, pass, held, scanning, timer,
                 running, claims, troubles>>

StopReturn ==
  /\ mutex = "stop" /\ timer = "off"
  /\ mutex' = "free"
  /\ UNCHANGED <<flag, transcoded, enabled, cancelled, pass, held, scanning, timer,
                 running, claims, troubles>>

-----------------------------------------------------------------------------
PassStep(p) ==
  \/ PassQuits(p)
  \/ PassDone(p)
  \/ \E f \in Files : PassFile(p, f)
  \/ \E m \in Modes : PassProcess(p, m) \/ PassMark(p, m)
  \/ PassThrow(p)

ClaimerStep(c) == ClaimBatch(c) \/ ClaimOne(c) \/ ClaimerMark(c)

TimerStep == TimerCheck \/ TimerRun \/ StopReturn

Next ==
  \/ \E f \in Files : Transcode(f) \/ Disable(f) \/ Rescan(f)
  \/ Cancel
  \/ \E p \in Passes : PassBegin(p) \/ PassStep(p)
  \/ \E c \in Claimers : ClaimerStep(c)
  \/ StartTimer \/ StopTimer \/ TimerStep

Spec == Init /\ [][Next]_vars

(* The timer thread, and whoever waits for it, go on when they can. *)
FairSpec == Spec /\ WF_vars(TimerStep)

-----------------------------------------------------------------------------
(* Properties *)

(* Nobody takes a pair that another caller has taken and not finished: not
   through any of the claims, alone or mixed.  The exception are pairs that a
   scan put back to do while they were taken: they are claimed again, and the
   first caller may even give back what the second has taken.
   A pass does process pairs it has not taken: files that are in progress and
   transcoded, and with the quality stack the other modes of its files. *)
Exclusive ==
  \A x, y \in Passes \cup Claimers : x # y => Owned(x) \cap Owned(y) \subseteq reopened

(* As long as nothing was cancelled or disabled, no statement failed and
   nothing threw, a pair is in progress because somebody will come to it, or
   waits for its transcoding: no interleaving of overlapping passes, claims
   and scans strands one. *)
NothingStranded ==
  troubles = 0 =>
    \A f \in Files, m \in Modes : flag[f][m] = InProgress =>
      \/ \E p \in Passes : <<f, m>> \in Work(p)
      \/ \E c \in Claimers : <<f, m>> \in held[c]
      \/ f \in Raw

(* Each file the claim has listed has its event when the pass completes,
   whether it was processed, deferred, unsupported, lost to the database or
   given up after an exception. *)
EveryFileReported ==
  \A p \in Passes :
    pass[p].pc # "idle" /\ (\A f \in Files : pass[p].left[f] = 0) /\ pass[p].file = NoFile =>
      pass[p].events = pass[p].listed

(* stopTimerBasedProcessing returns, unless the thread was on its way to the
   mutex: then both wait for ever. *)
StopReturns == mutex = "stop" ~> mutex = "free" \/ timer = "checked"
=============================================================================
