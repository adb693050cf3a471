-------------------------- MODULE TranscodingQueue --------------------------
(***************************************************************************)
(* TranscodingManager: the job queue in cache_map, the one thread that     *)
(* works it off, the outputs in the cache directory, and the callers that  *)
(* queue files or ask for a cleanup.  Each DatabaseManager call is a step, *)
(* and so is each look at the file system; a claim is only a SELECT, and   *)
(* marking the job is another call.                                        *)
(*                                                                         *)
(* cache_size_mutex_ is not recursive, and every cleanup takes it and then *)
(* calls getCacheSize, which takes it again: that thread never returns.    *)
(* What the cleanups would do behind the lock is left out.                 *)
(***************************************************************************)
EXTENDS Integers, FiniteSets

CONSTANTS
  Sources,      \* raw files with a row in scanned_files
  Requests,     \* callers of queueForTranscoding
  NoFile,       \* no file: what an idle thread works on
  Limits,       \* values of max_cache_size_, counted in outputs
  Cleanups,     \* a cleanup may be requested (POST /api/cache/cleanup)
  MaxVersion,   \* bound: how many contents a source takes on
  MaxFailures,  \* bound: how many statements fail and looks throw
  MaxEnds       \* bound: how often the process dies or is shut down

ASSUME QueueAssumption ==
  /\ IsFiniteSet(Sources)
  /\ NoFile \notin Sources
  /\ Limits \subseteq Nat /\ Limits # {}
  /\ Cleanups \in BOOLEAN
  /\ MaxVersion \in Nat \ {0}
  /\ MaxFailures \in Nat
  /\ MaxEnds \in Nat

VARIABLES
  disk,       \* the content version of each source, Gone when it was removed
  row,        \* cache_map: the status of each source
  output,     \* the file in the cache directory made from each source
  limit,      \* max_cache_size_
  up,         \* the process is running
  cancelled,  \* cancelled_
  sizeLock,   \* who holds cache_size_mutex_ for good
  worker,     \* transcodingThread
  request,    \* queueForTranscoding: the file each caller is about to insert
  failures,   \* statements that failed, and looks at the file system that threw
  crashes,    \* deaths
  stops       \* orderly shutdowns

process == <<limit, up, cancelled, sizeLock>>
counters == <<failures, crashes, stops>>
vars == <<disk, row, output, process, worker, request, counters>>

-----------------------------------------------------------------------------
(* Values *)

NoRow == -1
Queued == 0
InProgress == 1
Completed == 2
Failed == 3
Statuses == NoRow .. Failed

(* A source that is not there, an output that is not there, one whose
   writing was cut short. *)
Gone == 0
NoOutput == 0
Torn == -1
Versions == 1 .. MaxVersion

Idle(pc) == [pc |-> pc, file |-> NoFile, ver |-> Gone]

Working == {"look", "limit", "read", "write", "complete", "fail", "hung"}
Workers ==
  {w \in [pc : {"off", "top", "claimed"} \cup Working, file : Sources \cup {NoFile},
          ver : Versions \cup {Gone}] :
     /\ w.pc \in {"off", "top"} <=> w.file = NoFile
     /\ w.pc = "write" => w.ver \in Versions}

TypeOK ==
  /\ disk \in [Sources -> Versions \cup {Gone}]
  /\ row \in [Sources -> Statuses]
  /\ output \in [Sources -> Versions \cup {NoOutput, Torn}]
  /\ limit \in Limits
  /\ up \in BOOLEAN
  /\ cancelled \in BOOLEAN
  /\ sizeLock \in {"free", "worker", "cleanup"}
  /\ worker \in Workers
  /\ request \in [Requests -> Sources \cup {NoFile}]
  /\ failures \in 0 .. MaxFailures
  /\ crashes \in 0 .. MaxEnds
  /\ stops \in 0 .. MaxEnds

Init ==
  /\ disk = [f \in Sources |-> 1]
  /\ row = [f \in Sources |-> NoRow]
  /\ output = [f \in Sources |-> NoOutput]
  /\ limit \in Limits
  /\ up = TRUE
  /\ cancelled = FALSE
  /\ sizeLock = "free"
  /\ worker = Idle("top")
  /\ request = [r \in Requests |-> NoFile]
  /\ failures = 0
  /\ crashes = 0
  /\ stops = 0

Fails == failures < MaxFailures /\ failures' = failures + 1

-----------------------------------------------------------------------------
(* DatabaseManager's operations on cache_map *)

(* Fault: INSERT OR REPLACE. *)
FaultyInsertJob(rows, f) == [rows EXCEPT ![f] = Queued]

(* insertTranscodingFile: INSERT OR IGNORE *)
InsertJob(rows, f) == IF rows[f] = NoRow THEN [rows EXCEPT ![f] = Queued] ELSE rows

(* Faults: a failed job is claimed again; one whose source is gone never is. *)
FaultyClaimableFailed(rows) == {f \in Sources : rows[f] \in {Queued, Failed}}
FaultyClaimablePresent(rows) == {f \in Sources : rows[f] = Queued /\ disk[f] # Gone}

(* claimNextTranscodingJob: transcoded_file_path is set with status 2 only,
   and the order of created_at is left open. *)
Claimable(rows) == {f \in Sources : rows[f] = Queued}

(* markTranscodingJob...: whatever the status was, if there is a row. *)
SetStatus(rows, f, s) == IF rows[f] = NoRow THEN rows ELSE [rows EXCEPT ![f] = s]

(* Fault: nothing is reset, as when the statement names another status. *)
FaultyResetInProgress(rows) == rows

(* resetTranscodingJobStatusesOnStartup *)
ResetInProgress(rows) ==
  [f \in Sources |-> IF rows[f] = InProgress THEN Queued ELSE rows[f]]

(* getTranscodedFilePath finds one *)
HasOutputPath(rows, f) == rows[f] = Completed

(* queueForTranscoding for every file that is queued already and still
   there.  main() calls it before startTranscoding, so that nothing is
   queued; a job that is in the table needs no queueing either. *)
RestoreQueue(rows, running) ==
  [f \in Sources |->
     IF running /\ rows[f] = Queued /\ disk[f] # Gone /\ ~HasOutputPath(rows, f)
       THEN InsertJob(rows, f)[f]
       ELSE rows[f]]

-----------------------------------------------------------------------------
(* The world outside *)

EditSource(f) ==
  /\ disk[f] \in 1 .. MaxVersion - 1
  /\ disk' = [disk EXCEPT ![f] = @ + 1]
  /\ UNCHANGED <<row, output, process, worker, request, counters>>

RemoveSource(f) ==
  /\ disk[f] = MaxVersion
  /\ disk' = [disk EXCEPT ![f] = Gone]
  /\ UNCHANGED <<row, output, process, worker, request, counters>>

(* setMaxCacheSize, and adjustCacheSizeSafely on a configuration event: it
   compares the new limit with current_cache_size_mb_, which nobody ever
   sets, so that no cleanup follows. *)
SetLimit(n) ==
  /\ up
  /\ limit' = n
  /\ UNCHANGED <<disk, row, output, up, cancelled, sizeLock, worker, request, counters>>

Crash ==
  /\ up
  /\ crashes + stops < MaxEnds
  /\ crashes' = crashes + 1
  /\ up' = FALSE
  /\ cancelled' = FALSE
  /\ sizeLock' = "free"
  /\ worker' = Idle("off")
  /\ request' = [r \in Requests |-> NoFile]
  /\ UNCHANGED <<disk, row, output, limit, failures, stops>>

(* main(): reset, restore, then start the thread.  The reset reports nothing
   when it fails. *)
Start ==
  /\ ~up
  /\ up' = TRUE
  /\ cancelled' = FALSE
  /\ worker' = Idle("top")
  /\ \/ /\ row' = RestoreQueue(ResetInProgress(row), FALSE)
        /\ UNCHANGED failures
     \/ /\ Fails
        /\ row' = RestoreQueue(row, FALSE)
  /\ UNCHANGED <<disk, output, limit, sizeLock, request, crashes, stops>>

(* shutdown, the first half of stopTranscoding.  main() stops the HTTP server
   before, which waits for its handlers. *)
Stop ==
  /\ up
  /\ ~cancelled
  /\ sizeLock # "cleanup"
  /\ crashes + stops < MaxEnds
  /\ stops' = stops + 1
  /\ cancelled' = TRUE
  /\ UNCHANGED <<disk, row, output, limit, up, sizeLock, worker, request, failures, crashes>>

-----------------------------------------------------------------------------
(* queueForTranscoding *)

(* Refused while running_ is false; nothing to do for a file that has its
   output. *)
Ask(r, f) ==
  /\ up
  /\ request[r] = NoFile
  /\ ~HasOutputPath(row, f)
  /\ request' = [request EXCEPT ![r] = f]
  /\ UNCHANGED <<disk, row, output, process, worker, counters>>

AskInsert(r) ==
  /\ request[r] # NoFile
  /\ \/ /\ row' = InsertJob(row, request[r])
        /\ UNCHANGED failures
     \/ /\ Fails
        /\ UNCHANGED row
  /\ request' = [request EXCEPT ![r] = NoFile]
  /\ UNCHANGED <<disk, output, process, worker, crashes, stops>>

(* handleCacheCleanup: the handler holds the mutex and waits for itself. *)
Cleanup ==
  /\ up
  /\ Cleanups
  /\ ~cancelled
  /\ sizeLock = "free"
  /\ sizeLock' = "cleanup"
  /\ UNCHANGED <<disk, row, output, limit, up, cancelled, worker, request, counters>>

-----------------------------------------------------------------------------
(* transcodingThread *)

(* Fault: the thread drains the queue before it stops. *)
FaultyWorkerExit ==
  /\ worker.pc = "top"
  /\ cancelled /\ Claimable(row) = {}
  /\ worker' = Idle("off")
  /\ up' = FALSE
  /\ request' = [r \in Requests |-> NoFile]
  /\ UNCHANGED <<disk, row, output, limit, cancelled, sizeLock, counters>>

WorkerExit ==
  /\ worker.pc = "top"
  /\ cancelled
  /\ worker' = Idle("off")
  /\ up' = FALSE
  /\ request' = [r \in Requests |-> NoFile]
  /\ UNCHANGED <<disk, row, output, limit, cancelled, sizeLock, counters>>

(* getNextTranscodingJob; a query that fails looks like an empty queue. *)
WorkerClaim ==
  /\ worker.pc = "top"
  /\ ~cancelled
  /\ \/ /\ \E f \in Claimable(row) : worker' = [Idle("claimed") EXCEPT !.file = f]
        /\ UNCHANGED failures
     \/ /\ Fails
        /\ UNCHANGED worker
  /\ UNCHANGED <<disk, row, output, process, request, crashes, stops>>

WorkerMark ==
  /\ worker.pc = "claimed"
  /\ \/ /\ row' = SetStatus(row, worker.file, InProgress)
        /\ worker' = [worker EXCEPT !.pc = "look"]
        /\ UNCHANGED failures
     \/ /\ Fails
        /\ worker' = Idle("top")
        /\ UNCHANGED row
  /\ UNCHANGED <<disk, output, process, request, crashes, stops>>

Goto(pc) == worker' = [worker EXCEPT !.pc = pc]

(* transcodeFile takes an output that is there for the result, whatever
   content it was made from and whether or not it was written to its end;
   without its source it is removed.  When the file system throws, the
   thread's catch starts the loop over and the job stays in progress. *)
WorkerLook ==
  LET f == worker.file
  IN /\ worker.pc = "look"
     /\ \/ /\ output[f] # NoOutput /\ disk[f] # Gone
           /\ Goto("complete")
           /\ UNCHANGED <<output, failures>>
        \/ /\ output[f] = NoOutput \/ disk[f] = Gone
           /\ Goto("limit")
           /\ output' = [output EXCEPT ![f] = NoOutput]
           /\ UNCHANGED failures
        \/ /\ Fails
           /\ worker' = Idle("top")
           /\ UNCHANGED output
     /\ UNCHANGED <<disk, row, process, request, crashes, stops>>

OverLimit == Cardinality({f \in Sources : output[f] # NoOutput}) > limit

(* isCacheOverLimit waits for the mutex; when it says yes, cleanupCacheSmart
   never returns. *)
WorkerLimit ==
  /\ worker.pc = "limit"
  /\ sizeLock = "free"
  /\ \/ /\ ~OverLimit
        /\ Goto("read")
        /\ UNCHANGED sizeLock
     \/ /\ OverLimit
        /\ Goto("hung")
        /\ sizeLock' = "worker"
  /\ UNCHANGED <<disk, row, output, limit, up, cancelled, request, counters>>

(* transcodeRawFileDirectly fails without the source and on any decoding
   error; otherwise imwrite creates the output, *)
WorkerRead ==
  /\ worker.pc = "read"
  /\ \/ /\ Goto("fail")
        /\ UNCHANGED output
     \/ /\ disk[worker.file] # Gone
        /\ worker' = [worker EXCEPT !.pc = "write", !.ver = disk[worker.file]]
        /\ output' = [output EXCEPT ![worker.file] = Torn]
  /\ UNCHANGED <<disk, row, process, request, counters>>

(* and writes it to the end, or leaves what it has written. *)
WorkerWrite ==
  /\ worker.pc = "write"
  /\ \/ /\ Goto("complete")
        /\ output' = [output EXCEPT ![worker.file] = worker.ver]
     \/ /\ Goto("fail")
        /\ UNCHANGED output
  /\ UNCHANGED <<disk, row, process, request, counters>>

(* Fault: the thread keeps the job in hand. *)
FaultyNextJob == worker' = [worker EXCEPT !.pc = "top"]

(* The loop starts over. *)
NextJob == worker' = Idle("top")

(* The job's outcome; when the statement fails the job stays in progress. *)
WorkerRecord ==
  /\ worker.pc \in {"complete", "fail"}
  /\ \/ /\ row' = SetStatus(row, worker.file,
                            IF worker.pc = "complete" THEN Completed ELSE Failed)
        /\ UNCHANGED failures
     \/ /\ Fails
        /\ UNCHANGED row
  /\ NextJob
  /\ UNCHANGED <<disk, output, process, request, crashes, stops>>

-----------------------------------------------------------------------------
WorkerStep ==
  \/ WorkerExit
  \/ WorkerClaim
  \/ WorkerMark
  \/ WorkerLook
  \/ WorkerLimit
  \/ WorkerRead
  \/ WorkerWrite
  \/ WorkerRecord

RequestStep(r) == (\E f \in Sources : Ask(r, f)) \/ AskInsert(r)

Next ==
  \/ \E f \in Sources : EditSource(f) \/ RemoveSource(f)
  \/ \E n \in Limits : SetLimit(n)
  \/ Crash
  \/ Start
  \/ Stop
  \/ \E r \in Requests : RequestStep(r)
  \/ Cleanup
  \/ WorkerStep

Spec == Init /\ [][Next]_vars

(* The thread goes on whenever it can and a dead process is started again;
   nothing is assumed of callers, edits and limits. *)
FairSpec ==
  /\ Spec
  /\ WF_vars(WorkerStep)
  /\ WF_vars(Start)

-----------------------------------------------------------------------------
(* Properties *)

(* The job the worker has in hand, marked as in progress. *)
Held == IF worker.pc \in Working THEN worker.file ELSE NoFile

Orphans == {f \in Sources : row[f] = InProgress /\ f # Held}

(* A row that says "in progress" is the one the thread works on; each one
   that is not is owed to a statement that failed or to a look at the file
   system that threw, and after an orderly shutdown no other is left.  Only a
   death leaves a job behind, and the next start gives it back. *)
OrphansExplained == up \/ cancelled => Cardinality(Orphans) <= failures

(* A finished job keeps its status, its output is there, and nobody removes
   or rewrites it: not the removal of the outputs of vanished sources, not a
   job queued again, not a restart. *)
KeepSettled ==
  \A f \in Sources :
    row[f] = Completed =>
      /\ row'[f] = Completed
      /\ output'[f] = output[f]
      /\ output[f] # NoOutput

SettledKept == [][KeepSettled]_vars

(* As long as nothing died or threw and no statement failed, a finished job
   has a whole output, although imwrite writes under the final name and a failed
   one may leave half a file.  After a death the half file is taken for the
   result. *)
DoneIsWhole ==
  crashes = 0 /\ failures = 0 =>
    \A f \in Sources : row[f] = Completed => output[f] \in Versions

(* A queued job is settled in the end; it can be lost to a statement that
   failed or an exception, until the next start, or to a cleanup, which stops
   all work. *)
Served ==
  \A f \in Sources :
    row[f] = Queued ~>
      \/ row[f] \in {Completed, Failed}
      \/ f \in Orphans
      \/ sizeLock # "free"

(* An orderly shutdown comes to its end unless a cleanup stopped the thread. *)
StopReturns == cancelled ~> ~up \/ sizeLock # "free"

(* The queue as its callers see it. *)
StageName(s) ==
  CASE s = NoRow -> "new"
    [] s = Queued -> "waiting"
    [] s = InProgress -> "running"
    [] s = Completed -> "done"
    [] s = Failed -> "failed"

Queue == INSTANCE JobQueue WITH
  Jobs <- Sources, NoJob <- NoFile,
  job <- [f \in Sources |-> StageName(row[f])],
  active <- Held

KeepsJobQueue == Queue!Spec
=============================================================================
