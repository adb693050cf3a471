# A verification development of dedup_server

TLA+ modules that model the server's own logic, TLC configurations that check
them on small instances, and TLAPS proofs of the properties that matter most.
Paths below are relative to the repository; `database_manager.cpp` is
`src/database/database_manager.cpp`, `cpm.cpp` is
`src/core/continuous_processing_manager.cpp`, `adapter.cpp` is
`config/src/poco_config_adapter.cpp`.

    tlc -config pipeline_stack.cfg MCServerPipeline     # model-check a run
    tlapm ServerPipeline_proofs.tla                     # check the proofs

## 1. The system

dedup_server scans directories for media files, processes each file in up to
three modes (fast, balanced, quality), links duplicates, and serves the results
over HTTP. One process, one SQLite database, several threads.

| Component | State it keeps | Operations | Interacts with |
|---|---|---|---|
| DatabaseManager (`database_manager.cpp`) | `scanned_files` with `file_metadata` and one flag per mode (0 to do, -1 in progress, 1 done, 2 error), `media_processing_results`, `cache_map`, `flags` | store a scanned file, claim a batch, mark, reset at startup, store results, jobs, links | everybody; each call runs inline under `db_exec_mutex_` |
| ContinuousProcessingManager (`cpm.cpp`) | one thread; copies of four settings | claim a batch, mark every file of it | database; observes the configuration |
| FileProcessor (`file_processor.cpp`) | none that lasts | `handleFile`: process, store the result, mark | database, configuration, MediaProcessor |
| FileScanner, SimpleScheduler, startup scan, POST /scan | a directory iterator per thread | stat a file, store it | database; asks DuplicateLinker for a rescan |
| Configuration (`adapter.cpp`, `poco_config_manager.cpp`) | the store in memory, the file it came from, the watcher's last modification time, the list of observers | setters, section and bulk requests, load, save, watch | HTTP handlers, observers |
| DuplicateLinker (`duplicate_linker.cpp`) | full-rescan flag, run counter, last result id | incremental and full passes | database, configuration |
| TranscodingManager (`transcoding_manager.cpp`) | queue in memory, one thread, `cache_map` rows, cache size | queue, claim, transcode, restore at startup, clean the cache, retry | database |
| MediaProcessingOrchestrator | timer thread, two mutexes, one cancellation flag | process all scanned files at once, from a call or on a timer | database, TranscodingManager; built by tests and library users, not by the server |
| DatabaseConnectionPool | pool of connections | acquire, release, resize | initialised by `main()`, otherwise unused |
| SingletonManager, ShutdownManager, HttpServerManager, `main()` | PID file, shutdown flag, HTTP thread and its handlers | start, stop, replace a running instance, change the address | all |
| MediaProcessor | none | from a file and a mode to a fingerprint, in nine functions | OpenCV, FFmpeg; the duplicate linker compares what it stores |
| MediaDecoder, DecoderCache, FileUtils, MountManager | caches | decode, stat, walk | external libraries |

What is hard here, and what must be right:

- **Flags.** Four kinds of threads move the same three columns without talking
  to each other. No file may be left in progress with nobody to finish it; work
  is claimed in bounded batches; what is settled is reopened only by a change
  of the file; everything found is worked off in the end. Scans read the disk
  before they take the mutex; the loop reads the configuration twice; a crash
  forgets every claim; a statement may fail.
- **Configuration.** A setter is three critical sections, the file it writes is
  the file the watcher loads, and observers keep copies. Copies must follow,
  the file must hold what a setter that returned has set, an outside edit must
  be loaded.
- **Transcoding.** A queue in memory beside the same queue in the database,
  across restarts; failed jobs; stale outputs; a cache whose cleanup removes
  files that others use.
- **Linking.** Requests that arrive while a pass runs; a hash that lets a pass
  be skipped, taken before the pass and over the links it writes. A pass may be
  skipped only if there is nothing to link, and the linker must come to rest.
- **Settings.** A setter names a path, a getter names a path, an event names a
  key and an observer looks for a key: four lists of names written in different
  files. A request for a section is a sequence of setters that may stop half way.
- **Orchestrator.** Passes overlap with one another and with every other claim;
  its timer thread takes a mutex twice.
- **Lifecycle.** Several processes share one PID file that is checked, removed,
  created and written in separate steps; inside one, five kinds of threads use a
  database that is closed at the end, and a handler can change the server it
  runs in. No two servers, no use after the close, and a shutdown that ends.
- **Fingerprints.** Nine functions with an early return after every library
  call; integer division over a duration that may be unknown; loops bounded by
  counters; hashes combined so that information cancels.

`PROJECT.json` lists every component with its status and every hazard at its
line with the properties that cover it.

## 2. The modules

| Module | Models |
|---|---|
| `MediaStore` | the table columns and the DatabaseManager operations on them, as operators without state |
| `FlagLedger` | the abstract specification of the flags |
| `ServerPipeline` | scanners, processing loop, processing requests, configuration changes, crash and restart over the tables; implements `FlagLedger` |
| `MCServerPipeline` | values for the constants that a `.cfg` cannot write |
| `ServerPipeline_proofs` | the theorems about `ServerPipeline` |
| `ConfigPropagation` | the configuration store, its files, the watcher, setters, bulk updates and observers |
| `ConfigPropagation_proofs` | the theorems about `ConfigPropagation` |
| `DuplicateLinker` | the duplicate linker's passes over results, links and the stored hash |
| `DuplicateLinker_proofs` | the theorems about `DuplicateLinker` |
| `JobQueue` | the abstract specification of a job queue with one worker |
| `TranscodingQueue` | the transcoding jobs, the worker, the outputs, restart and shutdown; implements `JobQueue` |
| `TranscodingQueue_proofs` | the theorems about `TranscodingQueue` |
| `ProcessingPasses` | the orchestrator's passes and timer, and the claims without priority, over `MediaStore` |
| `ProcessingPasses_proofs` | the theorems about `ProcessingPasses` |
| `ServerLifecycle` | the PID file, start, shutdown and end of several processes |
| `MCServerLifecycle` | values for its constants |
| `ServerLifecycle_proofs` | the theorems about `ServerLifecycle` |
| `MediaHashing` | MediaProcessor as operators: type, algorithm, sampling, fingerprint |
| `ConfigSettings` | every getter, setter, observer and request of the configuration as operators on paths |
| `MCAlgorithms` | the inputs and reference definitions `MediaHashing` and `ConfigSettings` are checked with |
| `Loops` | what the proofs need to know of loops |
| `MCAlgorithms_proofs` | the theorems about `MediaHashing`, `ConfigSettings` and the properties of `MCAlgorithms` |

Which composes which: `ServerPipeline` and `ProcessingPasses` are two sets of
threads over `MediaStore`; `ServerPipeline` and `TranscodingQueue` are mapped to
`FlagLedger` and `JobQueue` by `INSTANCE ... WITH`. The others share no decision
and are separate: what one needs of another is a constant or a choice there.

### 2.1 ServerPipeline

| Variable | In the code |
|---|---|
| `disk` | the content version each file has now |
| `scanned`, `meta`, `flag` | rows of `scanned_files`, `file_metadata`, `processed_<mode>` |
| `result` | `media_processing_results` (did it succeed, on which content) |
| `config`, `observed` | what PocoConfigAdapter returns; the loop's atomics |
| `up`, `crashes` | the process lives; how often it died |
| `loop` | `processingLoop`: place, modes of the claim, files still to mark, modes still to mark |
| `scanner[s]` | the file and the stat a scan thread has in hand |
| `request[r]` | `handleFile` of one request |

Every DatabaseManager call is one step, because `enqueueWriteInline` and
`enqueueReadInline` (lines 31-75) run it under one mutex in the caller's thread.
What happens between two calls is a step of its own where another thread can
interfere: `ScanStat`/`ScanStore` (the stat is taken before the mutex, line
1187), `LoopClaim`/`LoopNextFile`/`LoopMark` (the configuration is read again
for each file, and each mode is marked by its own call), `ReqProcess`/
`ReqStore`/`ReqMarkDone`. `LoopClaim` is the whole of
`getAndMarkFilesForProcessing[AnyMode]WithPriority`: both queries, their limits
and the marking. `Restart` is the part of `main()` that matters to the tables:
the reset before any thread runs.

Abstractions: metadata is a version number (0: stat failed, the column holds an
empty string that never matches); `ORDER BY created_at` is any choice; which
files have a finished transcoding is the constant `Transcoded`, because nothing
in the running server changes it (the queue is restored before the manager runs,
and nobody else fills it); a failing statement is `DbMayFail`, in which case a
query may return fewer rows and any UPDATE may have no effect. A claim marks with
one UPDATE per mode and file, each of which may fail by itself and is then only
logged, so `MarkedPairs` gives back any of the pairs: a row may be marked in one
mode and not in another, and is in the batch all the same.

### 2.2 ConfigPropagation

`memory` is `poco_cfg_`, `file` the two JSON files the server may use
(`config/config.json` and `config.json`), `seen` the copy an observer keeps,
`stale` says that config.json's modification time differs from
`last_write_time_`. A setter is `Setter` (update), `SetterSave`
(`persistChanges`, which writes the whole store), `SetterNotify` and
`SetterStore` (the observer reads, then stores, with `observers_mutex_` held
throughout: `ObserversFree`). The watcher is `WatchStat`, `WatchLoad`,
`WatchPublish`; the time it remembers is the one it took before loading
(`dirty`: written since). `Crash` during a save may leave a file that does not
parse, because `save()` truncates first.

### 2.3 DuplicateLinker

| Variable | In the code |
|---|---|
| `results`, `lastId` | `media_processing_results` with its AUTOINCREMENT id; a row that is replaced gets a new id |
| `links` | `links_<mode>` of `scanned_files` |
| `writes` | every other column the hash covers: only that they changed matters |
| `stored` | the flag `dedup_linker_state` |
| `needsFullRescan`, `incrementalRuns` | `needs_full_rescan_`, `incremental_run_count_` |
| `linker` | `workerLoop`: place, mode of the pass, full or not, hash taken, rows read, files still to link |
| `unseen`, `linker.lost` | history: something happened that the stored hash does not record |

The steps of a pass are the database calls of `workerLoop`: `TakeHash` (the hash
and the stored one, which nobody else writes), `ReadRows`, one `LinkFile` per
file, `PassDone`, `StoreHash`; between them other threads store results, scan
and ask for a full rescan. SHA256 is abstracted to the data it is taken of, a
list of ids to a set of files. A failed `getFileId` puts -1 in the list, which
stands for no file; a row of `success = 0` counts as one without a hash.
The module is separate from `ServerPipeline` because they share no decision:
the linker reads what processing stores and writes columns nobody else reads.

### 2.4 ConfigSettings

A configuration is a function from paths, with dots as in the code, to numbers.
`Getters` says which path each getter of PocoConfigManager reads, `Set` which
paths each setter of PocoConfigAdapter writes and which keys it publishes,
`Hears` and `Keeps` which component looks for which key and which settings it
then reads again, `Update`, `Show` and the `handle...` operators what the
requests under /config do with a body in which `Bad` is a value of the wrong
type. A request for a section goes through its settings in the code's order, one
`UpdateOne` each, until the first one that throws. The setters save to the file
that was loaded at the start (`own`), the collective updates to config.json
whatever that is. `ConfigPropagation` has the threads instead and treats its
keys as settings whose getter reads the path the setter writes; which ones these
are is what `ConfigSettings` tells.

### 2.5 TranscodingQueue

| Variable | In the code |
|---|---|
| `disk`, `output` | the raw files; what the cache directory holds for each: nothing, half a file, or the content it was made from |
| `row` | `cache_map.status` |
| `worker` | `transcodingThread`: place, job in hand, content it has read |
| `request[r]` | a call of `queueForTranscoding` between its look and its insert |
| `limit`, `sizeLock` | `max_cache_size_`, `cache_size_mutex_` |
| `up`, `cancelled` | the process with its manager; `cancelled_` |

Each database call is a step (a claim is a SELECT only, `WorkerClaim`; marking
is `WorkerMark`), and so is each look at the file system: an output is seen, the
limit is checked, the source is read while imwrite has created the output, and
the output is finished, all in between other threads' steps. `Start` is
`main()`'s order: reset, restore while nothing runs (so that it queues nothing),
start the thread. The first look may throw (`exists`, `remove`): the thread's
catch starts the loop over and the job stays in progress without it. A cleanup
takes `cache_size_mutex_` and calls a function that takes it again; the model
stops that thread there, so that what the cleanups choose to remove is never
reached. `cache_map` is assumed to have the `status` column (see the findings).
Which output is made is the content version it was made from; libraw and FFmpeg
either succeed or leave what they have written.

### 2.6 ProcessingPasses

A pass is a record: place, modes, how often each file is still listed (a file may
be in both queries), the file in hand and its modes to come, what it has taken
from "to do" (`took`, history), and the numbers of files listed and of events
emitted (history). `PassBegin` is the claim inside `subscribe` with its
transaction; `PassFile`, `PassProcess`, `PassMark` are the loop, with its two
looks at `cancelled_`. `ClaimBatch`, `ClaimOne` and `ClaimerMark` are
`getAndMarkFilesForProcessing`, `tryAcquireProcessingLock` and the calls that
finish or give back what they claimed. An UPDATE that fails leaves its pair of
mode and file unmarked and the file in the list. `PassThrow` is the catch around
one file: an exception ends it with a failed event, and the modes it had left
stay in progress. `Rescan` is `storeScannedFile` with other metadata, which puts
all modes of a file back to do whoever has it; `reopened` (history) are the pairs
that somebody had when that happened. The timer thread has the steps at which
it looks at its flags and takes the mutex.

### 2.7 ServerLifecycle

`pidFile` is the file of that name: who created it (`by`, its identity, because a
descriptor keeps referring to the file it opened) and what it says (`pid`).
`proc[i]` is a process: `pc` where `main()` is, `stage` the component it stops,
`http`, `serving`, `handler`, `observers` the HTTP server and a request that
changes its address, `threads` the users of the database that still run,
`stopped` the ones told to end, `requested` and `dying` the shutdown and an exit
on the watcher's thread; `hung` is who waits for `cache_size_mutex_` for ever
(section 2.5): the transcoding thread, which `main()` joins, or a handler, which
the HTTP thread waits for. An id is used again by a later process. `robbed` is
history: the file of a living server has been removed. A PID file that was
created and not yet written reads as any value, since the variable it is read
into is not initialised. `StopOrder` is the order in which `main()` stops its
components.

### 2.8 MediaHashing

A file is a record of what the libraries report about it, with `broken`, the set
of library steps that fail on it; `ProcessFile` returns the artifact or the
failure. The nine functions (three media, three modes) are written out with
their early returns; `SampleTargets`, `ExtractAt`, `ReadPacket` and `TakeFrame`
are the seeking and reading of a video packet by packet, `CombineFrameHashes`
the exclusive or of the frames' hashes. Grey values, coefficients and durations
are inputs; SHA-256 is taken to be injective, so an artifact is the data it is
taken of.

A loop of the code is a function on 0..N that says where it is after n rounds,
and `Xor` is defined by the bits of a byte: neither needs a recursive operator or
a module the provers have no facts about.

## 3. The runs

| Run | Checks | Shows |
|---|---|---|
| `pipeline_stack` | `InProgressHeld`, `ListedOnce`, `SettledReopens` | with the quality stack on, no flag stays at -1 without the batch that claimed it; a batch lists no file twice; only changed (or unreadable) metadata reopens a settled mode |
| `pipeline_faults` | `TypeOK`, `KeepsLedger` | with failing statements, claims that mark some modes of a row only, failing stats, changing configuration and a crash, every step is one `FlagLedger` allows |
| `pipeline_converges` | `BatchBounded`, `Converges` | racing scanners, two contents per file, batches of one, one crash: at most one batch is in progress, crashes included, and in the end every file is recorded as it is on disk and settled |
| `pipeline_done_without_result` | `DoneHasResult`, violated | the loop marks files done that were never processed |
| `linker_passes` | `TypeOK`, `SkippedOnlyIfLinked`, `ComesToRest` | results, scans, a failing statement, mode changes and a crash in the middle of passes: a pass is skipped only if there is nothing to link, and the linker comes to rest with everything linked |
| `linker_stale_links` | `LinksRight`, violated | a file that has lost its duplicates stays linked to them |
| `config_setters` | `ObserversFollow`, `SavedOnceReturned` | two setters at once while the watcher loads the file they write |
| `config_edits` | `TypeOK`, `Reconciling`, `EditsLoaded` | outside edits, broken files, setters and bulk updates with one file |
| `transcoding_jobs` | `TypeOK`, `OrphansExplained`, `DoneIsWhole`, `SettledKept`, `Served`, `StopReturns`, `KeepsJobQueue` | sources edited and removed, a changing cache limit, cleanups, a failing statement or an exception, a death, a shutdown: jobs in progress without the worker are accounted for, finished ones keep status and a whole output, queued ones are settled, a shutdown ends, and the queue is a `JobQueue` |
| `orchestrator` | `TypeOK`, `Exclusive`, `NothingStranded`, `EveryFileReported`, `StopReturns` | two overlapping passes and another claimer, with one trouble or one scan that finds a file changed: no pair is taken twice unless the scan put it back to do, none is left in progress without anybody to come to it, each listed file has its event, stopping the timer hangs in one case only |
| `lifecycle` | `TypeOK`, `OneServer`, `UsersGone`, `ShutdownCompletes` | two processes started, replaced, killed: one server unless a living one was robbed of its file, the database closed after its users, a shutdown that ends unless a handler waits for its own server or a thread hangs on the cache's mutex |
| `algorithms` | `TargetsSpread`, `TakenFrames`, `FingerprintForgets`, `PHashSplits`, `AudioFastSums`, `ArtifactOfItsMedium`, `RejectedPrefix`, `SettersReach`, `CopiesFollow` | the operators of `MediaHashing` and `ConfigSettings` against reference definitions, on every input of small sets |

The two violated properties state what a document or a comment of the
repository says; `PROJECT.json` quotes it under "findings".

Several properties of the passing runs name an exception. Each one is a thing
the code does and something the property would be false without; they are listed
under "findings" too, without a run:

- `Converges` holds with `HasStatusColumn = TRUE`. A database the server made
  itself has no such column, and then no claim returns anything.
- `ObserversFollow` holds with `Bulk = FALSE`: collective requests publish keys
  no observer that keeps a copy looks for. `CopiesFollow` says exactly when the
  copies are right.
- `ReturnedIsSaved` (what a setter wrote is in the file when it returns) is
  refuted by TLC with the constants of `config_setters`: the watcher can put the
  old value back between update and save. What holds is `SavedOnceReturned`.
- `Served` and `TranscodingQueue!StopReturns` except the state in which a cleanup
  waits for itself; `ProcessingPasses!StopReturns` the one in which the timer
  thread is about to take the mutex; `ShutdownCompletes` the one in which a
  handler waits for its own server, and the ones in which the transcoding thread
  or a handler waits for ever for the cache's mutex: `main()` joins the first, and
  the HTTP thread, which it joins too, waits for the second.
- `Exclusive` excepts pairs that a scan put back to do while somebody had them
  (`reopened`): they are claimed again while the first owner still works on them.
- `OrphansExplained` allows one job for each failed statement and for each look at
  the file system that threw; `Served` excepts such jobs until the next start.
- `OneServer` excepts histories in which the file of a living server was removed,
  `UsersGone` the detached startup scan, `NothingStranded` histories with a
  cancellation, a disabled type, an exception or a failed statement,
  `DoneIsWhole` histories with a death, an exception or a failed statement.

**Bounds.** `MaxVersion` (contents a file takes on) and `MaxCrashes` bound
counters; everything else is finite by itself. Two modes stand for three: the
code treats the columns alike, and two are enough for a row that is in progress
in one mode and to do in another. Two files with a batch of two make a claim
that mixes a stuck row and a pending one (`BatchSize \div 2` is 1); with a batch
of one (`pipeline_converges`) two files in progress would be one too many.
`pipeline_faults` (1,534,880 states) keeps one content, no transcodings and one
crash, because statements that fail pair by pair multiply the states; the
scanner still stores unreadable metadata, which reopens flags as changed content
does. Nothing in it tells the two files apart, and they are taken as symmetric,
which is sound because it checks an invariant and a step property only. One
content change shows a stale stat, a reset under a claim and a rescan between a
request's steps; one crash shows every half-done batch, and the state it leaves
is again an initial-like state, so a second one repeats the first.
`pipeline_converges` uses two scanners because one cannot overwrite a newer stat
with an older one. For the configuration two callers and two keys are what it
takes to save another caller's update and to notify in another order.
`config_setters` turns the deadlock check off: after a torn save the server
cannot start, and with no edits nobody repairs the file.

`linker_passes` has two files and one artifact hash: a file is in a group or in
none, a group is complete or half written, and two results make and break one
(the second may replace the first). `FullRescanInterval` is 1 (10 in the code),
so that a periodic full pass comes after one incremental pass; the theorem
holds for every interval. One other write suffices to make a stored hash stale
during a pass and between passes, one failure to lose rows, a link, a hash or
the flag, one crash to leave a group half linked. `linker_stale_links` needs
three results and two hashes: link two files, then take one away.

`transcoding_jobs` (246,454 states) has two sources of two contents, so that an
output may be older than its source, one caller, limits of 0 and 2 outputs, so
that the cache is over its limit or never is, one failing statement or look and
one end of the process, which is a death or a shutdown. After it everything is
bounded and the system may stop: deadlock is not checked. `orchestrator`
(1,761,154 states) has a raw and an ordinary file, two modes, a batch of two, so
that a claim mixes stuck and pending rows, two passes and one claimer with two
claims between them, hence every pair of overlapping claims; one incident is a
failing statement, an exception, a cancellation, a disabled type, a start of the
timer or a scan that finds a file changed: a second one would only add what the
first has excused, and the theorems hold for any number of them. When the claims
are used up the system stops, and the timer may hang: deadlock is not checked.
`lifecycle` (289,683 states) has two processes and two starts, hence a start
against a server, against another start, and against the end of a server; one
incident is a request that changes an address or a thread that hangs. Its
`StopOrder` is the transcoder and the loop, of the four in the code: the linker
and the scheduler stop like the loop. With no starts left everything ends:
deadlock is not checked. `algorithms` (83,925 states) picks one input and ends:
durations up to 12 ticks and up to 5 targets (every remainder of the division);
up to 2 frames wanted and up to 4 packets of up to two frames each, of every
kind, so that reading stops because enough were taken, because three times as
many were seen, or at the end; up to 4 frame hashes, which cancel in pairs; up
to 5 coefficients of 5 values, with and without ties and with a middle one;
sounds whose sums are equal with and without a carry; and rows of up to 3
requests, which make a value, its change and a reload.

**Fairness.** `ServerPipeline!FairSpec` assumes that the loop thread runs when
it can (it has no other condition than `running_`), that a dead process is
started again, that a scan thread which has a stat in hand stores it, and that
every file is scanned again and again: the scheduler calls the scan every
interval for as long as the process lives, and the process may die between two
scans, hence strong fairness of `ScanStat` for each file by some scanner.
Nothing is assumed of requests, edits and configuration changes.
`ConfigPropagation!FairSpec` assumes that threads that can go on do so and that
a process that can start is started; crashes may go on for ever, and the
liveness property speaks of runs in which they stop. `DuplicateLinker!FairSpec`
assumes that the worker thread goes on, as its timed wait makes sure, and that a
dead process is started again; results, writes, failures and crashes are
bounded, changes of the mode are not. `TranscodingQueue!FairSpec` assumes that
the worker goes on when it can (its loop waits with a timeout) and that a dead
process is started again; nothing of callers, edits, limits and cleanups.
`ProcessingPasses!FairSpec` assumes only that the timer thread, and the call
that waits for it, go on. `ServerLifecycle!FairSpec` assumes that the threads of
a process that can go on do, each user of the database that is free to end
included, and that `main()` goes on; nothing of requests, signals, starts and
crashes, and nothing of a thread that hangs: it never can go on. Except for the
scans, weak fairness is enough.

**Faults.** Each module has operators named `Faulty...`: a plausible bug of the
definition that follows it. Put in its place, each makes one of the properties
above fail; no behaviour of the specification uses them. `PROJECT.json` pairs
them with the properties under "mutants".

## 4. What is proved

For every value of the constants that the modules' assumptions allow:

| Theorem | Says |
|---|---|
| `ServerPipeline_proofs!TypeCorrect` | `Spec => []TypeOK` |
| `ServerPipeline_proofs!PipelineInvariant` | `Spec => []PipelineInv`, the inductive invariant |
| `InProgressIsHeld`, `AtMostOneBatch`, `EachFileListedOnce` | `InProgressHeld`, `BatchBounded`, `ListedOnce` |
| `ImplementsLedger` | `Spec => KeepsLedger`: the pipeline implements `FlagLedger` |
| `SettledStays` | `Spec => SettledReopens` |
| `ConfigPropagation_proofs!TypeCorrect` | `Spec => []TypeOK` |
| `SettersPropagate` | `SettersOnly` implies that `ObserversFollow` and `SavedOnceReturned` are invariant |
| `SettersSave` | its second half alone |
| `NothingForgotten` | `OneFile` implies that `Reconciling` is invariant |
| `DuplicateLinker_proofs!TypeCorrect` | `Spec => []TypeOK` |
| `SkipsAreSafe` | `Spec => []SkippedOnlyIfLinked` |
| `TranscodingQueue_proofs!TypeCorrect` | `Spec => []TypeOK` |
| `OrphansAreExplained`, `FinishedIsWhole` | `OrphansExplained`, `DoneIsWhole` |
| `FinishedStays` | `Spec => SettledKept` |
| `ImplementsJobQueue` | `Spec => KeepsJobQueue`: the transcoding jobs implement `JobQueue` |
| `ProcessingPasses_proofs!TypeCorrect` | `Spec => []TypeOK` |
| `PassesInvariant` | `Spec => []PassesInv`, the inductive invariant |
| `ClaimsExclude`, `NoneStranded`, `AllReported` | `Exclusive`, `NothingStranded`, `EveryFileReported` |
| `ServerLifecycle_proofs!TypeCorrect` | `Spec => []TypeOK` |
| `LifecycleInvariant` | `Spec => []LifecycleInv`, the inductive invariant |
| `OnlyOneServer`, `NobodyUsesAClosedDatabase` | `OneServer`, `UsersGone` |
| `MCAlgorithms_proofs!SettersTakeEffect` | for every configuration and value: a setter changes what its getter returns exactly for the settings in `Effective` |
| `PrefixApplied` | for every order of settings, body and configuration: a section request applies, saves and announces what comes before the first wrong value |
| `CopiesFollowRows` | for rows of requests of any length: a copy is what the getter returns once the setter was called after the last collective update and the last reload |
| `TargetsCut` | for every duration and count: the sampling targets cut the stream evenly |
| `FirstFramesTaken` | for every number and length of packets and every number of frames wanted: the first usable frames are taken |
| `PHashBits` | for every list of coefficients: the median exists, and how many bits it sets |
| `AudioFastForgets` | for every two sounds: equal fingerprints are equal sums modulo 256 |
| `FingerprintBits`, `FingerprintIsParity` | for every number of frames and every hashes: a bit of the fingerprint is the parity of that bit over the frames, so two fingerprints of equally many frames are equal exactly when these parities are |
| `ArtifactOfFile` | for every file, mode and configuration: when `ProcessFile` succeeds and what it returns |
| `SettersReachAlways`, `RejectedPrefixAlways`, `CopiesFollowAlways`, `TargetsSpreadAlways`, `TakenFramesAlways`, `PHashSplitsAlways`, `AudioFastSumsAlways`, `FingerprintForgetsAlways`, `ArtifactOfItsMediumAlways` | `SettersReach`, `RejectedPrefix`, `CopiesFollow`, `TargetsSpread`, `TakenFrames`, `PHashSplits`, `AudioFastSums`, `FingerprintForgets`, `ArtifactOfItsMedium` |

The argument for the ledger: `FlagLedger!Claim` takes any set of to-do pairs of at
most a batch of files and promises nothing of a file's other modes, because the
statements that take them fail independently; the pairs a claim of the pipeline
marks are such a set, whatever subset of its UPDATEs succeeded.

The argument for the pipeline: `InProgressHeld` alone is not inductive. That a
claim lists nothing twice needs that, when the loop claims, no flag is at -1 in
a selected mode (`InProgressHeld` with an idle loop, which `LoopShape` gives);
that the loop's marks finish what it claimed needs that the configuration is the
one of the claim (`ConfigKept`) and that only selected modes are ever at -1
(`ClaimedModes`); that a batch is bounded after a crash needs that the next
claim is made only after the reset. All of it assumes `Frozen`, the configuration
not changing and statements not failing, because the code gives the properties
up otherwise; `ImplementsLedger` does not assume it. `SettledStays` needs only
that a file without a row has unreadable metadata (`Unseen`): a step that makes a
settled mode to do again is a scan that compares the metadata, or the startup
reset, which touches no settled mode.

For the setters: an observer's copy that is wrong is owed a correction by a
request in flight; the value an observer is about to store is current or
somebody else still has to publish (`StoringCurrent`), which is where the
mutex around the observers is needed; and the file is right unless somebody has
yet to save, so that the watcher can undo only an update whose setter will still
save and publish. For `Reconciling`: `OutOfStep` while the watcher publishes
means that its `dirty` bit is set.

For the linker: `SkippedOnlyIfLinked` speaks of a hash that was stored by one
pass and of tables that others have changed since. What makes `LinkerInv`
inductive is that row ids never come back (`IdsKnown`): once a result is stored,
no hash taken before can equal the tables again, so if it does, the rows a pass
has in hand are the current ones (`FoundCurrent`) and the files it has done are
linked to exactly their duplicates. The full-rescan request plays no part in it,
which is why a request that a running pass clears does no harm. The counter's
type needs `CountInv`, because it is compared and incremented in two steps.

For the transcoding queue: a job in progress without the worker must be paid for
by a failed statement or an exception or, while the process is down, be the one it held
(`OrphanBound`), and the job the worker holds must be marked (`JobMarked`);
a finished job has an output (`OutputsThere`), because the worker marks a job
finished only after it has seen or written one, and a claim never takes a
finished job; half a file belongs to the job being written or to a failed one
(`TornExplained`). The refinement maps a step of the worker to taking, finishing or
failing a job, a failed outcome to leaving it running without the worker, and
`Start` to the recovery.

For the passes: `Exclusive` is not inductive, because a pair that a claim takes
must be nobody's already; `OwnedIsClaimed` adds that a pair somebody owns is not
to do, and all claims take only what is to do. A scan breaks both, for the pairs
of `reopened` only; such a pair leaves the set when a later scan finds that
nobody has it, which is when it is not owned and the two facts hold again.
`EveryFileReported` needs the sum behind it: what a pass has listed is what it
has reported, has in hand and has still in its list (`Sound`); a file may be
listed twice, so that what is left is counted as the files listed at least once
and those listed twice. `NothingStranded` needs `NoTrouble`: before the first
trouble nothing is cancelled and every file is enabled, so that no pass quits.

For the lifecycle: `OwnFile` says that whoever has created the file and not given
it up still has it, unless somebody was robbed. Two servers would both have
created the file of that name, so one was robbed. `InOrder` follows one process
through its shutdown: at each place of `main()` it says whether requests are still
served and which threads are gone; the database is closed at its end, for every
list of components. Threads that hang play no part in it: `main()` does not pass a
join of one, so that the database is not closed.

For the algorithms, a behaviour is one input and the theorems are about what the
operators return for it, for inputs of any size. Loops are the difficulty: the
library's induction theorems take an operator, which the provers cannot
instantiate. `Loops` has sets in its place: an invariant is the set of the
rounds after which it holds, a set of numbers that is not empty has a least
element (from the library's well-founded order of the naturals), so a set that
contains the start and is closed under a round contains every round
(`RoundInduction`); and `LoopExists` says that the function a loop defines exists, so
that it has the values its definition gives. With these:

- *Section requests* (`PrefixApplied`): after n settings the request has applied
  exactly the settings among the first n that come before the first wrong value.
- *Copies* (`CopiesFollowRows`): after n requests, a copy is what the getter
  returns unless a collective update or a reload came after the last setter of that
  setting. A setter of another setting leaves both alone or changes both: a
  component told of a key reads again everything it keeps that depends on it.
- *Sampling* (`FirstFramesTaken`): the invariant of the two nested loops says that
  what has been taken is usable, in order, and all of the usable ones among the
  frames seen; that what has been counted is what has been seen, unless packets
  were passed over, which only happens when three times the frames wanted have
  been counted. The code has no flag for the key frame: it asks whether something
  was taken. That is the same, because a usable frame that is no key frame implies
  an earlier fit key frame, which is itself usable and therefore taken.
- *Median* (`PHashBits`): the element the code sorts into the middle exists (it is
  the least value that more than half of the coefficients do not exceed), and
  everything said about the bits follows from counting on its two sides.
- *Exclusive or* (`FingerprintBits`): a number below 256 is determined by its
  eight bits, a bit of `Xor` is the difference of two bits, hence a bit after n
  frames is the parity of that bit among them. `FingerprintForgets` then needs
  that no exclusive or of some of the three hashes is zero.
- *Artifacts* (`ArtifactOfFile`): by cases of the medium and the mode.
  `ArtifactOfItsMedium` unrolls the loops over targets, packets and frames for
  the files that are picked.

`FirstFramesTaken` assumes `IsReading`: a decoder error is the last thing that
comes out of a packet, because the code stops receiving there.
`ArtifactOfFile` assumes nothing of the file, only that the configuration has the
three lists of extensions.

Assumptions: `StoreAssumption`, `PipelineAssumption`, `ConfigAssumption`,
`LinkerAssumption`, `QueueAssumption`, `PassesAssumption`, `LifecycleAssumption`,
`NothingAssumption` (types of the constants; TLC evaluates them in every run),
and in the statements `SettersOnly` (no bulk updates, no edits, saves succeed)
and `OneFile`. `BoundsAssumption` types the bounds of `algorithms` and the values
its sounds and coefficients are taken from; it bounds none of them.

Only model-checked: the liveness properties `Converges`, `EditsLoaded`,
`ComesToRest`, `Served`, both `StopReturns` and `ShutdownCompletes`, which rest on
fairness and ENABLED, and the prover supports neither. Every other property of a
passing run is a theorem.

## 5. What is not modelled

Not reached by any thread of the server: DatabaseConnectionPool (initialised,
never asked for a connection), MediaDecoder and DecoderCache, `addFileLink` and
`removeFileLink`, `retryTranscodingErrorFiles`, `FileProcessor::processFile`, the
orchestrator's per-file lock set, the flag values 3 and 4. What the cache cleanups
would remove is behind the lock they wait for themselves.

Arithmetic, text and I/O: scaling, colour conversion, the DCT and decoding, which
are OpenCV's, FFmpeg's and libraw's; routing, JSON, authentication, OpenAPI text,
logging, diagnostics and resource monitoring; directory walking; network path
translation. The read-only handlers change nothing.

In the modelled components: a subscriber of the orchestrator that throws in its
own onNext (the catch would then report the file a second time); the YAML
fallback of the configuration, a config.json that is missing when the watcher
starts, the validation of values, the deletion of all rows, and the intervals of
the scheduler and of the linker (only that they come round).

What could be added: the compositions of `TranscodingQueue` with
`ServerPipeline`, which would turn the constant `Transcoded` into the state of the
jobs (today nothing in the running server changes it after the start);
`addFileLink` and `removeFileLink` as two critical sections once somebody calls
them; the cleanups once they return.
