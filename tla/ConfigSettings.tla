--------------------------- MODULE ConfigSettings ---------------------------
(***************************************************************************)
(* Where the setters of PocoConfigAdapter write, where the getters of      *)
(* PocoConfigManager read, which keys the events carry, which component    *)
(* listens to which key, and the requests under /config that change and    *)
(* show the settings (include/web/route_handlers.hpp).  ConfigPropagation  *)
(* has the threads and the file; here one update is one operator on        *)
(*   cfg    the configuration: from paths to values,                       *)
(*   files  what config.json and config/config.json hold,                  *)
(*   own    config_file_path_: which of them was loaded at the start, and  *)
(*          is the one the setters save to,                                *)
(*   copies what the components that keep settings last read.              *)
(* Paths and keys are the dotted strings of the code; a value is a number, *)
(* 0 the one that every path starts with (the defaults that differ by path *)
(* play no role).                                                          *)
(***************************************************************************)
EXTENDS Integers, Sequences

-----------------------------------------------------------------------------
(***************************************************************************)
(* The getters: the path each one reads.                                   *)
(***************************************************************************)

getDedupMode(cfg)    == cfg["dedup_mode"]
getLogLevel(cfg)     == cfg["log_level"]
getServerPort(cfg)   == cfg["server_port"]
getServerHost(cfg)   == cfg["server_host"]
getAuthSecret(cfg)   == cfg["auth_secret"]
getScanIntervalSeconds(cfg)       == cfg["scan_interval_seconds"]
getProcessingIntervalSeconds(cfg) == cfg["processing_interval_seconds"]
getMaxProcessingThreads(cfg) == cfg["threading.max_processing_threads"]
getMaxScanThreads(cfg)       == cfg["threading.max_scan_threads"]
getDatabaseThreads(cfg)      == cfg["threading.database_threads"]
getMaxDecoderThreads(cfg)    == cfg["threading.max_decoder_threads"]
getProcessingBatchSize(cfg)  == cfg["processing.batch_size"]
getPreProcessQualityStack(cfg) == cfg["pre_process_quality_stack"]
getDatabaseMaxRetries(cfg)     == cfg["database.retry.max_attempts"]
getDatabaseBackoffBaseMs(cfg)  == cfg["database.retry.backoff_base_ms"]
getDatabaseMaxBackoffMs(cfg)   == cfg["database.retry.max_backoff_ms"]
getDatabaseBusyTimeoutMs(cfg)  ==
  cfg["database.timeout.busy_timeout_ms"]
getDatabaseOperationTimeoutMs(cfg) ==
  cfg["database.timeout.operation_timeout_ms"]
getDecoderCacheSizeMB(cfg) == cfg["cache.decoder_cache_size_mb"]
\* One extension of one category stands for them all.
getSupportedFileTypes(cfg) == cfg["categories.video.mp4"]
\* The transcoding types are the same entries of the categories.
getTranscodingFileTypes(cfg) == cfg["categories.video.mp4"]
\* One mode stands for them all.
getVideoSkipDurationSeconds(cfg) ==
  cfg["video_processing.FAST.skip_duration_seconds"]
getVideoFramesPerSkip(cfg) == cfg["video_processing.FAST.frames_per_skip"]
getVideoSkipCount(cfg)     == cfg["video_processing.FAST.skip_count"]

\* All of them, by the name of the setting.
Getters(cfg) ==
  [DedupMode |-> getDedupMode(cfg), LogLevel |-> getLogLevel(cfg),
   ServerPort |-> getServerPort(cfg), ServerHost |-> getServerHost(cfg),
   AuthSecret |-> getAuthSecret(cfg),
   ScanInterval |-> getScanIntervalSeconds(cfg),
   ProcessingInterval |-> getProcessingIntervalSeconds(cfg),
   MaxProcessingThreads |-> getMaxProcessingThreads(cfg),
   MaxScanThreads |-> getMaxScanThreads(cfg),
   DatabaseThreads |-> getDatabaseThreads(cfg),
   MaxDecoderThreads |-> getMaxDecoderThreads(cfg),
   BatchSize |-> getProcessingBatchSize(cfg),
   QualityStack |-> getPreProcessQualityStack(cfg),
   MaxRetries |-> getDatabaseMaxRetries(cfg),
   BackoffBase |-> getDatabaseBackoffBaseMs(cfg),
   MaxBackoff |-> getDatabaseMaxBackoffMs(cfg),
   BusyTimeout |-> getDatabaseBusyTimeoutMs(cfg),
   OperationTimeout |-> getDatabaseOperationTimeoutMs(cfg),
   CacheSize |-> getDecoderCacheSizeMB(cfg),
   FileType |-> getSupportedFileTypes(cfg),
   TranscodingType |-> getTranscodingFileTypes(cfg),
   VideoSkipDuration |-> getVideoSkipDurationSeconds(cfg),
   VideoFramesPerSkip |-> getVideoFramesPerSkip(cfg),
   VideoSkipCount |-> getVideoSkipCount(cfg)]
-----------------------------------------------------------------------------
(***************************************************************************)
(* The observers.  One that keeps settings is a function from the keys it  *)
(* looks for to the setting it then reads again through its getter.        *)
(***************************************************************************)

SchedulerHears == [scan_interval_seconds       |-> "ScanInterval",
                   processing_interval_seconds |-> "ProcessingInterval"]

LinkerHears == [processing_interval_seconds |-> "ProcessingInterval"]

ContinuousProcessingHears ==
  [processing_batch_size       |-> "BatchSize",
   processing_interval_seconds |-> "ProcessingInterval",
   pre_process_quality_stack   |-> "QualityStack",
   dedup_mode                  |-> "DedupMode"]

TranscodingHears ==
  [key \in {"decoder_cache_size_mb", "cache.decoder_cache_size_mb"}
     |-> "CacheSize"]

HttpServerHears == [server_port |-> "ServerPort", server_host |-> "ServerHost"]

LoggerObserverHears == [log_level |-> "LogLevel"]

\* The thread counts it also looks for are only logged.
ThreadingObserverHears == [database_threads |-> "DatabaseThreads"]

DatabaseManagerHears == [database_busy_timeout_ms |-> "BusyTimeout"]

Hears ==
  [scheduler |-> SchedulerHears, linker |-> LinkerHears,
   processing |-> ContinuousProcessingHears, transcoding |-> TranscodingHears,
   http |-> HttpServerHears, logger |-> LoggerObserverHears,
   pool |-> ThreadingObserverHears, database |-> DatabaseManagerHears]

\* The transcoder reads its list of extensions once, when it is initialised.
ReadOnce(component) ==
  IF component = "transcoding" THEN {"TranscodingType"} ELSE {}

\* The settings a component keeps.
Keeps(component) ==
  {Hears[component][key] : key \in DOMAIN Hears[component]}
    \cup ReadOnce(component)

\* The observers that keep no setting: all but one only write a log entry;
\* FileProcessor queues the change of mode.
ServerObserverLogs == {"server_port", "server_host"}
ScanObserverLogs == {"scan_interval_seconds", "max_scan_threads"}
ThreadingObserverLogs ==
  {"max_processing_threads", "max_scan_threads"}
DatabaseObserverLogs ==
  {"database.retry.max_attempts",
   "database.retry.backoff_base_ms",
   "database.retry.max_backoff_ms",
   "database.timeout.busy_timeout_ms",
   "database.timeout.operation_timeout_ms"}
FileTypeObserverLogs ==
  {"categories.audio", "categories.images", "categories.images_raw",
   "categories.video", "transcoding_file_types"}
VideoObserverLogs ==
  {"video_processing.QUALITY", "video_processing.BALANCED",
   "video_processing.FAST", "dedup_mode"}
CacheObserverLogs ==
  {"decoder_cache_size_mb", "cache.decoder_cache_size_mb"}
ProcessingObserverLogs ==
  {"processing_batch_size", "processing.batch_size",
   "pre_process_quality_stack"}
DedupModeObserverLogs == {"dedup_mode"}
OrchestratorLogs == {"dedup_mode"}
FileProcessorQueues == {"dedup_mode"}

\* Some observer, of either sort, looks for the key.
Heard(key) ==
  \/ \E component \in DOMAIN Hears : key \in DOMAIN Hears[component]
  \/ key \in UNION {ServerObserverLogs, ScanObserverLogs,
                    ThreadingObserverLogs, DatabaseObserverLogs,
                    FileTypeObserverLogs, VideoObserverLogs,
                    CacheObserverLogs, ProcessingObserverLogs,
                    DedupModeObserverLogs, OrchestratorLogs,
                    FileProcessorQueues}

\* publishEvent: each component reads again what the keys of the event name.
Publish(world, keys) ==
  LET value == Getters(world.cfg)
      Named(component) ==
        {Hears[component][key] : key \in keys \cap DOMAIN Hears[component]}
  IN  [world EXCEPT !.copies =
         [component \in DOMAIN @ |->
            [setting \in DOMAIN @[component] |->
               IF setting \in Named(component) THEN value[setting]
                                               ELSE @[component][setting]]]]

-----------------------------------------------------------------------------
(***************************************************************************)
(* The setters: each writes its paths, saves, and publishes them as keys.  *)
(***************************************************************************)

\* Values for some paths; the other paths keep theirs.
Written(cfg, patch) ==
  [path \in DOMAIN cfg |-> IF path \in DOMAIN patch THEN patch[path]
                                                    ELSE cfg[path]]

\* PocoConfigManager::save
Save(world, path) == [world EXCEPT !.files[path] = world.cfg]

\* persistChanges
Persist(world) == Save(world, world.own)

FaultySetter(world, paths, v) ==
  Persist([Publish(world, paths) EXCEPT
             !.cfg = Written(@, [p \in paths |-> v])])

Setter(world, paths, v) ==
  Publish(Persist([world EXCEPT !.cfg = Written(@, [p \in paths |-> v])]),
          paths)

setDedupMode(world, v)    == Setter(world, {"dedup_mode"}, v)
setLogLevel(world, v)     == Setter(world, {"log_level"}, v)
setServerPort(world, v)   == Setter(world, {"server_port"}, v)
setAuthSecret(world, v)   == Setter(world, {"auth_secret"}, v)
setServerHost(world, v)   == Setter(world, {"server_host"}, v)
FaultySetScanIntervalSeconds(world, v) ==
  Setter(world, {"scan_interval"}, v)
setScanIntervalSeconds(world, v) ==
  Setter(world, {"scan_interval_seconds"}, v)
setProcessingIntervalSeconds(world, v) ==
  Setter(world, {"processing_interval_seconds"}, v)
setMaxProcessingThreads(world, v) ==
  Setter(world, {"max_processing_threads"}, v)
setMaxScanThreads(world, v)  == Setter(world, {"max_scan_threads"}, v)
setDatabaseThreads(world, v) == Setter(world, {"database_threads"}, v)
setMaxDecoderThreads(world, v) ==
  Setter(world, {"max_decoder_threads",
                 "threading.max_decoder_threads"}, v)
setProcessingBatchSize(world, v) ==
  Setter(world, {"processing_batch_size"}, v)
setPreProcessQualityStack(world, v) ==
  Setter(world, {"pre_process_quality_stack"}, v)
setDecoderCacheSizeMB(world, v) ==
  Setter(world, {"decoder_cache_size_mb"}, v)
setDatabaseMaxRetries(world, v) ==
  Setter(world, {"database_max_retries"}, v)
setDatabaseBackoffBaseMs(world, v) ==
  Setter(world, {"database_backoff_base_ms"}, v)
setDatabaseMaxBackoffMs(world, v) ==
  Setter(world, {"database_max_backoff_ms"}, v)
setDatabaseBusyTimeoutMs(world, v) ==
  Setter(world, {"database_busy_timeout_ms"}, v)
setDatabaseOperationTimeoutMs(world, v) ==
  Setter(world, {"database_operation_timeout_ms"}, v)
setFileTypeEnabled(world, v) ==
  Setter(world, {"categories.video.mp4"}, v)
setTranscodingFileType(world, v) == Setter(world, {"transcoding.mp4"}, v)
\* The modes of a video update are read and not used.
setVideoSkipDurationSeconds(world, v) ==
  Setter(world, {"video.skip_duration_seconds"}, v)
setVideoFramesPerSkip(world, v) ==
  Setter(world, {"video.frames_per_skip"}, v)
setVideoSkipCount(world, v) == Setter(world, {"video.skip_count"}, v)

Set(setting, world, v) ==
  CASE setting = "DedupMode"    -> setDedupMode(world, v)
    [] setting = "LogLevel"     -> setLogLevel(world, v)
    [] setting = "ServerPort"   -> setServerPort(world, v)
    [] setting = "ServerHost"   -> setServerHost(world, v)
    [] setting = "AuthSecret"   -> setAuthSecret(world, v)
    [] setting = "ScanInterval" -> setScanIntervalSeconds(world, v)
    [] setting = "ProcessingInterval" -> setProcessingIntervalSeconds(world, v)
    [] setting = "MaxProcessingThreads" -> setMaxProcessingThreads(world, v)
    [] setting = "MaxScanThreads"     -> setMaxScanThreads(world, v)
    [] setting = "DatabaseThreads"    -> setDatabaseThreads(world, v)
    [] setting = "MaxDecoderThreads"  -> setMaxDecoderThreads(world, v)
    [] setting = "BatchSize"          -> setProcessingBatchSize(world, v)
    [] setting = "QualityStack"       -> setPreProcessQualityStack(world, v)
    [] setting = "MaxRetries"         -> setDatabaseMaxRetries(world, v)
    [] setting = "BackoffBase"        -> setDatabaseBackoffBaseMs(world, v)
    [] setting = "MaxBackoff"         -> setDatabaseMaxBackoffMs(world, v)
    [] setting = "BusyTimeout"        -> setDatabaseBusyTimeoutMs(world, v)
    [] setting = "OperationTimeout" -> setDatabaseOperationTimeoutMs(world, v)
    [] setting = "CacheSize"          -> setDecoderCacheSizeMB(world, v)
    [] setting = "FileType"           -> setFileTypeEnabled(world, v)
    [] setting = "TranscodingType"    -> setTranscodingFileType(world, v)
    [] setting = "VideoSkipDuration"  -> setVideoSkipDurationSeconds(world, v)
    [] setting = "VideoFramesPerSkip" -> setVideoFramesPerSkip(world, v)
    [] setting = "VideoSkipCount"     -> setVideoSkipCount(world, v)

-----------------------------------------------------------------------------
(***************************************************************************)
(* The requests.  A body is a function from the settings it names to their *)
(* values, Bad standing for any value of the wrong type: reading throws.   *)
(* The answer is the world after the request and its status.               *)
(***************************************************************************)
Bad == -1

\* One setting of a section: nothing when an earlier one was refused or the
\* body does not name it.
FaultyUpdateOne(answer, setting, body) ==
  IF setting \notin DOMAIN body THEN answer
  ELSE IF body[setting] = Bad THEN [answer EXCEPT !.status = 400]
  ELSE [answer EXCEPT !.world = Set(setting, @, body[setting])]

UpdateOne(answer, setting, body) ==
  IF answer.status = 400 \/ setting \notin DOMAIN body THEN answer
  ELSE IF body[setting] = Bad THEN [answer EXCEPT !.status = 400]
  ELSE [answer EXCEPT !.world = Set(setting, @, body[setting])]

\* One setter after the other, in the order of the code, until one throws.
Apply(world, order, body) ==
  LET answer[i \in 0..Len(order)] ==
        IF i = 0 THEN [world |-> world, status |-> 200]
                 ELSE UpdateOne(answer[i - 1], order[i], body)
  IN  answer[Len(order)]

updateServerConfig(world, body) ==
  Apply(world, <<"ServerHost", "ServerPort", "AuthSecret">>, body)
updateThreadingConfig(world, body) ==
  Apply(world, <<"MaxProcessingThreads", "MaxScanThreads",
                 "DatabaseThreads">>, body)
updateDatabaseConfig(world, body) ==
  Apply(world, <<"MaxRetries", "BackoffBase", "MaxBackoff", "BusyTimeout",
                 "OperationTimeout">>, body)
updateFileTypesConfig(world, body) ==
  Apply(world, <<"FileType", "TranscodingType">>, body)
updateVideoConfig(world, body) ==
  Apply(world, <<"DedupMode", "VideoSkipDuration", "VideoFramesPerSkip",
                 "VideoSkipCount">>, body)
updateScanningConfig(world, body) ==
  Apply(world, <<"ScanInterval", "MaxScanThreads">>, body)
updateLoggingConfig(world, body) == Apply(world, <<"LogLevel">>, body)

\* updateConfig, updateProcessingConfig, updateCacheConfig: any patch is
\* written as it is and saved to config.json, whatever file was loaded; the
\* event names no path.
Collective(world, patch) ==
  Publish(Save([world EXCEPT !.cfg = Written(@, patch)], "config.json"),
          {"configuration"})

handleUpdateConfig(world, patch) ==
  [world |-> Collective(world, patch), status |-> 200]

\* /config/reload publishes nothing, and leaves the own file what it was.
handleReloadConfig(world, path) ==
  [world |-> [world EXCEPT !.cfg = world.files[path]], status |-> 200]
handleSaveConfig(world, path) ==
  [world |-> Save(world, path), status |-> 200]

\* What the GET requests of the sections show.
getServerConfig(cfg) ==
  [ServerHost |-> getServerHost(cfg), ServerPort |-> getServerPort(cfg),
   AuthSecret |-> getAuthSecret(cfg)]
getThreadingConfig(cfg) ==
  [MaxProcessingThreads |-> getMaxProcessingThreads(cfg),
   MaxScanThreads |-> getMaxScanThreads(cfg),
   DatabaseThreads |-> getDatabaseThreads(cfg)]
getDatabaseConfig(cfg) ==
  [MaxRetries |-> getDatabaseMaxRetries(cfg),
   BackoffBase |-> getDatabaseBackoffBaseMs(cfg),
   MaxBackoff |-> getDatabaseMaxBackoffMs(cfg),
   BusyTimeout |-> getDatabaseBusyTimeoutMs(cfg),
   OperationTimeout |-> getDatabaseOperationTimeoutMs(cfg)]
getFileTypesConfig(cfg) ==
  [FileType |-> getSupportedFileTypes(cfg),
   TranscodingType |-> getTranscodingFileTypes(cfg)]
getVideoConfig(cfg) ==
  [DedupMode |-> getDedupMode(cfg),
   VideoSkipDuration |-> getVideoSkipDurationSeconds(cfg),
   VideoFramesPerSkip |-> getVideoFramesPerSkip(cfg),
   VideoSkipCount |-> getVideoSkipCount(cfg)]
getScanningConfig(cfg) ==
  [ScanInterval |-> getScanIntervalSeconds(cfg),
   MaxScanThreads |-> getMaxScanThreads(cfg)]
getLoggingConfig(cfg) == [LogLevel |-> getLogLevel(cfg)]

Update(section, world, body) ==
  CASE section = "server"    -> updateServerConfig(world, body)
    [] section = "threading" -> updateThreadingConfig(world, body)
    [] section = "database"  -> updateDatabaseConfig(world, body)
    [] section = "filetypes" -> updateFileTypesConfig(world, body)
    [] section = "video"     -> updateVideoConfig(world, body)
    [] section = "scanning"  -> updateScanningConfig(world, body)
    [] section = "logging"   -> updateLoggingConfig(world, body)

Show(section, cfg) ==
  CASE section = "server"    -> getServerConfig(cfg)
    [] section = "threading" -> getThreadingConfig(cfg)
    [] section = "database"  -> getDatabaseConfig(cfg)
    [] section = "filetypes" -> getFileTypesConfig(cfg)
    [] section = "video"     -> getVideoConfig(cfg)
    [] section = "scanning"  -> getScanningConfig(cfg)
    [] section = "logging"   -> getLoggingConfig(cfg)

\* At the start every component has read the configuration.
Started(cfg, files, own) ==
  [cfg |-> cfg, files |-> files, own |-> own,
   copies |-> [component \in DOMAIN Hears |->
                 [setting \in Keeps(component) |-> Getters(cfg)[setting]]]]
=============================================================================
