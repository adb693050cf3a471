------------------------ MODULE MCAlgorithms_proofs ------------------------
(***************************************************************************)
(* Theorems about the settings and the fingerprints: first what the        *)
(* operators of ConfigSettings and MediaHashing do for every input, then   *)
(* the invariants of MCAlgorithms for every value of its bounds.           *)
(***************************************************************************)
EXTENDS MCAlgorithms, Loops

-----------------------------------------------------------------------------
(***************************************************************************)
(* The settings: which paths a setter writes and which path a getter reads.*)
(***************************************************************************)
WritesTo ==
  [DedupMode |-> {"dedup_mode"}, LogLevel |-> {"log_level"},
   ServerPort |-> {"server_port"}, ServerHost |-> {"server_host"},
   AuthSecret |-> {"auth_secret"},
   ScanInterval |-> {"scan_interval_seconds"},
   ProcessingInterval |-> {"processing_interval_seconds"},
   MaxProcessingThreads |-> {"max_processing_threads"},
   MaxScanThreads |-> {"max_scan_threads"},
   DatabaseThreads |-> {"database_threads"},
   MaxDecoderThreads |-> {"max_decoder_threads",
                          "threading.max_decoder_threads"},
   BatchSize |-> {"processing_batch_size"},
   QualityStack |-> {"pre_process_quality_stack"},
   MaxRetries |-> {"database_max_retries"},
   BackoffBase |-> {"database_backoff_base_ms"},
   MaxBackoff |-> {"database_max_backoff_ms"},
   BusyTimeout |-> {"database_busy_timeout_ms"},
   OperationTimeout |-> {"database_operation_timeout_ms"},
   CacheSize |-> {"decoder_cache_size_mb"},
   FileType |-> {"categories.video.mp4"},
   TranscodingType |-> {"transcoding.mp4"},
   VideoSkipDuration |-> {"video.skip_duration_seconds"},
   VideoFramesPerSkip |-> {"video.frames_per_skip"},
   VideoSkipCount |-> {"video.skip_count"}]

ReadsFrom ==
  [DedupMode |-> "dedup_mode", LogLevel |-> "log_level",
   ServerPort |-> "server_port", ServerHost |-> "server_host",
   AuthSecret |-> "auth_secret",
   ScanInterval |-> "scan_interval_seconds",
   ProcessingInterval |-> "processing_interval_seconds",
   MaxProcessingThreads |-> "threading.max_processing_threads",
   MaxScanThreads |-> "threading.max_scan_threads",
   DatabaseThreads |-> "threading.database_threads",
   MaxDecoderThreads |-> "threading.max_decoder_threads",
   BatchSize |-> "processing.batch_size",
   QualityStack |-> "pre_process_quality_stack",
   MaxRetries |-> "database.retry.max_attempts",
   BackoffBase |-> "database.retry.backoff_base_ms",
   MaxBackoff |-> "database.retry.max_backoff_ms",
   BusyTimeout |-> "database.timeout.busy_timeout_ms",
   OperationTimeout |-> "database.timeout.operation_timeout_ms",
   CacheSize |-> "cache.decoder_cache_size_mb",
   FileType |-> "categories.video.mp4",
   TranscodingType |-> "categories.video.mp4",
   VideoSkipDuration |-> "video_processing.FAST.skip_duration_seconds",
   VideoFramesPerSkip |-> "video_processing.FAST.frames_per_skip",
   VideoSkipCount |-> "video_processing.FAST.skip_count"]

SettingNames ==
  {"DedupMode", "LogLevel", "ServerPort", "ServerHost", "AuthSecret",
   "ScanInterval", "ProcessingInterval", "MaxProcessingThreads",
   "MaxScanThreads", "DatabaseThreads", "MaxDecoderThreads", "BatchSize",
   "QualityStack", "MaxRetries", "BackoffBase", "MaxBackoff", "BusyTimeout",
   "OperationTimeout", "CacheSize", "FileType", "TranscodingType",
   "VideoSkipDuration", "VideoFramesPerSkip", "VideoSkipCount"}

LEMMA SettingsAreNames == Settings = SettingNames
BY DEF Settings, Getters, SettingNames

LEMMA TableDomains ==
  /\ DOMAIN WritesTo = Settings
  /\ DOMAIN ReadsFrom = Settings
BY SettingsAreNames DEF WritesTo, ReadsFrom, SettingNames

\* A getter returns what its path holds.
LEMMA GetterReads ==
  ASSUME NEW cfg, NEW s \in Settings
  PROVE  Getters(cfg)[s] = cfg[ReadsFrom[s]]
BY SettingsAreNames
   DEF SettingNames, ReadsFrom, Getters, getDedupMode, getLogLevel,
       getServerPort, getServerHost, getAuthSecret, getScanIntervalSeconds,
       getProcessingIntervalSeconds, getMaxProcessingThreads,
       getMaxScanThreads, getDatabaseThreads, getMaxDecoderThreads,
       getProcessingBatchSize, getPreProcessQualityStack,
       getDatabaseMaxRetries, getDatabaseBackoffBaseMs,
       getDatabaseMaxBackoffMs, getDatabaseBusyTimeoutMs,
       getDatabaseOperationTimeoutMs, getDecoderCacheSizeMB,
       getSupportedFileTypes, getTranscodingFileTypes,
       getVideoSkipDurationSeconds, getVideoFramesPerSkip, getVideoSkipCount

\* A setter writes its paths.
LEMMA SetterWrites ==
  ASSUME NEW s \in Settings, NEW w, NEW v
  PROVE  Set(s, w, v) = Setter(w, WritesTo[s], v)
<1>1. CASE s = "DedupMode"
  BY <1>1 DEF Set, WritesTo, setDedupMode
<1>2. CASE s = "LogLevel"
  BY <1>2 DEF Set, WritesTo, setLogLevel
<1>3. CASE s = "ServerPort"
  BY <1>3 DEF Set, WritesTo, setServerPort
<1>4. CASE s = "ServerHost"
  BY <1>4 DEF Set, WritesTo, setServerHost
<1>5. CASE s = "AuthSecret"
  BY <1>5 DEF Set, WritesTo, setAuthSecret
<1>6. CASE s = "ScanInterval"
  BY <1>6 DEF Set, WritesTo, setScanIntervalSeconds
<1>7. CASE s = "ProcessingInterval"
  BY <1>7 DEF Set, WritesTo, setProcessingIntervalSeconds
<1>8. CASE s = "MaxProcessingThreads"
  BY <1>8 DEF Set, WritesTo, setMaxProcessingThreads
<1>9. CASE s = "MaxScanThreads"
  BY <1>9 DEF Set, WritesTo, setMaxScanThreads
<1>10. CASE s = "DatabaseThreads"
  BY <1>10 DEF Set, WritesTo, setDatabaseThreads
<1>11. CASE s = "MaxDecoderThreads"
  BY <1>11 DEF Set, WritesTo, setMaxDecoderThreads
<1>12. CASE s = "BatchSize"
  BY <1>12 DEF Set, WritesTo, setProcessingBatchSize
<1>13. CASE s = "QualityStack"
  BY <1>13 DEF Set, WritesTo, setPreProcessQualityStack
<1>14. CASE s = "MaxRetries"
  BY <1>14 DEF Set, WritesTo, setDatabaseMaxRetries
<1>15. CASE s = "BackoffBase"
  BY <1>15 DEF Set, WritesTo, setDatabaseBackoffBaseMs
<1>16. CASE s = "MaxBackoff"
  BY <1>16 DEF Set, WritesTo, setDatabaseMaxBackoffMs
<1>17. CASE s = "BusyTimeout"
  BY <1>17 DEF Set, WritesTo, setDatabaseBusyTimeoutMs
<1>18. CASE s = "OperationTimeout"
  BY <1>18 DEF Set, WritesTo, setDatabaseOperationTimeoutMs
<1>19. CASE s = "CacheSize"
  BY <1>19 DEF Set, WritesTo, setDecoderCacheSizeMB
<1>20. CASE s = "FileType"
  BY <1>20 DEF Set, WritesTo, setFileTypeEnabled
<1>21. CASE s = "TranscodingType"
  BY <1>21 DEF Set, WritesTo, setTranscodingFileType
<1>22. CASE s = "VideoSkipDuration"
  BY <1>22 DEF Set, WritesTo, setVideoSkipDurationSeconds
<1>23. CASE s = "VideoFramesPerSkip"
  BY <1>23 DEF Set, WritesTo, setVideoFramesPerSkip
<1>24. CASE s = "VideoSkipCount"
  BY <1>24 DEF Set, WritesTo, setVideoSkipCount
<1> QED
  BY <1>1, <1>2, <1>3, <1>4, <1>5, <1>6, <1>7, <1>8, <1>9, <1>10, <1>11,
     <1>12, <1>13, <1>14, <1>15, <1>16, <1>17, <1>18, <1>19, <1>20, <1>21,
     <1>22, <1>23, <1>24, SettingsAreNames
     DEF SettingNames

\* The components that keep settings and what they keep.
ComponentNames ==
  {"scheduler", "linker", "processing", "transcoding", "http", "logger",
   "pool", "database"}

LEMMA ComponentsAreNames == DOMAIN Hears = ComponentNames
BY DEF Hears, ComponentNames

\* What a component reads again is the setting whose setter spoke.
LEMMA HearsItsOwn ==
  ASSUME NEW c \in DOMAIN Hears, NEW s \in Settings,
         NEW key \in WritesTo[s] \cap DOMAIN Hears[c]
  PROVE  Hears[c][key] = s
BY SettingsAreNames, ComponentsAreNames
   DEF SettingNames, ComponentNames, WritesTo, Hears, SchedulerHears,
       LinkerHears, ContinuousProcessingHears, TranscodingHears,
       HttpServerHears, LoggerObserverHears, ThreadingObserverHears,
       DatabaseManagerHears

\* A component is told by the setter of a setting it keeps.
LEMMA IsTold ==
  ASSUME NEW c \in DOMAIN Hears, NEW k \in Keeps(c) \ ReadOnce(c)
  PROVE  \E key \in WritesTo[k] \cap DOMAIN Hears[c] : Hears[c][key] = k
BY ComponentsAreNames
   DEF ComponentNames, Keeps, ReadOnce, WritesTo, Hears, SchedulerHears,
       LinkerHears, ContinuousProcessingHears, TranscodingHears,
       HttpServerHears, LoggerObserverHears, ThreadingObserverHears,
       DatabaseManagerHears

\* What the components keep are settings, ...
LEMMA KeepsSettings ==
  ASSUME NEW c \in DOMAIN Hears
  PROVE  Keeps(c) \subseteq Settings
BY ComponentsAreNames, SettingsAreNames
   DEF ComponentNames, SettingNames, Keeps, ReadOnce, Hears, SchedulerHears,
       LinkerHears, ContinuousProcessingHears, TranscodingHears,
       HttpServerHears, LoggerObserverHears, ThreadingObserverHears,
       DatabaseManagerHears

\* ... whose values no setter changes but their own.
LEMMA OnlyItsSetter ==
  ASSUME NEW c \in DOMAIN Hears, NEW k \in Keeps(c) \ ReadOnce(c),
         NEW s \in Settings, ReadsFrom[k] \in WritesTo[s]
  PROVE  s = k
<1> DEFINE Kept == {"ScanInterval", "ProcessingInterval", "BatchSize",
                    "QualityStack", "DedupMode", "CacheSize", "ServerPort",
                    "ServerHost", "LogLevel", "DatabaseThreads", "BusyTimeout"}
<1>1. k \in Kept
  BY ComponentsAreNames
     DEF ComponentNames, Keeps, ReadOnce, Hears, SchedulerHears,
         LinkerHears, ContinuousProcessingHears, TranscodingHears,
         HttpServerHears, LoggerObserverHears, ThreadingObserverHears,
         DatabaseManagerHears
<1> QED
  BY <1>1, SettingsAreNames DEF SettingNames, WritesTo, ReadsFrom

LEMMA PathsOfSettings ==
  ASSUME NEW s \in Settings
  PROVE  WritesTo[s] \subseteq Paths /\ ReadsFrom[s] \in Paths
BY SettingsAreNames DEF SettingNames, WritesTo, ReadsFrom, Paths, Names

-----------------------------------------------------------------------------
(***************************************************************************)
(* The worlds that requests lead to, and what a setter makes of one.       *)
(***************************************************************************)
Files == ConfigFiles
Cfgs == [Paths -> Int]
Copies == {c \in [DOMAIN Hears -> UNION {[Keeps(d) -> Int] : d \in DOMAIN Hears}] :
             \A d \in DOMAIN Hears : c[d] \in [Keeps(d) -> Int]}
Worlds == [cfg : Cfgs, files : [Files -> Cfgs], own : Files, copies : Copies]

\* The settings that component c reads again at an event with these keys.
Named(c, keys) == {Hears[c][key] : key \in keys \cap DOMAIN Hears[c]}

LEMMA NamedIsOwn ==
  ASSUME NEW c \in DOMAIN Hears, NEW s \in Settings
  PROVE  /\ Named(c, WritesTo[s]) \subseteq {s}
         /\ s \in Keeps(c) \ ReadOnce(c) => Named(c, WritesTo[s]) = {s}
<1>1. Named(c, WritesTo[s]) \subseteq {s}
  BY HearsItsOwn DEF Named
<1>2. s \in Keeps(c) \ ReadOnce(c) => s \in Named(c, WritesTo[s])
  BY IsTold DEF Named
<1> QED BY <1>1, <1>2

LEMMA CopiesAre ==
  ASSUME NEW f, DOMAIN f = DOMAIN Hears,
         f = [d \in DOMAIN Hears |-> f[d]],
         \A d \in DOMAIN Hears : f[d] \in [Keeps(d) -> Int]
  PROVE  f \in Copies
<1>1. \A d \in DOMAIN Hears :
        f[d] \in UNION {[Keeps(e) -> Int] : e \in DOMAIN Hears}
  OBVIOUS
<1>2. f \in [DOMAIN Hears -> UNION {[Keeps(e) -> Int] : e \in DOMAIN Hears}]
  BY <1>1
<1> QED BY <1>2 DEF Copies

LEMMA GettersInt ==
  ASSUME NEW cfg \in Cfgs, NEW s \in Settings
  PROVE  Getters(cfg)[s] \in Int
BY GetterReads, PathsOfSettings DEF Cfgs

\* publishEvent reads the named settings again and nothing else.
LEMMA PublishReads ==
  ASSUME NEW w \in Worlds, NEW keys
  PROVE  LET told == Publish(w, keys) IN
         /\ told \in Worlds
         /\ told.cfg = w.cfg
         /\ told.files = w.files /\ told.own = w.own
         /\ \A c \in DOMAIN Hears : \A k \in Keeps(c) :
              told.copies[c][k] = IF k \in Named(c, keys)
                                  THEN Getters(w.cfg)[k] ELSE w.copies[c][k]
<1> DEFINE copies == [c \in DOMAIN Hears |->
                        [k \in Keeps(c) |-> IF k \in Named(c, keys)
                                            THEN Getters(w.cfg)[k]
                                            ELSE w.copies[c][k]]]
<1>1. w = [cfg |-> w.cfg, files |-> w.files, own |-> w.own, copies |-> w.copies]
      /\ w.own \in Files
      /\ w.cfg \in Cfgs /\ w.files \in [Files -> Cfgs] /\ w.copies \in Copies
  BY DEF Worlds
<1>2. DOMAIN w.copies = DOMAIN Hears
      /\ \A c \in DOMAIN Hears : w.copies[c] \in [Keeps(c) -> Int]
  BY <1>1 DEF Copies
<1>3. \A c \in DOMAIN Hears : DOMAIN w.copies[c] = Keeps(c)
  BY <1>2
<1>4. Publish(w, keys) = [cfg |-> w.cfg, files |-> w.files, own |-> w.own, copies |-> copies]
  <2>1. Publish(w, keys) =
          [w EXCEPT !.copies =
             [c \in DOMAIN w.copies |->
               [k \in DOMAIN w.copies[c] |-> IF k \in Named(c, keys)
                                             THEN Getters(w.cfg)[k]
                                             ELSE w.copies[c][k]]]]
    BY DEF Publish, Named
  <2>2. [c \in DOMAIN w.copies |->
          [k \in DOMAIN w.copies[c] |-> IF k \in Named(c, keys)
                                        THEN Getters(w.cfg)[k]
                                        ELSE w.copies[c][k]]] = copies
    BY <1>2, <1>3, Zenon
  <2> HIDE DEF copies
  <2> QED BY <1>1, <2>1, <2>2
<1>5. \A c \in DOMAIN Hears : copies[c] \in [Keeps(c) -> Int]
  <2> SUFFICES ASSUME NEW c \in DOMAIN Hears
               PROVE  copies[c] \in [Keeps(c) -> Int]
    OBVIOUS
  <2>1. \A k \in Keeps(c) : Getters(w.cfg)[k] \in Int /\ w.copies[c][k] \in Int
    BY <1>1, <1>2, KeepsSettings, GettersInt
  <2> QED BY <2>1
<1>6. copies \in Copies
  <2>1. DOMAIN copies = DOMAIN Hears /\ copies = [d \in DOMAIN Hears |-> copies[d]]
    OBVIOUS
  <2> HIDE DEF copies
  <2> QED BY <1>5, <2>1, CopiesAre
<1>7. \A c \in DOMAIN Hears : \A k \in Keeps(c) :
        copies[c][k] = IF k \in Named(c, keys)
                       THEN Getters(w.cfg)[k] ELSE w.copies[c][k]
  OBVIOUS
<1> HIDE DEF copies
<1> QED BY <1>1, <1>4, <1>6, <1>7 DEF Worlds

\* A setter: its paths hold the value, the file holds the store, and the
\* components that are told hold what the getters now return.
LEMMA SetterDoes ==
  ASSUME NEW w \in Worlds, NEW paths, NEW v \in Int
  PROVE  LET set == Setter(w, paths, v) IN
         /\ set \in Worlds
         /\ set.cfg = [p \in Paths |-> IF p \in paths THEN v ELSE w.cfg[p]]
         /\ set.files[set.own] = set.cfg
         /\ \A c \in DOMAIN Hears : \A k \in Keeps(c) :
              set.copies[c][k] = IF k \in Named(c, paths)
                                 THEN Getters(set.cfg)[k] ELSE w.copies[c][k]
<1> DEFINE cfg == [p \in Paths |-> IF p \in paths THEN v ELSE w.cfg[p]]
           files == [w.files EXCEPT ![w.own] = cfg]
           saved == [cfg |-> cfg, files |-> files, own |-> w.own, copies |-> w.copies]
<1>1. w = [cfg |-> w.cfg, files |-> w.files, own |-> w.own, copies |-> w.copies]
      /\ w.own \in Files
      /\ w.cfg \in Cfgs /\ w.files \in [Files -> Cfgs] /\ w.copies \in Copies
  BY DEF Worlds
<1>2. cfg \in Cfgs
  BY <1>1 DEF Cfgs
<1>3. Written(w.cfg, [p \in paths |-> v]) = cfg
  <2>1. DOMAIN w.cfg = Paths
    BY <1>1 DEF Cfgs
  <2> QED BY <2>1 DEF Written
<1>4. Persist([w EXCEPT !.cfg = Written(@, [p \in paths |-> v])]) = saved
  <2>1. [w EXCEPT !.cfg = Written(@, [p \in paths |-> v])]
          = [cfg |-> cfg, files |-> w.files, own |-> w.own, copies |-> w.copies]
    <3> HIDE DEF cfg
    <3> QED BY <1>1, <1>3
  <2>2. Persist([cfg |-> cfg, files |-> w.files, own |-> w.own, copies |-> w.copies]) = saved
    <3> HIDE DEF cfg
    <3> QED BY DEF Persist, Save
  <2> HIDE DEF cfg, saved
  <2> QED BY <2>1, <2>2
<1>5. files \in [Files -> Cfgs] /\ files[w.own] = cfg
  <2> HIDE DEF cfg
  <2> QED BY <1>1, <1>2 DEF Files
<1>6. saved \in Worlds
  <2> HIDE DEF cfg, files
  <2> QED BY <1>1, <1>2, <1>5 DEF Worlds
<1>7. Setter(w, paths, v) = Publish(saved, paths)
  <2> HIDE DEF saved
  <2> QED BY <1>4 DEF Setter
<1>8. saved.cfg = cfg /\ saved.files = files /\ saved.own = w.own /\ saved.copies = w.copies
  OBVIOUS
<1> HIDE DEF saved, files
<1>9. /\ Publish(saved, paths) \in Worlds
      /\ Publish(saved, paths).cfg = saved.cfg
      /\ Publish(saved, paths).files = saved.files
      /\ Publish(saved, paths).own = saved.own
      /\ \A c \in DOMAIN Hears : \A k \in Keeps(c) :
           Publish(saved, paths).copies[c][k] =
             IF k \in Named(c, paths)
             THEN Getters(saved.cfg)[k] ELSE saved.copies[c][k]
  BY <1>6, PublishReads
<1> QED BY <1>5, <1>7, <1>8, <1>9

LEMMA SetDoes ==
  ASSUME NEW w \in Worlds, NEW s \in Settings, NEW v \in Int
  PROVE  /\ Set(s, w, v) \in Worlds
         /\ Set(s, w, v).cfg =
              [p \in Paths |-> IF p \in WritesTo[s] THEN v ELSE w.cfg[p]]
         /\ Set(s, w, v).files[Set(s, w, v).own] = Set(s, w, v).cfg
         /\ \A c \in DOMAIN Hears : \A k \in Keeps(c) :
              Set(s, w, v).copies[c][k] =
                IF k \in Named(c, WritesTo[s])
                THEN Getters(Set(s, w, v).cfg)[k] ELSE w.copies[c][k]
BY SetterWrites, SetterDoes

LEMMA EffectiveSettings ==
  ASSUME NEW s \in Settings
  PROVE  s \in Effective <=> ReadsFrom[s] \in WritesTo[s]
BY SettingsAreNames DEF SettingNames, Effective, ReadsFrom, WritesTo

\* A setter changes what its getter returns exactly when its setting is in
\* Effective: the other setters write a path that no getter of theirs reads.
\* For every configuration the server may have and every value (the setters
\* of PocoConfigAdapter and the getters of PocoConfigManager).
THEOREM SettersTakeEffect ==
  ASSUME NEW w \in Worlds, NEW s \in Settings, NEW v \in Int
  PROVE  Getters(Set(s, w, v).cfg)[s] =
           IF s \in Effective THEN v ELSE Getters(w.cfg)[s]
<1>1. ReadsFrom[s] \in Paths
  BY PathsOfSettings
<1>2. Set(s, w, v).cfg[ReadsFrom[s]] =
        IF ReadsFrom[s] \in WritesTo[s] THEN v ELSE w.cfg[ReadsFrom[s]]
  <2>1. Set(s, w, v).cfg =
          [p \in Paths |-> IF p \in WritesTo[s] THEN v ELSE w.cfg[p]]
    BY SetDoes
  <2> QED BY <1>1, <2>1
<1> QED BY <1>2, GetterReads, EffectiveSettings

LEMMA AnnouncedSettings ==
  ASSUME NEW s \in Settings
  PROVE  s \in Announced <=> \E key \in WritesTo[s] : Heard(key)
<1> DEFINE Listened ==
      {"scan_interval_seconds", "processing_interval_seconds",
       "processing_batch_size", "pre_process_quality_stack", "dedup_mode",
       "decoder_cache_size_mb", "cache.decoder_cache_size_mb",
       "server_port", "server_host", "log_level", "database_threads",
       "database_busy_timeout_ms", "max_scan_threads",
       "max_processing_threads", "database.retry.max_attempts",
       "database.retry.backoff_base_ms", "database.retry.max_backoff_ms",
       "database.timeout.busy_timeout_ms",
       "database.timeout.operation_timeout_ms", "categories.audio",
       "categories.images", "categories.images_raw", "categories.video",
       "transcoding_file_types", "video_processing.QUALITY",
       "video_processing.BALANCED", "video_processing.FAST",
       "processing.batch_size"}
<1>1. ASSUME NEW key
      PROVE  (\E c \in DOMAIN Hears : key \in DOMAIN Hears[c])
               <=> key \in {"scan_interval_seconds",
                            "processing_interval_seconds",
                            "processing_batch_size",
                            "pre_process_quality_stack", "dedup_mode",
                            "decoder_cache_size_mb",
                            "cache.decoder_cache_size_mb", "server_port",
                            "server_host", "log_level", "database_threads",
                            "database_busy_timeout_ms"}
  BY ComponentsAreNames
     DEF ComponentNames, Hears, SchedulerHears, LinkerHears,
         ContinuousProcessingHears, TranscodingHears, HttpServerHears,
         LoggerObserverHears, ThreadingObserverHears, DatabaseManagerHears
<1>2. ASSUME NEW key
      PROVE  key \in UNION {ServerObserverLogs, ScanObserverLogs,
                    ThreadingObserverLogs, DatabaseObserverLogs,
                    FileTypeObserverLogs, VideoObserverLogs,
                    CacheObserverLogs, ProcessingObserverLogs,
                    DedupModeObserverLogs, OrchestratorLogs,
                    FileProcessorQueues}
               <=> \/ key \in ServerObserverLogs \/ key \in ScanObserverLogs
                   \/ key \in ThreadingObserverLogs
                   \/ key \in DatabaseObserverLogs
                   \/ key \in FileTypeObserverLogs
                   \/ key \in VideoObserverLogs \/ key \in CacheObserverLogs
                   \/ key \in ProcessingObserverLogs
                   \/ key \in DedupModeObserverLogs
                   \/ key \in OrchestratorLogs \/ key \in FileProcessorQueues
  OBVIOUS
<1>3. ASSUME NEW key
      PROVE  Heard(key) <=> key \in Listened
  BY <1>1, <1>2
     DEF Heard, ServerObserverLogs, ScanObserverLogs, ThreadingObserverLogs,
         DatabaseObserverLogs, FileTypeObserverLogs, VideoObserverLogs,
         CacheObserverLogs, ProcessingObserverLogs, DedupModeObserverLogs,
         OrchestratorLogs, FileProcessorQueues
<1>4. s \in Announced <=> \E key \in WritesTo[s] : key \in Listened
  BY SettingsAreNames DEF SettingNames, Announced, WritesTo
<1> HIDE DEF Listened
<1> QED BY <1>3, <1>4

LEMMA ShownSettings ==
  ASSUME NEW section \in DOMAIN Order, NEW s \in Range(Order[section]),
         NEW cfg
  PROVE  s \in Settings /\ Show(section, cfg)[s] = Getters(cfg)[s]
<1>1. section \in {"server", "threading", "database", "filetypes", "video",
                   "scanning", "logging"}
  BY DEF Order
<1>2. CASE section = "server"
  BY <1>2, SettingsAreNames
     DEF SettingNames, Order, Range, Show, Getters, getServerConfig
<1>3. CASE section = "threading"
  BY <1>3, SettingsAreNames
     DEF SettingNames, Order, Range, Show, Getters, getThreadingConfig
<1>4. CASE section = "database"
  BY <1>4, SettingsAreNames
     DEF SettingNames, Order, Range, Show, Getters, getDatabaseConfig
<1>5. CASE section = "filetypes"
  BY <1>5, SettingsAreNames
     DEF SettingNames, Order, Range, Show, Getters, getFileTypesConfig
<1>6. CASE section = "video"
  BY <1>6, SettingsAreNames
     DEF SettingNames, Order, Range, Show, Getters, getVideoConfig
<1>7. CASE section = "scanning"
  BY <1>7, SettingsAreNames
     DEF SettingNames, Order, Range, Show, Getters, getScanningConfig
<1>8. CASE section = "logging"
  BY <1>8, SettingsAreNames
     DEF SettingNames, Order, Range, Show, Getters, getLoggingConfig
<1> QED
  BY <1>1, <1>2, <1>3, <1>4, <1>5, <1>6, <1>7, <1>8

LEMMA WorldIsWorld ==
  /\ World \in Worlds
  /\ World.cfg = InitialCfg
  /\ \A p \in Paths : InitialCfg[p] = 0
  /\ \A c \in DOMAIN Hears : \A k \in Keeps(c) : World.copies[c][k] = 0
<1>1. InitialCfg \in Cfgs /\ \A p \in Paths : InitialCfg[p] = 0
  BY DEF InitialCfg, Cfgs
<1>2. ASSUME NEW c \in DOMAIN Hears, NEW k \in Keeps(c)
      PROVE  Getters(InitialCfg)[k] = 0
  <2>1. k \in Settings
    BY KeepsSettings
  <2> QED BY <1>1, <2>1, GetterReads, PathsOfSettings
<1> DEFINE copies == [c \in DOMAIN Hears |->
                        [k \in Keeps(c) |-> Getters(InitialCfg)[k]]]
           files == [f \in ConfigFiles |-> InitialCfg]
<1>3. World = [cfg |-> InitialCfg, files |-> files, own |-> "config/config.json",
               copies |-> copies]
  BY DEF World, Started
<1>4. copies \in Copies
  <2>1. \A c \in DOMAIN Hears : copies[c] \in [Keeps(c) -> Int]
    BY <1>2
  <2>2. DOMAIN copies = DOMAIN Hears /\ copies = [d \in DOMAIN Hears |-> copies[d]]
    OBVIOUS
  <2> HIDE DEF copies
  <2> QED BY <2>1, <2>2, CopiesAre
<1>5. files \in [Files -> Cfgs] /\ "config/config.json" \in Files
  BY <1>1 DEF Files, ConfigFiles
<1>6. \A c \in DOMAIN Hears : \A k \in Keeps(c) : copies[c][k] = 0
  BY <1>2
<1> HIDE DEF copies, files
<1> QED BY <1>1, <1>3, <1>4, <1>5, <1>6 DEF Worlds

-----------------------------------------------------------------------------
(***************************************************************************)
(* A request for a section.                                                *)
(***************************************************************************)
LEMMA OwnPaths ==
  ASSUME NEW s \in Settings, NEW t \in Settings,
         NEW p \in WritesTo[s], p \in WritesTo[t]
  PROVE  s = t
BY SettingsAreNames DEF SettingNames, WritesTo

LEMMA NeverReadAgain ==
  ASSUME NEW c \in DOMAIN Hears, NEW k \in ReadOnce(c), NEW keys
  PROVE  k \notin Named(c, keys)
BY ComponentsAreNames
   DEF ComponentNames, ReadOnce, Named, Hears, TranscodingHears

\* A setting of the wrong type is among the first n of the order, and the
\* settings that were applied after n rounds.
WrongBy(order, body, n) ==
  \E j \in 1..n : order[j] \in DOMAIN body /\ body[order[j]] = Bad

AppliedBy(order, body, n) ==
  {order[i] : i \in {i \in 1..n : /\ order[i] \in DOMAIN body
                                  /\ ~WrongBy(order, body, i)}}

LEMMA AppliedStep ==
  ASSUME NEW order, NEW body, NEW n \in Nat \ {0}
  PROVE  /\ WrongBy(order, body, n) <=>
              \/ WrongBy(order, body, n - 1)
              \/ order[n] \in DOMAIN body /\ body[order[n]] = Bad
         /\ AppliedBy(order, body, n) =
              IF order[n] \in DOMAIN body /\ ~WrongBy(order, body, n)
              THEN AppliedBy(order, body, n - 1) \cup {order[n]}
              ELSE AppliedBy(order, body, n - 1)
<1>1. \A j : j \in 1..n <=> j \in 1..(n - 1) \/ j = n
  OBVIOUS
<1>2. WrongBy(order, body, n) <=>
        \/ WrongBy(order, body, n - 1)
        \/ order[n] \in DOMAIN body /\ body[order[n]] = Bad
  BY <1>1 DEF WrongBy
<1>3. ASSUME NEW x
      PROVE  x \in AppliedBy(order, body, n) <=>
               \/ x \in AppliedBy(order, body, n - 1)
               \/ /\ x = order[n] /\ order[n] \in DOMAIN body
                  /\ ~WrongBy(order, body, n)
  BY <1>1 DEF AppliedBy
<1> QED BY <1>2, <1>3

\* The answer after n settings, as it must be.
Answers == [world : Worlds, status : {200, 400}]

AnswerIs(a, w, applied, status, body) ==
  /\ a \in Answers
  /\ a.status = status
  /\ \A s \in applied : \A p \in WritesTo[s] : a.world.cfg[p] = body[s]
  /\ \A p \in Paths :
       (\A s \in applied : p \notin WritesTo[s]) => a.world.cfg[p] = w.cfg[p]
  /\ applied # {} => a.world.files[a.world.own] = a.world.cfg
  /\ \A c \in DOMAIN Hears : \A k \in Keeps(c) :
       a.world.copies[c][k] = IF k \in applied \ ReadOnce(c)
                              THEN Getters(a.world.cfg)[k] ELSE w.copies[c][k]

LEMMA AppliedOnce ==
  ASSUME NEW w \in Worlds, NEW a, NEW applied \in SUBSET Settings,
         NEW body, NEW s \in Settings \cap DOMAIN body, body[s] \in Int,
         AnswerIs(a, w, applied, 200, body)
  PROVE  AnswerIs([a EXCEPT !.world = Set(s, @, body[s])],
                  w, applied \cup {s}, 200, body)
<1> DEFINE old == a.world
           new == Set(s, old, body[s])
           b == [a EXCEPT !.world = Set(s, @, body[s])]
<1>1. old \in Worlds /\ a = [world |-> old, status |-> 200]
  BY DEF AnswerIs, Answers
<1>2. /\ new \in Worlds
      /\ new.cfg = [p \in Paths |-> IF p \in WritesTo[s] THEN body[s]
                                                         ELSE old.cfg[p]]
      /\ new.files[new.own] = new.cfg
      /\ \A c \in DOMAIN Hears : \A k \in Keeps(c) :
           new.copies[c][k] = IF k \in Named(c, WritesTo[s])
                              THEN Getters(new.cfg)[k] ELSE old.copies[c][k]
  BY <1>1, SetDoes
<1>3. b = [world |-> new, status |-> 200]
  <2>1. b = [a EXCEPT !.world = new]
    OBVIOUS
  <2> HIDE DEF new, old, b
  <2> QED BY <1>1, <2>1
<1> HIDE DEF new
<1>4. b \in Answers
  BY <1>2, <1>3 DEF Answers
<1>5. ASSUME NEW t \in applied \cup {s}, NEW p \in WritesTo[t]
      PROVE  new.cfg[p] = body[t]
  <2>1. p \in Paths
    BY PathsOfSettings
  <2>2. CASE p \in WritesTo[s]
    BY <1>2, <2>1, <2>2, OwnPaths
  <2>3. CASE p \notin WritesTo[s]
    <3>1. t \in applied
      BY <1>5, <2>3
    <3>2. old.cfg[p] = body[t]
      BY <3>1, <1>5 DEF AnswerIs
    <3> QED BY <1>2, <2>1, <2>3, <3>2
  <2> QED BY <2>2, <2>3
<1>6. ASSUME NEW p \in Paths, \A t \in applied \cup {s} : p \notin WritesTo[t]
      PROVE  new.cfg[p] = w.cfg[p]
  <2>1. old.cfg[p] = w.cfg[p]
    BY <1>6 DEF AnswerIs
  <2>2. p \notin WritesTo[s]
    BY <1>6
  <2> QED BY <1>2, <2>1, <2>2
<1>7. ASSUME NEW c \in DOMAIN Hears, NEW k \in Keeps(c)
      PROVE  new.copies[c][k] = IF k \in (applied \cup {s}) \ ReadOnce(c)
                                THEN Getters(new.cfg)[k] ELSE w.copies[c][k]
  <2>1. CASE k \in ReadOnce(c)
    <3>1. k \notin Named(c, WritesTo[s])
      BY <2>1, NeverReadAgain
    <3>2. old.copies[c][k] = w.copies[c][k]
      BY <2>1 DEF AnswerIs
    <3>3. new.copies[c][k] = old.copies[c][k]
      BY <1>2, <3>1
    <3> QED BY <2>1, <3>2, <3>3
  <2>2. CASE k \notin ReadOnce(c) /\ k = s
    <3>1. k \in Named(c, WritesTo[s])
      BY <2>2, NamedIsOwn
    <3>2. new.copies[c][k] = Getters(new.cfg)[k]
      BY <1>2, <3>1
    <3> QED BY <2>2, <3>2
  <2>3. CASE k \notin ReadOnce(c) /\ k # s
    <3>1. k \notin Named(c, WritesTo[s])
      BY <2>3, NamedIsOwn
    <3>2. k \in Settings /\ ReadsFrom[k] \in Paths
      BY KeepsSettings, PathsOfSettings
    <3>3. ReadsFrom[k] \notin WritesTo[s]
      BY <2>3, OnlyItsSetter
    <3>4. new.cfg[ReadsFrom[k]] = old.cfg[ReadsFrom[k]]
      BY <1>2, <3>2, <3>3
    <3>5. Getters(new.cfg)[k] = Getters(old.cfg)[k]
      BY <3>2, <3>4, GetterReads
    <3>6. old.copies[c][k] = IF k \in applied \ ReadOnce(c)
                             THEN Getters(old.cfg)[k] ELSE w.copies[c][k]
      BY DEF AnswerIs
    <3>7. new.copies[c][k] = old.copies[c][k]
      BY <1>2, <3>1
    <3> QED BY <2>3, <3>5, <3>6, <3>7
  <2> QED BY <2>1, <2>2, <2>3
<1>8. b.world = new /\ b.status = 200
  BY <1>3
<1> HIDE DEF b
<1>9. AnswerIs(b, w, applied \cup {s}, 200, body)
  <2> DEFINE now == applied \cup {s}
  <2>1. \A t \in now : \A p \in WritesTo[t] : b.world.cfg[p] = body[t]
    BY <1>5, <1>8
  <2>2. \A p \in Paths :
          (\A t \in now : p \notin WritesTo[t]) => b.world.cfg[p] = w.cfg[p]
    BY <1>6, <1>8
  <2>3. b.world.files[b.world.own] = b.world.cfg
    BY <1>2, <1>8
  <2>4. \A c \in DOMAIN Hears : \A k \in Keeps(c) :
          b.world.copies[c][k] = IF k \in now \ ReadOnce(c)
                                 THEN Getters(b.world.cfg)[k]
                                 ELSE w.copies[c][k]
    BY <1>7, <1>8
  <2> HIDE DEF now
  <2>5. AnswerIs(b, w, now, 200, body)
    BY <1>4, <1>8, <2>1, <2>2, <2>3, <2>4 DEF AnswerIs
  <2> QED BY <2>5 DEF now
<1> QED BY <1>9 DEF b

LEMMA RefusedOnce ==
  ASSUME NEW w \in Worlds, NEW a, NEW applied, NEW body,
         AnswerIs(a, w, applied, 200, body)
  PROVE  AnswerIs([a EXCEPT !.status = 400], w, applied, 400, body)
<1> DEFINE b == [a EXCEPT !.status = 400]
<1>1. a.world \in Worlds /\ a = [world |-> a.world, status |-> 200]
  BY DEF AnswerIs, Answers
<1>2. b = [world |-> a.world, status |-> 400]
  BY <1>1
<1>3. b \in Answers /\ b.world = a.world /\ b.status = 400
  BY <1>1, <1>2 DEF Answers
<1> HIDE DEF b
<1>4. AnswerIs(b, w, applied, 400, body)
  BY <1>3 DEF AnswerIs
<1> QED BY <1>4 DEF b

\* An order of settings and a body of values of either type.
IsOrder(order, N) == \A i \in 1..N : order[i] \in Settings
IsBody(body) == \A s \in DOMAIN body : body[s] \in Int

LEMMA AppliedAreSettings ==
  ASSUME NEW N \in Nat, NEW order, IsOrder(order, N), NEW body, NEW n \in 0..N
  PROVE  AppliedBy(order, body, n) \subseteq Settings
BY DEF AppliedBy, IsOrder

LEMMA UpdateOneType ==
  ASSUME NEW a \in Answers, NEW s \in Settings, NEW body, IsBody(body)
  PROVE  UpdateOne(a, s, body) \in Answers
<1>1. a.world \in Worlds /\ a.status \in {200, 400}
      /\ a = [world |-> a.world, status |-> a.status]
  BY DEF Answers
<1>2. CASE a.status = 400 \/ s \notin DOMAIN body
  BY <1>2 DEF UpdateOne
<1>3. CASE s \in DOMAIN body /\ a.status # 400 /\ body[s] = Bad
  <2>1. UpdateOne(a, s, body) = [world |-> a.world, status |-> 400]
    BY <1>1, <1>3 DEF UpdateOne
  <2> QED BY <1>1, <2>1 DEF Answers
<1>4. CASE s \in DOMAIN body /\ a.status # 400 /\ body[s] # Bad
  <2> DEFINE new == Set(s, a.world, body[s])
  <2>1. body[s] \in Int
    BY <1>4 DEF IsBody
  <2>2. new \in Worlds
    <3>1. a.world \in Worlds
      BY <1>1
    <3> QED BY <2>1, <3>1, SetDoes
  <2>3. UpdateOne(a, s, body) = [a EXCEPT !.world = new]
    BY <1>4 DEF UpdateOne
  <2> HIDE DEF new
  <2>4. [a EXCEPT !.world = new] = [world |-> new, status |-> a.status]
    BY <1>1
  <2> QED BY <1>1, <2>2, <2>3, <2>4 DEF Answers
<1> QED BY <1>2, <1>3, <1>4

\* Apply, after N rounds.
ApplyRounds(w, N, order, body) ==
  LET answer[i \in 0..N] ==
        IF i = 0 THEN [world |-> w, status |-> 200]
                 ELSE UpdateOne(answer[i - 1], order[i], body)
  IN  answer[N]

LEMMA AnswersRun ==
  ASSUME NEW N \in Nat, NEW start \in Answers,
         NEW round \in [1..N -> [Answers -> Answers]]
  PROVE  \E g \in [0..N -> Answers] :
           g[0] = start /\ \A n \in 1..N : g[n] = round[n][g[n - 1]]
BY LoopExists

LEMMA PrefixOfRounds ==
  ASSUME NEW w \in Worlds, NEW N \in Nat, NEW order, IsOrder(order, N),
         NEW body, IsBody(body)
  PROVE  AnswerIs(ApplyRounds(w, N, order, body), w, AppliedBy(order, body, N),
                  IF WrongBy(order, body, N) THEN 400 ELSE 200, body)
<1> DEFINE start == [world |-> w, status |-> 200]
           answer[i \in 0..N] ==
             IF i = 0 THEN [world |-> w, status |-> 200]
                      ELSE UpdateOne(answer[i - 1], order[i], body)
           round == [i \in 1..N |->
                       [a \in Answers |-> UpdateOne(a, order[i], body)]]
<1>2. start \in Answers
  BY DEF Answers
<1>3. ASSUME NEW a \in Answers, NEW i \in 1..N
      PROVE  UpdateOne(a, order[i], body) \in Answers
  BY UpdateOneType DEF IsOrder
<1>4. round \in [1..N -> [Answers -> Answers]]
  BY <1>3
<1>5. \E g \in [0..N -> Answers] :
        g[0] = start /\ \A n \in 1..N : g[n] = round[n][g[n - 1]]
  <2> HIDE DEF round, start, answer
  <2> QED BY <1>2, <1>4, AnswersRun
<1>6. PICK g \in [0..N -> Answers] :
        g[0] = start /\ \A n \in 1..N : g[n] = round[n][g[n - 1]]
  BY <1>5
<1>7. ASSUME NEW n \in 1..N
      PROVE  g[n] = UpdateOne(g[n - 1], order[n], body)
  <2>1. g[n - 1] \in Answers
    OBVIOUS
  <2>2. round[n][g[n - 1]] = UpdateOne(g[n - 1], order[n], body)
    BY <2>1
  <2> HIDE DEF round
  <2> QED BY <1>6, <2>2
<1>8. g = [i \in 0..N |->
             IF i = 0 THEN [world |-> w, status |-> 200]
                      ELSE UpdateOne(g[i - 1], order[i], body)]
  <2> HIDE DEF round, answer
  <2> QED BY <1>6, <1>7
<1>9. answer = [i \in 0..N |->
                  IF i = 0 THEN [world |-> w, status |-> 200]
                           ELSE UpdateOne(answer[i - 1], order[i], body)]
  <2> HIDE DEF round
  <2> QED BY <1>8
<1>11. /\ answer[0] = start
       /\ \A n \in 1..N : answer[n] = UpdateOne(answer[n - 1], order[n], body)
  <2> HIDE DEF answer, round
  <2> QED BY <1>9
<1> HIDE DEF answer, round
<1> DEFINE Is(n) == AnswerIs(answer[n], w, AppliedBy(order, body, n),
                             IF WrongBy(order, body, n) THEN 400 ELSE 200, body)
           S == {n \in Nat : Is(n)}
<1>12. 0 \in S
  <2>1. AppliedBy(order, body, 0) = {} /\ ~WrongBy(order, body, 0)
    BY DEF AppliedBy, WrongBy
  <2>2. AnswerIs(start, w, {}, 200, body)
    BY <1>2 DEF AnswerIs
  <2> HIDE DEF start
  <2> QED BY <1>11, <2>1, <2>2
<1>13. ASSUME NEW n \in 1..N, n - 1 \in S
       PROVE  n \in S
  <2> DEFINE a == answer[n - 1]
             s == order[n]
             before == AppliedBy(order, body, n - 1)
  <2>1. AnswerIs(a, w, before,
                IF WrongBy(order, body, n - 1) THEN 400 ELSE 200, body)
    BY <1>13
  <2>2. answer[n] = UpdateOne(a, s, body)
    BY <1>11
  <2>3. before \subseteq Settings /\ s \in Settings
    <3>1. n - 1 \in 0..N
      OBVIOUS
    <3> QED BY <3>1, AppliedAreSettings DEF IsOrder
  <2>4. /\ WrongBy(order, body, n) <=> \/ WrongBy(order, body, n - 1)
                                       \/ s \in DOMAIN body /\ body[s] = Bad
        /\ AppliedBy(order, body, n) =
             IF s \in DOMAIN body /\ ~WrongBy(order, body, n)
             THEN before \cup {s} ELSE before
    BY AppliedStep
  <2> HIDE DEF a, s, before
  <2>5. Is(n)
    <3>1. CASE WrongBy(order, body, n - 1)
      <4>1. a.status = 400
        BY <2>1, <3>1 DEF AnswerIs
      <4>2. answer[n] = a
        BY <2>2, <4>1 DEF UpdateOne
      <4> QED BY <2>1, <2>4, <3>1, <4>2
    <3>2. CASE ~WrongBy(order, body, n - 1) /\ s \notin DOMAIN body
      <4>1. answer[n] = a
        BY <2>2, <3>2 DEF UpdateOne
      <4> QED BY <2>1, <2>4, <3>2, <4>1
    <3>3. CASE /\ ~WrongBy(order, body, n - 1)
               /\ s \in DOMAIN body /\ body[s] = Bad
      <4>1. a.status # 400
        BY <2>1, <3>3 DEF AnswerIs
      <4>2. answer[n] = [a EXCEPT !.status = 400]
        BY <2>2, <3>3, <4>1 DEF UpdateOne
      <4>3. AnswerIs([a EXCEPT !.status = 400], w, before, 400, body)
        BY <2>1, <3>3, RefusedOnce
      <4>4. WrongBy(order, body, n) /\ AppliedBy(order, body, n) = before
        BY <2>4, <3>3
      <4> QED BY <4>2, <4>3, <4>4
    <3>4. CASE /\ ~WrongBy(order, body, n - 1)
               /\ s \in DOMAIN body /\ body[s] # Bad
      <4>1. a.status # 400
        BY <2>1, <3>4 DEF AnswerIs
      <4>2. answer[n] = [a EXCEPT !.world = Set(s, @, body[s])]
        BY <2>2, <3>4, <4>1 DEF UpdateOne
      <4>3. AnswerIs([a EXCEPT !.world = Set(s, @, body[s])],
                     w, before \cup {s}, 200, body)
        <5>1. s \in Settings \cap DOMAIN body /\ body[s] \in Int
          BY <2>3, <3>4 DEF IsBody
        <5>2. AnswerIs(a, w, before, 200, body)
          BY <2>1, <3>4
        <5> QED BY <2>3, <5>1, <5>2, AppliedOnce
      <4>4. /\ ~WrongBy(order, body, n)
            /\ AppliedBy(order, body, n) = before \cup {s}
        BY <2>4, <3>4
      <4> QED BY <4>2, <4>3, <4>4
    <3> QED BY <3>1, <3>2, <3>3, <3>4
  <2> HIDE DEF Is
  <2> QED BY <2>5
<1>14. \A n \in 0..N : n \in S
  <2> HIDE DEF S
  <2> QED BY <1>12, <1>13, RoundInduction
<1>15. Is(N)
  BY <1>14
<1> QED BY <1>15 DEF answer, ApplyRounds

\* A request for a section applies, saves and announces the settings before
\* the first value of the wrong type, in the order of the code, and no
\* others; it is refused exactly when there is such a value.  For every
\* order, every body and every state of the configuration (the
\* update...Config functions of PocoConfigAdapter).
THEOREM PrefixApplied ==
  ASSUME NEW w \in Worlds, NEW order \in Seq(Settings), NEW body, IsBody(body)
  PROVE  AnswerIs(Apply(w, order, body), w,
                  AppliedBy(order, body, Len(order)),
                  IF WrongBy(order, body, Len(order)) THEN 400 ELSE 200, body)
<1>1. Len(order) \in Nat /\ IsOrder(order, Len(order))
  BY DEF IsOrder
<1>2. Apply(w, order, body) = ApplyRounds(w, Len(order), order, body)
  BY DEF Apply, ApplyRounds
<1> QED BY <1>1, <1>2, PrefixOfRounds

-----------------------------------------------------------------------------
(***************************************************************************)
(* The invariants of MCAlgorithms.  A behaviour picks its input in one     *)
(* step, so an invariant holds if it holds of each input of its kind.      *)
(***************************************************************************)
LEMMA KindsOfInput ==
  /\ PickSampling => input'.kind = "sampling"
  /\ PickPackets => input'.kind = "packets"
  /\ PickFingerprints => input'.kind = "fingerprints"
  /\ PickCoefficients => input'.kind = "coefficients"
  /\ PickSounds => input'.kind = "sounds"
  /\ PickFile => input'.kind = "file"
  /\ PickSection => input'.kind = "section"
  /\ PickSetter => input'.kind = "setter"
  /\ PickRequests => input'.kind = "requests"
<1>1. PickSampling => input'.kind = "sampling"
  BY DEF PickSampling
<1>2. PickPackets => input'.kind = "packets"
  BY DEF PickPackets
<1>3. PickFingerprints => input'.kind = "fingerprints"
  BY DEF PickFingerprints
<1>4. PickCoefficients => input'.kind = "coefficients"
  BY DEF PickCoefficients
<1>5. PickSounds => input'.kind = "sounds"
  BY DEF PickSounds
<1>6. PickFile => input'.kind = "file"
  BY DEF PickFile
<1>7. PickSection => input'.kind = "section"
  BY DEF PickSection
<1>8. PickSetter => input'.kind = "setter"
  BY DEF PickSetter
<1>9. PickRequests => input'.kind = "requests"
  BY DEF PickRequests
<1> QED
  BY <1>1, <1>2, <1>3, <1>4, <1>5, <1>6, <1>7, <1>8, <1>9

LEMMA PickedByKind ==
  ASSUME Next
  PROVE  /\ input'.kind = "sampling" => PickSampling
         /\ input'.kind = "packets" => PickPackets
         /\ input'.kind = "fingerprints" => PickFingerprints
         /\ input'.kind = "coefficients" => PickCoefficients
         /\ input'.kind = "sounds" => PickSounds
         /\ input'.kind = "file" => PickFile
         /\ input'.kind = "section" => PickSection
         /\ input'.kind = "setter" => PickSetter
         /\ input'.kind = "requests" => PickRequests
<1>1. \/ PickSampling \/ PickPackets \/ PickFingerprints \/ PickCoefficients
      \/ PickSounds \/ PickFile \/ PickSection \/ PickSetter \/ PickRequests
  BY DEF Next
<1> QED BY <1>1, KindsOfInput

LEMMA NotPicked ==
  ASSUME Init
  PROVE  input.kind = "none"
BY DEF Init, NoInput

\* Which setters change what their getter returns, are heard, and are shown.
LEMMA SetterReaches ==
  ASSUME NEW setting \in Settings
  PROVE  LET after == Set(setting, World, 1)
             written == {path \in Paths : after.cfg[path] # InitialCfg[path]}
         IN  /\ (Getters(after.cfg)[setting] = 1) <=> setting \in Effective
             /\ (\E key \in written : Heard(key)) <=> setting \in Announced
             /\ \A section \in DOMAIN Order :
                  setting \in Range(Order[section]) =>
                    ((Show(section, after.cfg)[setting] = 1)
                       <=> setting \in Effective)
<1> DEFINE after == Set(setting, World, 1)
           written == {path \in Paths : after.cfg[path] # InitialCfg[path]}
<1>1. Getters(World.cfg)[setting] = 0
  BY WorldIsWorld, GetterReads, PathsOfSettings
<1>2. Getters(after.cfg)[setting] =
        IF setting \in Effective THEN 1 ELSE Getters(World.cfg)[setting]
  BY WorldIsWorld, SettersTakeEffect
<1>3. (Getters(after.cfg)[setting] = 1) <=> setting \in Effective
  <2> HIDE DEF after
  <2> QED BY <1>1, <1>2
<1>4. after.cfg = [p \in Paths |-> IF p \in WritesTo[setting]
                                   THEN 1 ELSE World.cfg[p]]
  BY WorldIsWorld, SetDoes
<1>5. written = WritesTo[setting]
  <2> HIDE DEF after
  <2> QED BY <1>4, WorldIsWorld, PathsOfSettings
<1>6. ASSUME NEW section \in DOMAIN Order, setting \in Range(Order[section])
      PROVE  Show(section, after.cfg)[setting] = Getters(after.cfg)[setting]
  BY <1>6, ShownSettings
<1> HIDE DEF after, written
<1>7. (\E key \in written : Heard(key)) <=> setting \in Announced
  BY <1>5, AnnouncedSettings
<1> QED BY <1>3, <1>6, <1>7 DEF after, written

\* SettersReach: which setters change what their getter returns, tell an
\* observer, and are shown by a GET of their section (the setters and
\* getters of the configuration).
THEOREM SettersReachAlways == Spec => []SettersReach
<1>1. Init => SettersReach
  BY NotPicked DEF SettersReach
<1>2. SettersReach /\ [Next]_input => SettersReach'
  <2>1. ASSUME Next, input'.kind = "setter"
        PROVE  SettersReach'
    <3>1. PICK s \in Settings : input' = [kind |-> "setter", setting |-> s]
      BY <2>1, PickedByKind DEF PickSetter
    <3>2. input'.setting = s
      BY <3>1
    <3> QED BY <3>2, SetterReaches DEF SettersReach
  <2>2. ASSUME input'.kind # "setter"
        PROVE  SettersReach'
    BY <2>2 DEF SettersReach
  <2>3. ASSUME SettersReach, UNCHANGED input
        PROVE  SettersReach'
    BY <2>3 DEF SettersReach
  <2> QED BY <2>1, <2>2, <2>3
<1> QED BY <1>1, <1>2, PTL DEF Spec

\* What one setter, alone, makes of the first world.
LEMMA AloneDoes ==
  ASSUME NEW s \in Settings
  PROVE  /\ \A p \in Paths : (Set(s, World, 1).cfg[p] = 1) <=> p \in WritesTo[s]
         /\ \A c \in DOMAIN Hears : \A k \in Keeps(c) :
              (Set(s, World, 1).copies[c][k] = 1)
                <=> k = s /\ k \notin ReadOnce(c) /\ ReadsFrom[k] \in WritesTo[k]
<1> DEFINE alone == Set(s, World, 1)
<1>1. /\ alone.cfg = [p \in Paths |-> IF p \in WritesTo[s]
                                      THEN 1 ELSE World.cfg[p]]
      /\ \A c \in DOMAIN Hears : \A k \in Keeps(c) :
           alone.copies[c][k] = IF k \in Named(c, WritesTo[s])
                                THEN Getters(alone.cfg)[k]
                                ELSE World.copies[c][k]
  BY WorldIsWorld, SetDoes
<1> HIDE DEF alone
<1>2. \A p \in Paths : (alone.cfg[p] = 1) <=> p \in WritesTo[s]
  BY <1>1, WorldIsWorld
<1>3. ASSUME NEW c \in DOMAIN Hears, NEW k \in Keeps(c)
      PROVE  (alone.copies[c][k] = 1)
               <=> k = s /\ k \notin ReadOnce(c) /\ ReadsFrom[k] \in WritesTo[k]
  <2>1. k \in Settings /\ ReadsFrom[k] \in Paths
    BY KeepsSettings, PathsOfSettings
  <2>2. (Getters(alone.cfg)[k] = 1) <=> ReadsFrom[k] \in WritesTo[s]
    BY <1>2, <2>1, GetterReads
  <2>3. World.copies[c][k] = 0
    BY WorldIsWorld
  <2>4. k \in Named(c, WritesTo[s]) => k = s
    BY NamedIsOwn
  <2>5. k \in ReadOnce(c) => k \notin Named(c, WritesTo[s])
    BY NeverReadAgain
  <2>6. k = s /\ k \notin ReadOnce(c) => k \in Named(c, WritesTo[s])
    BY NamedIsOwn
  <2> QED BY <1>1, <2>2, <2>3, <2>4, <2>5, <2>6
<1> QED BY <1>2, <1>3 DEF alone

\* The applied settings, set to 1, and what the answer's world shows of them.
SetToOne(applied, body) == \A s \in applied : body[s] = 1

ReachedBy(a, applied) ==
  /\ \A p \in Paths :
       (a.world.cfg[p] = 1)
         <=> \E s \in applied : Set(s, World, 1).cfg[p] = 1
  /\ \A c \in DOMAIN Hears : \A k \in Keeps(c) :
       (a.world.copies[c][k] = 1)
         <=> \E s \in applied : Set(s, World, 1).copies[c][k] = 1

LEMMA PrefixReached ==
  ASSUME NEW applied \in SUBSET Settings, NEW body, SetToOne(applied, body),
         NEW a, NEW status, AnswerIs(a, World, applied, status, body)
  PROVE  ReachedBy(a, applied)
<1>1. ASSUME NEW p \in Paths
      PROVE  (a.world.cfg[p] = 1) <=> \E s \in applied : p \in WritesTo[s]
  <2>1. ASSUME NEW s \in applied, p \in WritesTo[s]
        PROVE  a.world.cfg[p] = 1
    BY <2>1 DEF AnswerIs, SetToOne
  <2>2. ASSUME \A s \in applied : p \notin WritesTo[s]
        PROVE  a.world.cfg[p] = 0
    BY <2>2, WorldIsWorld DEF AnswerIs
  <2> QED BY <2>1, <2>2
<1>2. ASSUME NEW c \in DOMAIN Hears, NEW k \in Keeps(c)
      PROVE  (a.world.copies[c][k] = 1)
               <=> \E s \in applied :
                     k = s /\ k \notin ReadOnce(c)
                     /\ ReadsFrom[k] \in WritesTo[k]
  <2>1. k \in Settings /\ ReadsFrom[k] \in Paths
    BY KeepsSettings, PathsOfSettings
  <2>2. a.world.copies[c][k] = IF k \in applied \ ReadOnce(c)
                               THEN Getters(a.world.cfg)[k] ELSE 0
    BY WorldIsWorld DEF AnswerIs
  <2>3. (Getters(a.world.cfg)[k] = 1)
          <=> \E s \in applied : ReadsFrom[k] \in WritesTo[s]
    BY <1>1, <2>1, GetterReads
  <2>4. ASSUME NEW s \in applied, ReadsFrom[k] \in WritesTo[s],
               k \notin ReadOnce(c)
        PROVE  s = k
    BY <2>4, OnlyItsSetter
  <2> QED BY <2>2, <2>3, <2>4
<1>3. \A s \in applied : s \in Settings
  OBVIOUS
<1>4. ASSUME NEW p \in Paths
      PROVE  (a.world.cfg[p] = 1)
               <=> \E s \in applied : Set(s, World, 1).cfg[p] = 1
  BY <1>1, <1>3, AloneDoes
<1>5. ASSUME NEW c \in DOMAIN Hears, NEW k \in Keeps(c)
      PROVE  (a.world.copies[c][k] = 1)
               <=> \E s \in applied : Set(s, World, 1).copies[c][k] = 1
  BY <1>2, <1>3, AloneDoes
<1> QED BY <1>4, <1>5 DEF ReachedBy

LEMMA SectionOrders ==
  ASSUME NEW section \in DOMAIN Order, NEW w, NEW body
  PROVE  /\ Order[section] \in Seq(Settings)
         /\ Update(section, w, body) = Apply(w, Order[section], body)
<1>1. section \in {"server", "threading", "database", "filetypes", "video",
                   "scanning", "logging"}
  BY DEF Order
<1>2. CASE section = "server"
  BY <1>2, SettingsAreNames DEF SettingNames, Order, Update, updateServerConfig
<1>3. CASE section = "threading"
  BY <1>3, SettingsAreNames
     DEF SettingNames, Order, Update, updateThreadingConfig
<1>4. CASE section = "database"
  BY <1>4, SettingsAreNames
     DEF SettingNames, Order, Update, updateDatabaseConfig
<1>5. CASE section = "filetypes"
  BY <1>5, SettingsAreNames
     DEF SettingNames, Order, Update, updateFileTypesConfig
<1>6. CASE section = "video"
  BY <1>6, SettingsAreNames DEF SettingNames, Order, Update, updateVideoConfig
<1>7. CASE section = "scanning"
  BY <1>7, SettingsAreNames
     DEF SettingNames, Order, Update, updateScanningConfig
<1>8. CASE section = "logging"
  BY <1>8, SettingsAreNames
     DEF SettingNames, Order, Update, updateLoggingConfig
<1> QED
  BY <1>1, <1>2, <1>3, <1>4, <1>5, <1>6, <1>7, <1>8

\* The answer to a request for a section.
LEMMA SectionAnswered ==
  ASSUME NEW section \in DOMAIN Order, NEW body,
         \A s \in DOMAIN body : body[s] \in {1, Bad}
  PROVE  LET order == Order[section]
             wrong == {i \in DOMAIN order : /\ order[i] \in DOMAIN body
                                            /\ body[order[i]] = Bad}
             applied == {order[i] : i \in {i \in DOMAIN order :
                                             /\ order[i] \in DOMAIN body
                                             /\ \A j \in wrong : i < j}}
             answer == Update(section, World, body)
         IN  /\ answer.status = (IF wrong = {} THEN 200 ELSE 400)
             /\ \A path \in Paths :
                  (answer.world.cfg[path] = 1)
                    <=> \E s \in applied : Set(s, World, 1).cfg[path] = 1
             /\ applied # {} =>
                  answer.world.files[answer.world.own] = answer.world.cfg
             /\ \A c \in DOMAIN Hears : \A k \in Keeps(c) :
                  (answer.world.copies[c][k] = 1)
                    <=> \E s \in applied : Set(s, World, 1).copies[c][k] = 1
<1> DEFINE order == Order[section]
           wrong == {i \in DOMAIN order : /\ order[i] \in DOMAIN body
                                          /\ body[order[i]] = Bad}
           applied == {order[i] : i \in {i \in DOMAIN order :
                                           /\ order[i] \in DOMAIN body
                                           /\ \A j \in wrong : i < j}}
           answer == Update(section, World, body)
<1>1. order \in Seq(Settings) /\ answer = Apply(World, order, body)
  BY SectionOrders
<1> HIDE DEF order
<1>2. DOMAIN order = 1..Len(order) /\ Len(order) \in Nat
      /\ \A i \in 1..Len(order) : order[i] \in Settings
  BY <1>1
<1>3. IsBody(body)
  BY DEF IsBody, Bad
<1>4. WrongBy(order, body, Len(order)) <=> wrong # {}
  BY <1>2 DEF WrongBy
<1>5. AppliedBy(order, body, Len(order)) = applied
  <2>1. ASSUME NEW i \in 1..Len(order)
        PROVE  WrongBy(order, body, i) <=> ~ \A j \in wrong : i < j
    <3>1. \A j \in 1..Len(order) : j \in 1..i <=> ~(i < j)
      OBVIOUS
    <3>2. 1..i \subseteq 1..Len(order)
      BY <1>2
    <3> QED BY <1>2, <3>1, <3>2 DEF WrongBy
  <2> HIDE DEF wrong
  <2> QED BY <1>2, <2>1 DEF AppliedBy
<1>6. /\ applied \in SUBSET Settings
      /\ \A s \in applied : body[s] = 1
  <2>1. ASSUME NEW s \in applied
        PROVE  s \in Settings /\ body[s] = 1
    <3>1. PICK i \in DOMAIN order : /\ s = order[i] /\ s \in DOMAIN body
                                    /\ \A j \in wrong : i < j
      OBVIOUS
    <3>2. i \notin wrong
      <4> HIDE DEF wrong
      <4> QED BY <1>2, <3>1
    <3> QED BY <1>2, <3>1, <3>2
  <2> QED BY <2>1
<1> HIDE DEF wrong, applied, answer
<1>7. AnswerIs(answer, World, applied, IF wrong # {} THEN 400 ELSE 200, body)
  BY <1>1, <1>3, <1>4, <1>5, WorldIsWorld, PrefixApplied
<1>8. /\ answer.status = (IF wrong = {} THEN 200 ELSE 400)
      /\ applied # {} => answer.world.files[answer.world.own] = answer.world.cfg
  BY <1>7 DEF AnswerIs
<1>9. /\ \A path \in Paths :
           (answer.world.cfg[path] = 1)
             <=> \E s \in applied : Set(s, World, 1).cfg[path] = 1
      /\ \A c \in DOMAIN Hears : \A k \in Keeps(c) :
           (answer.world.copies[c][k] = 1)
             <=> \E s \in applied : Set(s, World, 1).copies[c][k] = 1
  <2>1. PICK status : AnswerIs(answer, World, applied, status, body)
    BY <1>7
  <2>2. SetToOne(applied, body)
    BY <1>6 DEF SetToOne
  <2>3. ReachedBy(answer, applied)
    BY <1>6, <2>1, <2>2, PrefixReached
  <2> QED BY <2>3 DEF ReachedBy
<1> QED BY <1>8, <1>9 DEF order, wrong, applied, answer

\* RejectedPrefix: a request with a value of the wrong type is refused, and
\* the settings before it are applied, saved and announced all the same (the
\* update...Config functions of PocoConfigAdapter).
THEOREM RejectedPrefixAlways == Spec => []RejectedPrefix
<1>1. Init => RejectedPrefix
  BY NotPicked DEF RejectedPrefix
<1>2. RejectedPrefix /\ [Next]_input => RejectedPrefix'
  <2>1. ASSUME Next, input'.kind = "section"
        PROVE  RejectedPrefix'
    <3>1. PICK section \in DOMAIN Order :
            \E named \in SUBSET Range(Order[section]) :
              \E body \in [named -> {1, Bad}] :
                input' = [kind |-> "section", section |-> section,
                          body |-> body]
      BY <2>1, PickedByKind DEF PickSection
    <3>2. PICK named \in SUBSET Range(Order[section]) :
            \E body \in [named -> {1, Bad}] :
              input' = [kind |-> "section", section |-> section, body |-> body]
      BY <3>1
    <3>5. PICK body \in [named -> {1, Bad}] :
            input' = [kind |-> "section", section |-> section, body |-> body]
      BY <3>2
    <3>3. input'.section = section /\ input'.body = body
      BY <3>5
    <3>4. \A s \in DOMAIN body : body[s] \in {1, Bad}
      OBVIOUS
    <3> QED BY <3>3, <3>4, SectionAnswered DEF RejectedPrefix
  <2>2. ASSUME input'.kind # "section"
        PROVE  RejectedPrefix'
    BY <2>2 DEF RejectedPrefix
  <2>3. ASSUME RejectedPrefix, UNCHANGED input
        PROVE  RejectedPrefix'
    BY <2>3 DEF RejectedPrefix
  <2> QED BY <2>1, <2>2, <2>3
<1> QED BY <1>1, <1>2, PTL DEF Spec

-----------------------------------------------------------------------------
(***************************************************************************)
(* A row of requests: the copies follow the getters.                       *)
(***************************************************************************)
LEMMA PatchStays ==
  ASSUME NEW w \in Worlds, NEW path, NEW v \in Int
  PROVE  handleUpdateConfig(w, [p \in {path} |-> v]).world \in Worlds
<1> DEFINE cfg == [p \in Paths |-> IF p = path THEN v ELSE w.cfg[p]]
           files == [w.files EXCEPT !["config.json"] = cfg]
           saved == [cfg |-> cfg, files |-> files, own |-> w.own, copies |-> w.copies]
           patch == [p \in {path} |-> v]
<1>1. w = [cfg |-> w.cfg, files |-> w.files, own |-> w.own, copies |-> w.copies]
      /\ w.own \in Files
      /\ w.cfg \in Cfgs /\ w.files \in [Files -> Cfgs] /\ w.copies \in Copies
  BY DEF Worlds
<1>2. cfg \in Cfgs
  BY <1>1 DEF Cfgs
<1>3. Written(w.cfg, patch) = cfg
  <2>1. DOMAIN w.cfg = Paths
    BY <1>1 DEF Cfgs
  <2> QED BY <2>1 DEF Written
<1>4. Save([w EXCEPT !.cfg = Written(@, patch)], "config.json") = saved
  <2>1. [w EXCEPT !.cfg = Written(@, patch)]
          = [cfg |-> cfg, files |-> w.files, own |-> w.own, copies |-> w.copies]
    <3> HIDE DEF cfg, patch
    <3> QED BY <1>1, <1>3
  <2>2. Save([cfg |-> cfg, files |-> w.files, own |-> w.own, copies |-> w.copies],
             "config.json") = saved
    <3> HIDE DEF cfg
    <3> QED BY DEF Save
  <2> HIDE DEF cfg, saved
  <2> QED BY <2>1, <2>2
<1>5. files \in [Files -> Cfgs]
  <2> HIDE DEF cfg
  <2> QED BY <1>1, <1>2 DEF Files, ConfigFiles
<1>6. saved \in Worlds
  <2> HIDE DEF cfg, files
  <2> QED BY <1>1, <1>2, <1>5 DEF Worlds
<1>7. handleUpdateConfig(w, patch).world = Publish(saved, {"configuration"})
  <2> HIDE DEF saved
  <2> QED BY <1>4 DEF handleUpdateConfig, Collective
<1> HIDE DEF saved
<1>8. Publish(saved, {"configuration"}) \in Worlds
  BY <1>6, PublishReads
<1> QED BY <1>7, <1>8

LEMMA ReloadStays ==
  ASSUME NEW w \in Worlds, NEW path \in Files
  PROVE  handleReloadConfig(w, path).world \in Worlds
<1>1. w = [cfg |-> w.cfg, files |-> w.files, own |-> w.own, copies |-> w.copies]
      /\ w.own \in Files
      /\ w.files \in [Files -> Cfgs] /\ w.copies \in Copies
  BY DEF Worlds
<1>2. [w EXCEPT !.cfg = w.files[path]]
        = [cfg |-> w.files[path], files |-> w.files, own |-> w.own, copies |-> w.copies]
  BY <1>1
<1> QED BY <1>1, <1>2 DEF handleReloadConfig, Worlds

LEMMA SaveStays ==
  ASSUME NEW w \in Worlds, NEW path \in Files
  PROVE  LET saved == handleSaveConfig(w, path).world IN
         saved \in Worlds /\ saved.cfg = w.cfg /\ saved.copies = w.copies
<1> DEFINE files == [w.files EXCEPT ![path] = w.cfg]
<1>1. w = [cfg |-> w.cfg, files |-> w.files, own |-> w.own, copies |-> w.copies]
      /\ w.own \in Files
      /\ w.cfg \in Cfgs /\ w.files \in [Files -> Cfgs] /\ w.copies \in Copies
  BY DEF Worlds
<1>2. files \in [Files -> Cfgs]
  BY <1>1
<1>3. handleSaveConfig(w, path).world
        = [cfg |-> w.cfg, files |-> files, own |-> w.own, copies |-> w.copies]
  <2>1. handleSaveConfig(w, path).world = [w EXCEPT !.files = files]
    BY <1>1 DEF handleSaveConfig, Save
  <2> HIDE DEF files
  <2> QED BY <1>1, <2>1
<1> HIDE DEF files
<1> QED BY <1>1, <1>2, <1>3 DEF Worlds

\* The four requests.
LEMMA RequestKinds ==
  ASSUME NEW request \in Requests
  PROVE  \/ /\ request.op = "set" /\ request.setting \in Settings
            /\ request = [op |-> "set", setting |-> request.setting]
         \/ request.op = "patch"
         \/ request.op = "save" /\ request.file \in ConfigFiles
         \/ request.op = "reload" /\ request.file \in ConfigFiles
BY DEF Requests

LEMMA AnsweredStays ==
  ASSUME NEW w \in Worlds, NEW request \in Requests, NEW v \in Int
  PROVE  Answered(w, request, v) \in Worlds
<1>1. CASE request.op = "set"
  <2> DEFINE s == request.setting
  <2>1. s \in Settings
    BY <1>1, RequestKinds
  <2>2. Answered(w, request, v) = Set(s, w, v)
    BY <1>1 DEF Answered
  <2> HIDE DEF s
  <2>3. Set(s, w, v) \in Worlds
    BY <2>1, SetDoes
  <2> QED BY <2>2, <2>3
<1>2. CASE request.op = "patch"
  <2>1. Answered(w, request, v)
          = handleUpdateConfig(w, [p \in {Patched[request.setting]} |-> v]).world
    BY <1>2 DEF Answered
  <2> QED BY <2>1, PatchStays
<1>3. CASE request.op = "save"
  <2>1. Answered(w, request, v)
          = handleSaveConfig(w, request.file).world
    BY <1>3 DEF Answered
  <2> QED BY <1>3, <2>1, RequestKinds, SaveStays DEF Files
<1>4. CASE request.op = "reload"
  <2>1. Answered(w, request, v)
          = handleReloadConfig(w, request.file).world
    BY <1>4 DEF Answered
  <2> QED BY <1>4, <2>1, RequestKinds, ReloadStays DEF Files
<1> QED BY <1>1, <1>2, <1>3, <1>4, RequestKinds

\* After n requests nothing but its setter came last for a setting, and the
\* copies of such settings.
ToldBy(requests, n, setting) ==
  \A i \in 1..n :
    requests[i].op \in {"patch", "reload"} =>
      \E j \in 1..n :
        j > i /\ requests[j] = [op |-> "set", setting |-> setting]

Follows(w, c, k) == w.copies[c][k] = Getters(w.cfg)[k]

LEMMA ToldStep ==
  ASSUME NEW requests, NEW n \in Nat \ {0}, NEW k, ToldBy(requests, n, k)
  PROVE  /\ requests[n].op \notin {"patch", "reload"}
         /\ requests[n] # [op |-> "set", setting |-> k] =>
              ToldBy(requests, n - 1, k)
<1>1. requests[n].op \notin {"patch", "reload"}
  BY DEF ToldBy
<1>2. ASSUME requests[n] # [op |-> "set", setting |-> k],
             NEW i \in 1..(n - 1), requests[i].op \in {"patch", "reload"}
      PROVE  \E j \in 1..(n - 1) :
               j > i /\ requests[j] = [op |-> "set", setting |-> k]
  <2>1. PICK j \in 1..n : j > i /\ requests[j] = [op |-> "set", setting |-> k]
    BY <1>2 DEF ToldBy
  <2>2. j # n
    BY <1>2, <2>1
  <2>3. j \in 1..(n - 1)
    BY <2>2
  <2> QED BY <2>1, <2>3
<1> QED BY <1>1, <1>2 DEF ToldBy

\* One request: a copy that is told of its setting follows the getter.
LEMMA FollowsOnce ==
  ASSUME NEW w \in Worlds, NEW request \in Requests, NEW v \in Int,
         NEW c \in DOMAIN Hears, NEW k \in Keeps(c) \ ReadOnce(c),
         request.op \notin {"patch", "reload"},
         request # [op |-> "set", setting |-> k] => Follows(w, c, k)
  PROVE  Follows(Answered(w, request, v), c, k)
<1>0. k \in Settings /\ k \in Keeps(c) /\ ReadsFrom[k] \in Paths
  BY KeepsSettings, PathsOfSettings
<1>1. CASE request.op = "set"
  <2> DEFINE s == request.setting
             new == Set(s, w, v)
  <2>1. s \in Settings /\ request = [op |-> "set", setting |-> s]
    BY <1>1, RequestKinds
  <2>2. Answered(w, request, v) = new
    BY <1>1 DEF Answered
  <2>3. /\ new.cfg = [p \in Paths |-> IF p \in WritesTo[s] THEN v ELSE w.cfg[p]]
        /\ new.copies[c][k] = IF k \in Named(c, WritesTo[s])
                              THEN Getters(new.cfg)[k] ELSE w.copies[c][k]
    BY <1>0, <2>1, SetDoes
  <2> HIDE DEF new, s
  <2>4. CASE s = k
    <3>1. k \in Named(c, WritesTo[s])
      BY <1>0, <2>4, NamedIsOwn
    <3> QED BY <2>2, <2>3, <3>1 DEF Follows
  <2>5. CASE s # k
    <3>1. k \notin Named(c, WritesTo[s])
      BY <2>1, <2>5, NamedIsOwn
    <3>2. ReadsFrom[k] \notin WritesTo[s]
      BY <2>1, <2>5, OnlyItsSetter
    <3>3. new.cfg[ReadsFrom[k]] = w.cfg[ReadsFrom[k]]
      BY <1>0, <2>3, <3>2
    <3>4. Getters(new.cfg)[k] = Getters(w.cfg)[k]
      BY <1>0, <3>3, GetterReads
    <3>5. request # [op |-> "set", setting |-> k]
      BY <2>1, <2>5
    <3>6. w.copies[c][k] = Getters(w.cfg)[k]
      BY <3>5 DEF Follows
    <3> QED BY <2>2, <2>3, <3>1, <3>4, <3>6 DEF Follows
  <2> QED BY <2>4, <2>5
<1>2. CASE request.op = "save"
  <2>1. Answered(w, request, v)
          = handleSaveConfig(w, request.file).world
    BY <1>2 DEF Answered
  <2>2. /\ Answered(w, request, v).cfg = w.cfg
        /\ Answered(w, request, v).copies = w.copies
    BY <1>2, <2>1, RequestKinds, SaveStays DEF Files
  <2>3. request # [op |-> "set", setting |-> k]
    BY <1>2
  <2> QED BY <2>2, <2>3 DEF Follows
<1> QED BY <1>1, <1>2, RequestKinds

LEMMA WorldsRun ==
  ASSUME NEW N \in Nat, NEW start \in Worlds,
         NEW round \in [1..N -> [Worlds -> Worlds]]
  PROVE  \E g \in [0..N -> Worlds] :
           g[0] = start /\ \A n \in 1..N : g[n] = round[n][g[n - 1]]
BY LoopExists

\* The world after a row of N requests, the i-th with the value i.
AfterRounds(w, N, requests) ==
  LET world[i \in 0..N] ==
        IF i = 0 THEN w ELSE Answered(world[i - 1], requests[i], i)
  IN  world[N]

\* After any row of requests, and from any configuration that the components
\* have read, a component keeps what the getter returns of every setting
\* whose setter was called after the last collective update and the last
\* reload; its list of extensions is not among these (publishEvent and the
\* observers of the components).
THEOREM CopiesFollowRows ==
  ASSUME NEW w \in Worlds, NEW N \in Nat, NEW requests \in [1..N -> Requests],
         \A c \in DOMAIN Hears : \A k \in Keeps(c) : Follows(w, c, k)
  PROVE  /\ AfterRounds(w, N, requests) \in Worlds
         /\ \A c \in DOMAIN Hears : \A k \in Keeps(c) \ ReadOnce(c) :
              ToldBy(requests, N, k) =>
                Follows(AfterRounds(w, N, requests), c, k)
<1> DEFINE world[i \in 0..N] ==
             IF i = 0 THEN w ELSE Answered(world[i - 1], requests[i], i)
           round == [i \in 1..N |->
                       [u \in Worlds |-> Answered(u, requests[i], i)]]
<1>1. ASSUME NEW u \in Worlds, NEW i \in 1..N
      PROVE  Answered(u, requests[i], i) \in Worlds
  BY AnsweredStays
<1>2. round \in [1..N -> [Worlds -> Worlds]]
  BY <1>1
<1>3. \E g \in [0..N -> Worlds] :
        g[0] = w /\ \A n \in 1..N : g[n] = round[n][g[n - 1]]
  <2> HIDE DEF round, world
  <2> QED BY <1>2, WorldsRun
<1>4. PICK g \in [0..N -> Worlds] :
        g[0] = w /\ \A n \in 1..N : g[n] = round[n][g[n - 1]]
  BY <1>3
<1>5. ASSUME NEW n \in 1..N
      PROVE  g[n] = Answered(g[n - 1], requests[n], n)
  <2>1. g[n - 1] \in Worlds
    OBVIOUS
  <2>2. round[n][g[n - 1]] = Answered(g[n - 1], requests[n], n)
    BY <2>1
  <2> HIDE DEF round
  <2> QED BY <1>4, <2>2
<1>6. g = [i \in 0..N |->
             IF i = 0 THEN w ELSE Answered(g[i - 1], requests[i], i)]
  <2> HIDE DEF round, world
  <2> QED BY <1>4, <1>5
<1>7. world = [i \in 0..N |->
                 IF i = 0 THEN w ELSE Answered(world[i - 1], requests[i], i)]
  <2> HIDE DEF round
  <2> QED BY <1>6
<1> HIDE DEF round, world
<1>8. /\ world[0] = w
      /\ \A n \in 1..N : world[n] = Answered(world[n - 1], requests[n], n)
  BY <1>7
<1> DEFINE Is(n) ==
             /\ world[n] \in Worlds
             /\ \A c \in DOMAIN Hears : \A k \in Keeps(c) \ ReadOnce(c) :
                  ToldBy(requests, n, k) => Follows(world[n], c, k)
           S == {n \in Nat : Is(n)}
<1>9. 0 \in S
  BY <1>8
<1>10. ASSUME NEW n \in 1..N, n - 1 \in S
       PROVE  n \in S
  <2>1. Is(n - 1) /\ requests[n] \in Requests
    BY <1>10
  <2>2. world[n] = Answered(world[n - 1], requests[n], n)
    BY <1>8
  <2>3. world[n] \in Worlds
    BY <2>1, <2>2, AnsweredStays
  <2>4. ASSUME NEW c \in DOMAIN Hears, NEW k \in Keeps(c) \ ReadOnce(c),
               ToldBy(requests, n, k)
        PROVE  Follows(world[n], c, k)
    <3>0. n \in Nat \ {0}
      OBVIOUS
    <3>1. /\ requests[n].op \notin {"patch", "reload"}
          /\ requests[n] # [op |-> "set", setting |-> k] =>
               ToldBy(requests, n - 1, k)
      BY <2>4, <3>0, ToldStep
    <3>2. requests[n] # [op |-> "set", setting |-> k] =>
            Follows(world[n - 1], c, k)
      BY <2>1, <3>1
    <3>3. world[n - 1] \in Worlds
      BY <2>1
    <3> QED BY <2>1, <2>2, <3>1, <3>2, <3>3, FollowsOnce
  <2>5. Is(n)
    BY <2>3, <2>4
  <2> HIDE DEF Is
  <2> QED BY <2>5
<1>11. \A n \in 0..N : n \in S
  <2> HIDE DEF S
  <2> QED BY <1>9, <1>10, RoundInduction
<1>12. Is(N)
  BY <1>11
<1>13. AfterRounds(w, N, requests) = world[N]
  BY DEF world, AfterRounds
<1> QED BY <1>12, <1>13

\* CopiesFollow: what a component keeps is what the getter returns, unless a
\* collective update or a reload came after the last setter (the observers
\* of the components).
THEOREM CopiesFollowAlways == Spec => []CopiesFollow
<1>1. Init => CopiesFollow
  BY NotPicked DEF CopiesFollow
<1>2. CopiesFollow /\ [Next]_input => CopiesFollow'
  <2>1. ASSUME Next, input'.kind = "requests"
        PROVE  CopiesFollow'
    <3>1. PICK N \in 1..MaxRequests :
            \E requests \in [1..N -> Requests] :
              input' = [kind |-> "requests", requests |-> requests]
      BY <2>1, PickedByKind DEF PickRequests
    <3>2. PICK requests \in [1..N -> Requests] :
            input' = [kind |-> "requests", requests |-> requests]
      BY <3>1
    <3>3. N \in Nat /\ DOMAIN requests = 1..N
      BY BoundsAssumption
    <3>4. Len(requests) = N
      <4>1. requests \in Seq(Requests)
        BY <3>3
      <4> QED BY <3>3, <4>1
    <3>5. AfterAll(requests) = AfterRounds(World, N, requests)
      BY <3>4 DEF AfterAll, AfterRounds
    <3>6. \A c \in DOMAIN Hears : \A k \in Keeps(c) : Follows(World, c, k)
      <4> SUFFICES ASSUME NEW c \in DOMAIN Hears, NEW k \in Keeps(c)
                   PROVE  World.copies[c][k] = Getters(World.cfg)[k]
        BY DEF Follows
      <4>1. World.copies[c][k] = 0
        BY WorldIsWorld
      <4>2. k \in Settings
        BY KeepsSettings
      <4>3. Getters(World.cfg)[k] = 0
        BY <4>2, WorldIsWorld, GetterReads, PathsOfSettings
      <4> QED BY <4>1, <4>3
    <3>7. \A c \in DOMAIN Hears : \A k \in Keeps(c) \ ReadOnce(c) :
            ToldBy(requests, N, k) => Follows(AfterAll(requests), c, k)
      BY <3>3, <3>5, <3>6, WorldIsWorld, CopiesFollowRows
    <3>8. input'.requests = requests
      BY <3>2
    <3> DEFINE Told(k) ==
                 \A i \in DOMAIN requests :
                   requests[i].op \in {"patch", "reload"} =>
                     \E j \in DOMAIN requests :
                       j > i /\ requests[j] = [op |-> "set", setting |-> k]
    <3>9. \A k : Told(k) => ToldBy(requests, N, k)
      BY <3>3, Zenon DEF ToldBy
    <3>10. \A c \in DOMAIN Hears : \A k \in Keeps(c) \ ReadOnce(c) :
             Told(k) => AfterAll(requests).copies[c][k]
                          = Getters(AfterAll(requests).cfg)[k]
      <4> HIDE DEF Told
      <4> QED BY <3>7, <3>9 DEF Follows
    <3> QED BY <3>8, <3>10, Zenon DEF CopiesFollow
  <2>2. ASSUME input'.kind # "requests"
        PROVE  CopiesFollow'
    BY <2>2 DEF CopiesFollow
  <2>3. ASSUME CopiesFollow, UNCHANGED input
        PROVE  CopiesFollow'
    BY <2>3 DEF CopiesFollow
  <2> QED BY <2>1, <2>2, <2>3
<1> QED BY <1>1, <1>2, PTL DEF Spec

-----------------------------------------------------------------------------
(***************************************************************************)
(* Where a video is sampled.                                               *)
(***************************************************************************)
LEMMA Cancel ==
  ASSUME NEW c \in Nat \ {0}, NEW x \in Int
  PROVE  /\ c * x < c => x <= 0
         /\ 0 < c * x + c => x >= 0
         /\ c * x < 2 * c => x <= 1
<1>1. x >= 1 => c * x >= c
  OBVIOUS
<1>2. x <= -1 => c * x <= -c
  OBVIOUS
<1>3. x >= 2 => c * x >= 2 * c
  OBVIOUS
<1> QED BY <1>1, <1>2, <1>3

\* The end of the i-th of c segments of a stream of length d.
End(d, c, i) == (d * i) \div c

LEMMA EndBounds ==
  ASSUME NEW d \in Nat, NEW c \in Nat \ {0}, NEW i \in Int
  PROVE  /\ End(d, c, i) \in Int
         /\ c * End(d, c, i) <= d * i
         /\ d * i < c * End(d, c, i) + c
<1>1. d * i \in Int
  OBVIOUS
<1> DEFINE x == d * i
<1> HIDE DEF x
<1>2. x \in Int
  BY <1>1 DEF x
<1>3. x \div c \in Int /\ c * (x \div c) <= x /\ x < c * (x \div c) + c
  BY <1>2
<1> QED BY <1>3 DEF x, End

\* A segment is as long as the others, up to one tick.
LEMMA SegmentBounds ==
  ASSUME NEW d \in Nat, NEW c \in Nat \ {0}, NEW i \in Int
  PROVE  LET g == End(d, c, i) - End(d, c, i - 1) IN
         g \in Int /\ c * g < d + c /\ d < c * g + c
<1> DEFINE a == End(d, c, i)
           b == End(d, c, i - 1)
<1>1. a \in Int /\ c * a <= d * i /\ d * i < c * a + c
  BY EndBounds
<1>2. b \in Int /\ c * b <= d * (i - 1) /\ d * (i - 1) < c * b + c
  <2>1. i - 1 \in Int
    OBVIOUS
  <2> QED BY <2>1, EndBounds
<1> HIDE DEF a, b
<1>3. d * (i - 1) = d * i - d
  OBVIOUS
<1>4. c * (a - b) = c * a - c * b
  BY <1>1, <1>2
<1>5. c * a \in Int /\ c * b \in Int /\ d * i \in Int
  BY <1>1, <1>2
<1> QED BY <1>1, <1>2, <1>3, <1>4, <1>5 DEF a, b

LEMMA SegmentsAlike ==
  ASSUME NEW d \in Nat, NEW c \in Nat \ {0}, NEW i \in Int, NEW j \in Int
  PROVE  LET g(n) == End(d, c, n) - End(d, c, n - 1) IN
         g(i) \in Int /\ g(i) >= 0 /\ g(i) - g(j) <= 1
<1> DEFINE g == End(d, c, i) - End(d, c, i - 1)
           h == End(d, c, j) - End(d, c, j - 1)
<1>1. g \in Int /\ c * g < d + c /\ d < c * g + c
  BY SegmentBounds
<1>2. h \in Int /\ c * h < d + c /\ d < c * h + c
  BY SegmentBounds
<1> HIDE DEF g, h
<1>3. c * g \in Int /\ c * h \in Int /\ g - h \in Int
  BY <1>1, <1>2
<1>4. c * (g - h) = c * g - c * h
  BY <1>1, <1>2
<1>5. c * (g - h) < 2 * c
  BY <1>1, <1>2, <1>3, <1>4
<1>6. 0 < c * g + c
  BY <1>1, <1>3
<1>7. g >= 0 /\ g - h <= 1
  BY <1>1, <1>3, <1>5, <1>6, Cancel
<1> QED BY <1>1, <1>7 DEF g, h

LEMMA LastEnd ==
  ASSUME NEW d \in Nat, NEW c \in Nat \ {0}
  PROVE  End(d, c, c) = d /\ End(d, c, 0) = 0
<1> DEFINE a == End(d, c, c)
           b == End(d, c, 0)
<1>1. a \in Int /\ c * a <= d * c /\ d * c < c * a + c
  BY EndBounds
<1>2. b \in Int /\ c * b <= d * 0 /\ d * 0 < c * b + c
  BY EndBounds
<1> HIDE DEF a, b
<1>3. c * (a - d) = c * a - d * c /\ c * (d - a) = d * c - c * a
  BY <1>1
<1>4. a - d \in Int /\ d - a \in Int /\ c * a \in Int /\ d * c \in Int
      /\ c * b \in Int /\ d * 0 = 0 /\ -b \in Int /\ c * (-b) = -(c * b)
  BY <1>1, <1>2
<1>5. 0 < c * (a - d) + c /\ c * (d - a) < c
  BY <1>1, <1>3, <1>4
<1>5a. d - a <= 0
  BY <1>4, <1>5, Cancel
<1>5b. a <= d
  <2>1. c * (a - d) <= 0
    BY <1>1, <1>3, <1>4
  <2>2. c * (a - d) < c
    BY <1>1, <1>3, <1>4, <2>1
  <2> QED BY <1>1, <1>4, <2>2, Cancel
<1>6. 0 < c * b + c /\ c * b < c
  BY <1>2, <1>4
<1>7. b >= 0 /\ b <= 0
  BY <1>2, <1>6, Cancel
<1> QED BY <1>1, <1>2, <1>5a, <1>5b, <1>7 DEF a, b

\* The targets of a stream of any length: as many as asked for, at the ends
\* of segments that start at 0, end with the stream and are equally long up
\* to one tick; none when the length is not known (the sampling of
\* processVideoFast, processVideoBalanced and processVideoQuality).
THEOREM TargetsCut ==
  ASSUME NEW duration \in Int, NEW count \in Nat
  PROVE  LET targets == SampleTargets(duration, count)
             Gap(i) == (IF i = Len(targets) THEN duration
                                            ELSE targets[i + 1]) - targets[i]
         IN  /\ (targets = <<>>) <=> (duration <= 0 \/ count = 0)
             /\ targets # <<>> => Len(targets) = count /\ targets[1] = 0
             /\ \A i, j \in DOMAIN targets : Gap(i) >= 0 /\ Gap(i) - Gap(j) <= 1
<1> DEFINE targets == SampleTargets(duration, count)
           Gap(i) == (IF i = Len(targets) THEN duration
                                          ELSE targets[i + 1]) - targets[i]
<1>1. CASE duration <= 0 \/ count = 0
  <2>1. targets = <<>>
    BY <1>1 DEF SampleTargets
  <2> QED BY <1>1, <2>1
<1>2. CASE duration > 0 /\ count > 0
  <2>0. duration \in Nat /\ count \in Nat \ {0}
    BY <1>2
  <2>1. targets = [i \in 1..count |-> End(duration, count, i - 1)]
    BY <1>2 DEF SampleTargets, End
  <2>2. \A i \in 1..count : End(duration, count, i - 1) \in Int
    BY <2>0, EndBounds
  <2> HIDE DEF targets
  <2>3. targets \in Seq(Int) /\ Len(targets) = count
        /\ DOMAIN targets = 1..count /\ targets # <<>>
    BY <2>0, <2>1, <2>2
  <2>4. targets[1] = 0
    BY <2>0, <2>1, LastEnd
  <2>5. ASSUME NEW i \in 1..count
        PROVE  Gap(i) = End(duration, count, i) - End(duration, count, i - 1)
    <3>1. CASE i = count
      BY <2>0, <2>1, <2>3, <3>1, LastEnd
    <3>2. CASE i # count
      <4>1. i + 1 \in 1..count /\ (i + 1) - 1 = i
        BY <3>2
      <4>2. targets[i + 1] = End(duration, count, i)
        BY <2>1, <4>1
      <4> QED BY <2>1, <2>3, <3>2, <4>2
    <3> QED BY <3>1, <3>2
  <2> HIDE DEF Gap
  <2>6. ASSUME NEW i \in 1..count, NEW j \in 1..count
        PROVE  Gap(i) >= 0 /\ Gap(i) - Gap(j) <= 1
    <3>1. i \in Int /\ j \in Int
      OBVIOUS
    <3> QED BY <2>0, <2>5, <3>1, SegmentsAlike
  <2>7. /\ (targets = <<>>) <=> (duration <= 0 \/ count = 0)
        /\ targets # <<>> => Len(targets) = count /\ targets[1] = 0
        /\ \A i, j \in DOMAIN targets : Gap(i) >= 0 /\ Gap(i) - Gap(j) <= 1
    BY <1>2, <2>3, <2>4, <2>6
  <2> QED BY <2>7 DEF targets, Gap
<1> QED BY <1>1, <1>2

\* TargetsSpread: as TargetsCut, of the durations and counts picked.
THEOREM TargetsSpreadAlways == Spec => []TargetsSpread
<1>1. Init => TargetsSpread
  BY NotPicked DEF TargetsSpread
<1>2. TargetsSpread /\ [Next]_input => TargetsSpread'
  <2>1. ASSUME Next, input'.kind = "sampling"
        PROVE  TargetsSpread'
    <3>1. PICK duration \in -1..MaxDuration, count \in 0..MaxCount :
            input' = [kind |-> "sampling", duration |-> duration,
                      count |-> count]
      BY <2>1, PickedByKind DEF PickSampling
    <3>2. input'.duration = duration /\ input'.count = count
      BY <3>1
    <3>3. duration \in Int /\ count \in Nat
      BY BoundsAssumption
    <3> QED BY <3>2, <3>3, TargetsCut DEF TargetsSpread
  <2>2. ASSUME input'.kind # "sampling"
        PROVE  TargetsSpread'
    BY <2>2 DEF TargetsSpread
  <2>3. ASSUME TargetsSpread, UNCHANGED input
        PROVE  TargetsSpread'
    BY <2>3 DEF TargetsSpread
  <2> QED BY <2>1, <2>2, <2>3
<1> QED BY <1>1, <1>2, PTL DEF Spec

-----------------------------------------------------------------------------
(***************************************************************************)
(* Bytes and their exclusive or.                                           *)
(***************************************************************************)
Bytes == 0..255
Weights == {1, 2, 4, 8, 16, 32, 64, 128}

\* The number with these bits.
FromBits(a, b, c, d, e, f, g, h) ==
  a + 2 * b + 4 * c + 8 * d + 16 * e + 32 * f + 64 * g + 128 * h

LEMMA BitIsBit ==
  ASSUME NEW n \in Int, NEW w \in Weights
  PROVE  Bit(n, w) \in {0, 1}
BY DEF Bit, Weights

\* A byte is the sum of its bits.
LEMMA ByteIsBits ==
  ASSUME NEW n \in Bytes
  PROVE  n = FromBits(Bit(n, 1), Bit(n, 2), Bit(n, 4), Bit(n, 8),
                      Bit(n, 16), Bit(n, 32), Bit(n, 64), Bit(n, 128))
<1>1. n = 2 * (n \div 2) + (n % 2) /\ n \div 1 = n /\ n \div 2 \in 0..127
  BY DEF Bytes
<1>2. n \div 2 = 2 * (n \div 4) + ((n \div 2) % 2) /\ n \div 4 \in 0..63
  BY DEF Bytes
<1>3. n \div 4 = 2 * (n \div 8) + ((n \div 4) % 2) /\ n \div 8 \in 0..31
  BY DEF Bytes
<1>4. n \div 8 = 2 * (n \div 16) + ((n \div 8) % 2) /\ n \div 16 \in 0..15
  BY DEF Bytes
<1>5. n \div 16 = 2 * (n \div 32) + ((n \div 16) % 2) /\ n \div 32 \in 0..7
  BY DEF Bytes
<1>6. n \div 32 = 2 * (n \div 64) + ((n \div 32) % 2) /\ n \div 64 \in 0..3
  BY DEF Bytes
<1>7. n \div 64 = 2 * (n \div 128) + ((n \div 64) % 2) /\ n \div 128 \in 0..1
  BY DEF Bytes
<1>8. (n \div 128) % 2 = n \div 128
  BY <1>7
<1> DEFINE half(w) == n \div w
<1>9. /\ n = 2 * half(2) + Bit(n, 1)
      /\ half(2) = 2 * half(4) + Bit(n, 2)
      /\ half(4) = 2 * half(8) + Bit(n, 4)
      /\ half(8) = 2 * half(16) + Bit(n, 8)
      /\ half(16) = 2 * half(32) + Bit(n, 16)
      /\ half(32) = 2 * half(64) + Bit(n, 32)
      /\ half(64) = 2 * half(128) + Bit(n, 64)
      /\ half(128) = Bit(n, 128)
  BY <1>1, <1>2, <1>3, <1>4, <1>5, <1>6, <1>7, <1>8 DEF Bit
<1>10. \A w \in Weights : Bit(n, w) \in {0, 1}
  BY BitIsBit DEF Bytes
<1> HIDE DEF half
<1>11. /\ Bit(n, 1) \in {0, 1} /\ Bit(n, 2) \in {0, 1} /\ Bit(n, 4) \in {0, 1}
       /\ Bit(n, 8) \in {0, 1} /\ Bit(n, 16) \in {0, 1} /\ Bit(n, 32) \in {0, 1}
       /\ Bit(n, 64) \in {0, 1} /\ Bit(n, 128) \in {0, 1}
  BY <1>10 DEF Weights
<1> QED BY <1>9, <1>11 DEF FromBits

\* The bits of a sum of bits.
LEMMA BitsOfSum ==
  ASSUME NEW a \in {0, 1}, NEW b \in {0, 1}, NEW c \in {0, 1},
         NEW d \in {0, 1}, NEW e \in {0, 1}, NEW f \in {0, 1},
         NEW g \in {0, 1}, NEW h \in {0, 1}
  PROVE  LET n == FromBits(a, b, c, d, e, f, g, h) IN
         /\ n \in Bytes
         /\ Bit(n, 1) = a /\ Bit(n, 2) = b /\ Bit(n, 4) = c /\ Bit(n, 8) = d
         /\ Bit(n, 16) = e /\ Bit(n, 32) = f /\ Bit(n, 64) = g
         /\ Bit(n, 128) = h
<1> DEFINE n == FromBits(a, b, c, d, e, f, g, h)
<1>1. n \in Bytes
  BY DEF FromBits, Bytes
<1>2. Bit(n, 1) = a
  BY DEF FromBits, Bit
<1>3. Bit(n, 2) = b
  BY DEF FromBits, Bit
<1>4. Bit(n, 4) = c
  BY DEF FromBits, Bit
<1>5. Bit(n, 8) = d
  BY DEF FromBits, Bit
<1>6. Bit(n, 16) = e
  BY DEF FromBits, Bit
<1>7. Bit(n, 32) = f
  BY DEF FromBits, Bit
<1>8. Bit(n, 64) = g
  BY DEF FromBits, Bit
<1>9. Bit(n, 128) = h
  BY DEF FromBits, Bit
<1> HIDE DEF n
<1> QED
  BY <1>1, <1>2, <1>3, <1>4, <1>5, <1>6, <1>7, <1>8, <1>9 DEF n

\* The exclusive or is a byte, and its bits are those of the sum modulo 2.
LEMMA XorBits ==
  ASSUME NEW m \in Int, NEW n \in Int
  PROVE  /\ Xor(m, n) \in Bytes
         /\ \A w \in Weights : Bit(Xor(m, n), w) = (Bit(m, w) + Bit(n, w)) % 2
<1> DEFINE s(w) == (Bit(m, w) + Bit(n, w)) % 2
<1>1. \A w \in Weights : s(w) \in {0, 1}
  BY BitIsBit
<1>2. Xor(m, n) = FromBits(s(1), s(2), s(4), s(8), s(16), s(32), s(64), s(128))
  <2>1. Xor(m, n) = 1 * s(1) + 2 * s(2) + 4 * s(4) + 8 * s(8) + 16 * s(16)
                      + 32 * s(32) + 64 * s(64) + 128 * s(128)
    BY DEF Xor
  <2> HIDE DEF s
  <2> QED BY <1>1, <2>1 DEF FromBits, Weights
<1> HIDE DEF s
<1>3. /\ Xor(m, n) \in Bytes
      /\ Bit(Xor(m, n), 1) = s(1) /\ Bit(Xor(m, n), 2) = s(2)
      /\ Bit(Xor(m, n), 4) = s(4) /\ Bit(Xor(m, n), 8) = s(8)
      /\ Bit(Xor(m, n), 16) = s(16) /\ Bit(Xor(m, n), 32) = s(32)
      /\ Bit(Xor(m, n), 64) = s(64) /\ Bit(Xor(m, n), 128) = s(128)
  BY <1>1, <1>2, BitsOfSum DEF Weights
<1>4. \A w \in Weights : Bit(Xor(m, n), w) = s(w)
  BY <1>3 DEF Weights
<1> QED BY <1>3, <1>4 DEF s

\* Two bytes with the same bits are the same.
LEMMA SameBits ==
  ASSUME NEW m \in Bytes, NEW n \in Bytes,
         \A w \in Weights : Bit(m, w) = Bit(n, w)
  PROVE  m = n
<1>1. /\ Bit(m, 1) = Bit(n, 1) /\ Bit(m, 2) = Bit(n, 2)
      /\ Bit(m, 4) = Bit(n, 4) /\ Bit(m, 8) = Bit(n, 8)
      /\ Bit(m, 16) = Bit(n, 16) /\ Bit(m, 32) = Bit(n, 32)
      /\ Bit(m, 64) = Bit(n, 64) /\ Bit(m, 128) = Bit(n, 128)
  BY DEF Weights
<1> QED BY <1>1, ByteIsBits, Zenon

\* The exclusive or with the same number tells two bytes apart.
LEMMA XorInjective ==
  ASSUME NEW m \in Bytes, NEW n \in Bytes, NEW k \in Int, Xor(m, k) = Xor(n, k)
  PROVE  m = n
<1>1. m \in Int /\ n \in Int
  BY DEF Bytes
<1>2. ASSUME NEW w \in Weights
      PROVE  Bit(m, w) = Bit(n, w)
  <2>1. (Bit(m, w) + Bit(k, w)) % 2 = (Bit(n, w) + Bit(k, w)) % 2
    BY <1>1, XorBits
  <2>2. Bit(m, w) \in {0, 1} /\ Bit(n, w) \in {0, 1} /\ Bit(k, w) \in {0, 1}
    BY <1>1, BitIsBit
  <2> QED BY <2>1, <2>2
<1> QED BY <1>2, SameBits

-----------------------------------------------------------------------------
(***************************************************************************)
(* Sound.                                                                  *)
(***************************************************************************)
SumOf(s) == s.duration + s.rate + (s.channels * 13)

\* Two sounds of any parameters have the same FAST fingerprint exactly when
\* their durations, rates and thirteenfold numbers of channels have the same
\* sum modulo 256 (processAudioFast).
THEOREM AudioFastForgets ==
  ASSUME NEW one, NEW two,
         AudioReadable(one), one.duration \in Int, one.rate \in Int,
         one.channels \in Int,
         AudioReadable(two), two.duration \in Int, two.rate \in Int,
         two.channels \in Int
  PROVE  (ProcessAudioFast(one) = ProcessAudioFast(two))
           <=> (SumOf(one) % 256 = SumOf(two) % 256)
<1> DEFINE a == SumOf(one)
           b == SumOf(two)
           Byte(s, i) == Xor((s + (i * 7)) % 256, ((i * 11) + 3) % 256)
<1>1. a \in Int /\ b \in Int
  BY DEF SumOf
<1>2. AlgorithmFor("audio", "FAST").size = 32
  BY DEF AlgorithmFor, Algorithms
<1>3. /\ \A i : AudioFastByte(one, i) = Byte(a, i)
      /\ \A i : AudioFastByte(two, i) = Byte(b, i)
  BY DEF AudioFastByte, SumOf
<1>4. /\ ProcessAudioFast(one)
           = Artifact("chromaprint", [i \in 1..32 |-> Byte(a, i - 1)])
      /\ ProcessAudioFast(two)
           = Artifact("chromaprint", [i \in 1..32 |-> Byte(b, i - 1)])
  <2> HIDE DEF a, b, Byte
  <2> QED BY <1>2, <1>3 DEF ProcessAudioFast
<1> HIDE DEF a, b
<1>5. ASSUME a % 256 = b % 256
      PROVE  ProcessAudioFast(one) = ProcessAudioFast(two)
  <2>1. ASSUME NEW i \in 1..32
        PROVE  (a + ((i - 1) * 7)) % 256 = (b + ((i - 1) * 7)) % 256
    BY <1>1, <1>5
  <2>2. [i \in 1..32 |-> Byte(a, i - 1)] = [i \in 1..32 |-> Byte(b, i - 1)]
    BY <2>1
  <2> HIDE DEF Byte
  <2> QED BY <1>4, <2>2
<1>6. ASSUME ProcessAudioFast(one) = ProcessAudioFast(two)
      PROVE  a % 256 = b % 256
  <2>1. [i \in 1..32 |-> Byte(a, i - 1)] = [i \in 1..32 |-> Byte(b, i - 1)]
    <3> HIDE DEF Byte
    <3> QED BY <1>4, <1>6 DEF Artifact
  <2>2. Byte(a, 0) = Byte(b, 0)
    <3>1. Byte(a, 1 - 1) = Byte(b, 1 - 1)
      <4> HIDE DEF Byte
      <4> QED BY <2>1
    <3> QED BY <3>1
  <2>3. Xor(a % 256, 3) = Xor(b % 256, 3)
    <3>1. /\ (a + (0 * 7)) % 256 = a % 256 /\ (b + (0 * 7)) % 256 = b % 256
          /\ ((0 * 11) + 3) % 256 = 3
      BY <1>1
    <3> QED BY <2>2, <3>1
  <2>4. a % 256 \in Bytes /\ b % 256 \in Bytes
    BY <1>1 DEF Bytes
  <2> QED BY <2>3, <2>4, XorInjective
<1> QED BY <1>5, <1>6 DEF a, b

\* AudioFastSums: as AudioFastForgets, of the sounds picked.
THEOREM AudioFastSumsAlways == Spec => []AudioFastSums
<1>1. Init => AudioFastSums
  BY NotPicked DEF AudioFastSums
<1>2. AudioFastSums /\ [Next]_input => AudioFastSums'
  <2>1. ASSUME Next, input'.kind = "sounds"
        PROVE  AudioFastSums'
    <3>1. PICK one \in Sounds, two \in Sounds :
            input' = [kind |-> "sounds", one |-> one, two |-> two]
      BY <2>1, PickedByKind DEF PickSounds
    <3>2. input'.one = one /\ input'.two = two
      BY <3>1
    <3>3. ASSUME NEW s \in Sounds
          PROVE  /\ AudioReadable(s) /\ s.duration \in Int /\ s.rate \in Int
                 /\ s.channels \in Int
      BY BoundsAssumption DEF Sounds, Sound, AudioReadable, Passes
    <3>4. ASSUME NEW s \in Sounds
          PROVE  s.duration + s.rate + (13 * s.channels) = SumOf(s)
      BY <3>3 DEF SumOf
    <3>5. (ProcessAudioFast(one) = ProcessAudioFast(two))
            <=> (SumOf(one) % 256 = SumOf(two) % 256)
      BY <3>3, AudioFastForgets
    <3> QED BY <3>2, <3>4, <3>5 DEF AudioFastSums
  <2>2. ASSUME input'.kind # "sounds"
        PROVE  AudioFastSums'
    BY <2>2 DEF AudioFastSums
  <2>3. ASSUME AudioFastSums, UNCHANGED input
        PROVE  AudioFastSums'
    BY <2>3 DEF AudioFastSums
  <2> QED BY <2>1, <2>2, <2>3
<1> QED BY <1>1, <1>2, PTL DEF Spec

-----------------------------------------------------------------------------
(***************************************************************************)
(* Perceptual hashes.                                                      *)
(***************************************************************************)
\* Among some elements of a finite sequence of numbers one is the largest.
LEMMA LargestAmong ==
  ASSUME NEW n \in Nat, NEW f \in [1..n -> Int], NEW B \in SUBSET (1..n), B # {}
  PROVE  \E i \in B : \A j \in B : f[j] <= f[i]
<1> DEFINE Among(k) == {j \in B : j <= k}
           P(k) == Among(k) # {} =>
                     \E i \in Among(k) : \A j \in Among(k) : f[j] <= f[i]
           S == {k \in Nat : P(k)}
<1>0. /\ \A j \in B : j \in 1..n /\ j \in Int /\ 1 <= j /\ j <= n
      /\ \A j \in B : f[j] \in Int
  OBVIOUS
<1>1. 0 \in S
  <2>1. P(0)
    <3>1. \A j \in B : ~(j <= 0)
      BY <1>0
    <3>2. Among(0) = {}
      BY <3>1, Zenon
    <3> QED BY <3>2, Zenon
  <2> HIDE DEF P
  <2> QED BY <2>1
<1>2. ASSUME NEW k \in 1..n, k - 1 \in S
      PROVE  k \in S
  <2>0. SUFFICES P(k)
    <3> HIDE DEF P
    <3> QED OBVIOUS
  <2>1. P(k - 1) /\ k \in Nat
    <3> HIDE DEF P
    <3> QED BY <1>2
  <2>2. \A j \in B : j \in Among(k) <=> j \in Among(k - 1) \/ j = k
    BY <1>0
  <2>3. CASE k \notin B
    BY <2>1, <2>2, <2>3
  <2>4. CASE k \in B /\ Among(k - 1) = {}
    <3>1. Among(k) = {k}
      BY <2>2, <2>4
    <3>2. f[k] <= f[k]
      OBVIOUS
    <3> QED BY <2>1, <3>1, <3>2
  <2>5. CASE k \in B /\ Among(k - 1) # {}
    <3>1. PICK i \in Among(k - 1) : \A j \in Among(k - 1) : f[j] <= f[i]
      BY <2>1, <2>5
    <3>2. i \in Among(k) /\ k \in Among(k) /\ f[i] \in Int /\ f[k] \in Int
      BY <1>0, <2>2, <2>5
    <3>3. \A j \in B : f[j] \in Int
      BY <1>0
    <3>4. CASE f[k] <= f[i]
      <4>1. \A j \in Among(k) : f[j] <= f[i]
        BY <2>2, <3>1, <3>4
      <4> QED BY <2>1, <3>2, <4>1
    <3>5. CASE f[i] < f[k]
      <4>1. \A j \in Among(k) : f[j] <= f[k]
        BY <2>2, <3>1, <3>2, <3>3, <3>5
      <4> QED BY <2>1, <3>2, <4>1
    <3>6. f[k] <= f[i] \/ f[i] < f[k]
      BY <3>2
    <3> HIDE DEF P
    <3> QED BY <3>4, <3>5, <3>6
  <2> QED BY <2>3, <2>4, <2>5
<1> HIDE DEF S
<1>3. \A k \in 0..n : k \in S
  BY <1>1, <1>2, RoundInduction
<1>4. P(n)
  <2> HIDE DEF P
  <2> QED BY <1>3 DEF S
<1>5. Among(n) = B
  BY <1>0
<1> QED BY <1>4, <1>5

\* The places of the coefficients up to v and below it.
AtMost(c, v) == {i \in DOMAIN c : c[i] <= v}
Under(c, v) == {i \in DOMAIN c : c[i] < v}

LEMMA PlacesFinite ==
  ASSUME NEW n \in Nat, NEW c \in [1..n -> Int], NEW v
  PROVE  /\ IsFiniteSet(AtMost(c, v)) /\ IsFiniteSet(Under(c, v))
         /\ Cardinality(AtMost(c, v)) \in Nat
         /\ Cardinality(Under(c, v)) \in Nat
         /\ Cardinality(AtMost(c, v)) <= n
<1>1. IsFiniteSet(1..n) /\ Cardinality(1..n) = n
  BY FS_Interval
<1>2. AtMost(c, v) \in SUBSET (1..n) /\ Under(c, v) \in SUBSET (1..n)
  BY DEF AtMost, Under
<1>3. IsFiniteSet(AtMost(c, v)) /\ Cardinality(AtMost(c, v)) <= n
  BY <1>1, <1>2, FS_Subset
<1>4. IsFiniteSet(Under(c, v))
  BY <1>1, <1>2, FS_Subset
<1> QED BY <1>3, <1>4, FS_CardinalityType

LEMMA MedianExists ==
  ASSUME NEW n \in Nat \ {0}, NEW c \in [1..n -> Int], NEW m \in 0..(n - 1)
  PROVE  \E v \in Range(c) : /\ Cardinality(Under(c, v)) <= m
                             /\ m < Cardinality(AtMost(c, v))
<1>0. DOMAIN c = 1..n /\ n \in Nat /\ m \in Nat
      /\ \A i \in 1..n : c[i] \in Range(c) /\ c[i] \in Int
  BY DEF Range
<1> DEFINE Count(v) == Cardinality(AtMost(c, v))
           Large == {v \in Range(c) : m < Count(v)}
           T == {Count(v) : v \in Large}
<1>1. Large # {}
  <2>1. PICK i \in 1..n : \A j \in 1..n : c[j] <= c[i]
    <3>1. 1..n \in SUBSET (1..n) /\ 1..n # {}
      OBVIOUS
    <3> QED BY <1>0, <3>1, LargestAmong
  <2>2. AtMost(c, c[i]) = 1..n
    BY <1>0, <2>1 DEF AtMost
  <2>3. Count(c[i]) = n
    BY <1>0, <2>2, FS_Interval
  <2> QED BY <1>0, <2>3
<1>2. PICK v \in Large : \A u \in Large : Count(v) <= Count(u)
  <2>1. T \in SUBSET Nat /\ T # {}
    BY <1>0, <1>1, PlacesFinite
  <2> HIDE DEF T
  <2>2. PICK x \in T : \A y \in T : x <= y
    BY <2>1, LeastElement
  <2> USE DEF T
  <2> QED BY <2>2
<1>3. PICK k \in 1..n : c[k] = v
  BY <1>0, <1>2 DEF Range
<1>4. v \in Range(c) /\ v \in Int /\ m < Count(v)
  BY <1>0, <1>2, <1>3
<1>5. ASSUME m < Cardinality(Under(c, v))
      PROVE  FALSE
  <2>1. Under(c, v) # {} /\ Under(c, v) \in SUBSET (1..n)
    <3>1. Cardinality({}) = 0 /\ m >= 0
      BY FS_EmptySet
    <3>2. Under(c, v) # {}
      <4>1. ~(m < 0)
        BY <1>0
      <4> QED BY <1>5, <3>1, <4>1, Zenon
    <3> QED BY <1>0, <3>2 DEF Under
  <2>2. PICK i \in Under(c, v) : \A j \in Under(c, v) : c[j] <= c[i]
    BY <1>0, <2>1, LargestAmong
  <2>3. i \in 1..n /\ c[i] < v /\ c[i] \in Int
    BY <1>0, <2>2 DEF Under
  <2>4. AtMost(c, c[i]) = Under(c, v)
    <3>1. ASSUME NEW j \in 1..n
          PROVE  c[j] <= c[i] <=> c[j] < v
      <4>1. c[j] < v => c[j] <= c[i]
        BY <1>0, <2>2 DEF Under
      <4> QED BY <1>0, <1>4, <2>3, <4>1
    <3> QED BY <1>0, <3>1 DEF AtMost, Under
  <2>5. c[i] \in Large
    BY <1>0, <1>5, <2>3, <2>4
  <2>6. Count(v) <= Cardinality(Under(c, v))
    BY <1>2, <2>4, <2>5
  <2>7. Under(c, v) \in SUBSET AtMost(c, v)
    BY <1>0, <1>4 DEF Under, AtMost
  <2>8. /\ Cardinality(Under(c, v)) <= Count(v)
        /\ Count(v) = Cardinality(Under(c, v)) => AtMost(c, v) = Under(c, v)
    BY <1>0, <2>7, PlacesFinite, FS_Subset
  <2>9. AtMost(c, v) = Under(c, v)
    BY <1>0, <2>6, <2>8, PlacesFinite
  <2>10. k \in AtMost(c, v) /\ k \notin Under(c, v)
    BY <1>0, <1>3, <1>4 DEF AtMost, Under
  <2> QED BY <2>9, <2>10
<1>6. Cardinality(Under(c, v)) \in Nat
  BY <1>0, PlacesFinite
<1> QED BY <1>0, <1>4, <1>5, <1>6

LEMMA MedianIs ==
  ASSUME NEW n \in Nat \ {0}, NEW c \in [1..n -> Int]
  PROVE  /\ Median(c) \in Range(c)
         /\ Median(c) \in Int
         /\ Cardinality(Under(c, Median(c))) <= n \div 2
         /\ n \div 2 < Cardinality(AtMost(c, Median(c)))
<1>1. Len(c) = n
  <2>1. c \in Seq(Int)
    OBVIOUS
  <2> QED BY <2>1
<1>2. n \div 2 \in 0..(n - 1)
  OBVIOUS
<1>3. Median(c) = CHOOSE v \in Range(c) :
                    /\ Cardinality(Under(c, v)) <= n \div 2
                    /\ n \div 2 < Cardinality(AtMost(c, v))
  BY <1>1 DEF Median, Under, AtMost
<1>4. \E v \in Range(c) : /\ Cardinality(Under(c, v)) <= n \div 2
                          /\ n \div 2 < Cardinality(AtMost(c, v))
  BY <1>2, MedianExists
<1>5. /\ Median(c) \in Range(c)
      /\ Cardinality(Under(c, Median(c))) <= n \div 2
      /\ n \div 2 < Cardinality(AtMost(c, Median(c)))
  BY <1>3, <1>4
<1>6. \A v \in Range(c) : v \in Int
  BY DEF Range
<1> QED BY <1>5, <1>6

\* The bits of a picture of any coefficients: fewer than half are set, one
\* less than the upper half when no two coefficients are equal, and none
\* when all are equal (processImageBalanced).
THEOREM PHashBits ==
  ASSUME NEW n \in Nat \ {0}, NEW c \in [1..n -> Int]
  PROVE  LET set == {i \in DOMAIN c : PHash(c)[i]}
             distinct == Cardinality(Range(c))
         IN  /\ 2 * Cardinality(set) < Len(c)
             /\ distinct = Len(c) =>
                  Cardinality(set) = Len(c) - (Len(c) \div 2) - 1
             /\ distinct = 1 => set = {}
<1> DEFINE set == {i \in DOMAIN c : PHash(c)[i]}
           distinct == Cardinality(Range(c))
           med == Median(c)
           m == n \div 2
           A == AtMost(c, med)
           U == Under(c, med)
<1>1. Len(c) = n /\ DOMAIN c = 1..n
  <2>1. c \in Seq(Int)
    OBVIOUS
  <2> QED BY <2>1
<1>2. /\ med \in Range(c) /\ med \in Int
      /\ Cardinality(U) <= m /\ m < Cardinality(A)
  BY MedianIs
<1>3. /\ IsFiniteSet(A) /\ IsFiniteSet(U)
      /\ Cardinality(A) \in Nat /\ Cardinality(U) \in Nat
      /\ Cardinality(A) <= n
  BY PlacesFinite
<1>4. \A i \in 1..n : PHash(c)[i] <=> c[i] > med
  BY <1>1 DEF PHash
<1> HIDE DEF med
<1>5. set = (1..n) \ A
  BY <1>1, <1>2, <1>4 DEF AtMost
<1>6. Cardinality(set) = n - Cardinality(A)
  <2>1. (1..n) \cap A = A
    BY <1>1 DEF AtMost
  <2>2. IsFiniteSet(1..n) /\ Cardinality(1..n) = n
    BY FS_Interval
  <2> HIDE DEF set, A
  <2>3. Cardinality((1..n) \ A) = Cardinality(1..n) - Cardinality((1..n) \cap A)
    BY <2>2, FS_Difference
  <2> QED BY <1>5, <2>1, <2>2, <2>3
<1>7. PICK k \in 1..n : c[k] = med
  BY <1>1, <1>2 DEF Range
<1>8. ASSUME distinct = n
      PROVE  Cardinality(A) = Cardinality(U) + 1
  <2>1. c \in Injection(1..n, Range(c))
    <3>1. c \in Surjection(1..n, Range(c))
      BY <1>1 DEF Surjection, Range
    <3>2. IsFiniteSet(1..n) /\ Cardinality(1..n) = n
      BY FS_Interval
    <3> QED BY <1>8, <3>1, <3>2, FS_Surjection
  <2>2. \A i \in 1..n : c[i] = med => i = k
    BY <1>1, <1>7, <2>1 DEF Injection, IsInjective
  <2>3. A \ {k} = U /\ k \in A
    BY <1>1, <1>2, <1>7, <2>2 DEF AtMost, Under
  <2> HIDE DEF A, U
  <2> QED BY <1>3, <2>3, FS_RemoveElement
<1>9. ASSUME distinct = 1
      PROVE  set = {}
  <2>1. IsFiniteSet(Range(c))
    <3>1. c \in Surjection(1..n, Range(c))
      BY <1>1 DEF Surjection, Range
    <3>2. IsFiniteSet(1..n)
      BY FS_Interval
    <3> QED BY <3>1, <3>2, FS_Surjection
  <2>2. PICK x : Range(c) = {x}
    BY <1>9, <2>1, FS_Singleton
  <2>3. \A i \in 1..n : c[i] = med
    BY <1>1, <1>2, <2>2 DEF Range
  <2>4. A = 1..n
    BY <1>1, <1>2, <2>3 DEF AtMost
  <2> QED BY <1>5, <2>4
<1> HIDE DEF set, A, U, distinct
<1>10. 2 * Cardinality(set) < n
  BY <1>2, <1>3, <1>6
<1>11. distinct = n => Cardinality(set) = n - m - 1
  BY <1>2, <1>3, <1>6, <1>8
<1> QED BY <1>1, <1>9, <1>10, <1>11 DEF set, distinct

\* PHashSplits: as PHashBits, of the coefficients picked.
THEOREM PHashSplitsAlways == Spec => []PHashSplits
<1>1. Init => PHashSplits
  BY NotPicked DEF PHashSplits
<1>2. PHashSplits /\ [Next]_input => PHashSplits'
  <2>1. ASSUME Next, input'.kind = "coefficients"
        PROVE  PHashSplits'
    <3>1. PICK n \in 1..MaxLength :
            \E c \in [1..n -> Coefficients] :
              input' = [kind |-> "coefficients", coefficients |-> c]
      BY <2>1, PickedByKind DEF PickCoefficients
    <3>2. PICK c \in [1..n -> Coefficients] :
            input' = [kind |-> "coefficients", coefficients |-> c]
      BY <3>1
    <3>3. n \in Nat \ {0} /\ c \in [1..n -> Int]
      BY BoundsAssumption
    <3>4. input'.coefficients = c
      BY <3>2
    <3> QED BY <3>3, <3>4, PHashBits DEF PHashSplits
  <2>2. ASSUME input'.kind # "coefficients"
        PROVE  PHashSplits'
    BY <2>2 DEF PHashSplits
  <2>3. ASSUME PHashSplits, UNCHANGED input
        PROVE  PHashSplits'
    BY <2>3 DEF PHashSplits
  <2> QED BY <2>1, <2>2, <2>3
<1> QED BY <1>1, <1>2, PTL DEF Spec

-----------------------------------------------------------------------------
(***************************************************************************)
(* What the fingerprint of a video remembers of its frames.                *)
(***************************************************************************)
\* How many of the first n numbers are in K.
Upto(K, n) == {k \in 1..n : k \in K}
CountUpto(K, n) == Cardinality(Upto(K, n))

LEMMA CountStep ==
  ASSUME NEW K
  PROVE  /\ CountUpto(K, 0) = 0
         /\ \A n \in Nat : CountUpto(K, n) \in Nat
         /\ \A n \in Nat \ {0} :
              CountUpto(K, n) = CountUpto(K, n - 1) + (IF n \in K THEN 1 ELSE 0)
<1>1. ASSUME NEW n \in Nat
      PROVE  IsFiniteSet(Upto(K, n)) /\ CountUpto(K, n) \in Nat
  <2>1. IsFiniteSet(1..n) /\ Upto(K, n) \in SUBSET (1..n)
    BY FS_Interval DEF Upto
  <2> QED BY <2>1, FS_Subset, FS_CardinalityType DEF CountUpto
<1>2. CountUpto(K, 0) = 0
  <2>1. Upto(K, 0) = {}
    BY DEF Upto
  <2> QED BY <2>1, FS_EmptySet DEF CountUpto
<1>3. ASSUME NEW n \in Nat \ {0}
      PROVE  CountUpto(K, n) = CountUpto(K, n - 1) + (IF n \in K THEN 1 ELSE 0)
  <2>1. n - 1 \in Nat /\ n \notin Upto(K, n - 1)
    BY DEF Upto
  <2>2. CASE n \in K
    <3>1. Upto(K, n) = Upto(K, n - 1) \cup {n}
      BY <2>2 DEF Upto
    <3> QED BY <1>1, <2>1, <2>2, <3>1, FS_AddElement DEF CountUpto
  <2>3. CASE n \notin K
    <3>1. Upto(K, n) = Upto(K, n - 1)
      BY <2>3 DEF Upto
    <3>2. CountUpto(K, n - 1) \in Nat
      BY <1>1, <2>1
    <3> QED BY <2>3, <3>1, <3>2 DEF CountUpto
  <2> QED BY <2>2, <2>3
<1> QED BY <1>1, <1>2, <1>3

\* The frames' hashes are sequences of bytes.
AreHashes(hashes, N) ==
  \A n \in 1..N : /\ Len(hashes[n]) \in Nat
                  /\ \A i \in 1..Len(hashes[n]) : hashes[n][i] \in Bytes

\* The frames of which a bit is set.
FramesWith(hashes, N, i, w) ==
  {n \in 1..N : i <= Len(hashes[n]) /\ Bit(hashes[n][i], w) = 1}

\* The i-th byte, after N frames.
ByteRounds(hashes, N, i) ==
  LET byte[n \in 0..N] ==
        IF n = 0 THEN 0 ELSE Combined(byte[n - 1], hashes[n], i)
  IN  byte[N]

LEMMA BytesRun ==
  ASSUME NEW N \in Nat, NEW start \in Bytes,
         NEW round \in [1..N -> [Bytes -> Bytes]]
  PROVE  \E g \in [0..N -> Bytes] :
           g[0] = start /\ \A n \in 1..N : g[n] = round[n][g[n - 1]]
BY LoopExists

\* One more frame turns over the bits that its hash has.
LEMMA CombinedBits ==
  ASSUME NEW byte \in Bytes, NEW hash, Len(hash) \in Nat,
         \A j \in 1..Len(hash) : hash[j] \in Bytes,
         NEW i \in Nat \ {0}
  PROVE  /\ Combined(byte, hash, i) \in Bytes
         /\ \A w \in Weights :
              Bit(Combined(byte, hash, i), w) =
                (Bit(byte, w) + (IF i <= Len(hash) /\ Bit(hash[i], w) = 1
                                 THEN 1 ELSE 0)) % 2
<1>1. byte \in Int /\ \A w \in Weights : Bit(byte, w) \in {0, 1}
  BY BitIsBit DEF Bytes
<1>2. CASE i <= Len(hash)
  <2>1. hash[i] \in Int
    <3>1. i \in 1..Len(hash)
      BY <1>2
    <3>2. hash[i] \in Bytes
      BY <3>1
    <3>3. Bytes \subseteq Int
      BY DEF Bytes
    <3> QED BY <3>2, <3>3, Zenon
  <2>2. Combined(byte, hash, i) = Xor(byte, hash[i])
    BY <1>2 DEF Combined
  <2>3. /\ Xor(byte, hash[i]) \in Bytes
        /\ \A w \in Weights : Bit(Xor(byte, hash[i]), w)
                                = (Bit(byte, w) + Bit(hash[i], w)) % 2
    BY <1>1, <2>1, XorBits
  <2>4. \A w \in Weights : Bit(hash[i], w) \in {0, 1}
    BY <2>1, BitIsBit
  <2>5. \A w \in Weights :
          Bit(hash[i], w) = IF Bit(hash[i], w) = 1 THEN 1 ELSE 0
    BY <2>4
  <2> QED BY <1>2, <2>2, <2>3, <2>5
<1>3. CASE ~(i <= Len(hash))
  <2>1. Combined(byte, hash, i) = byte
    BY <1>3 DEF Combined
  <2>2. \A w \in Weights : Bit(byte, w) = (Bit(byte, w) + 0) % 2
    BY <1>1
  <2> QED BY <1>3, <2>1, <2>2
<1> QED BY <1>2, <1>3

\* A bit of the combined bytes is set exactly when an odd number of frames
\* has it: for any number of frames and any hashes (combineFrameHashes).
THEOREM FingerprintBits ==
  ASSUME NEW N \in Nat, NEW hashes, AreHashes(hashes, N), NEW i \in Nat \ {0}
  PROVE  /\ ByteRounds(hashes, N, i) \in Bytes
         /\ \A w \in Weights :
              Bit(ByteRounds(hashes, N, i), w)
                = CountUpto(FramesWith(hashes, N, i, w), N) % 2
<1> DEFINE byte[n \in 0..N] ==
             IF n = 0 THEN 0 ELSE Combined(byte[n - 1], hashes[n], i)
           round == [n \in 1..N |-> [b \in Bytes |-> Combined(b, hashes[n], i)]]
           F(w) == FramesWith(hashes, N, i, w)
<1>0. 0 \in Bytes
  BY DEF Bytes
<1>1. ASSUME NEW b \in Bytes, NEW n \in 1..N
      PROVE  /\ Combined(b, hashes[n], i) \in Bytes
             /\ \A w \in Weights :
                  Bit(Combined(b, hashes[n], i), w) =
                    (Bit(b, w) + (IF n \in F(w) THEN 1 ELSE 0)) % 2
  <2>1. /\ Len(hashes[n]) \in Nat
        /\ \A j \in 1..Len(hashes[n]) : hashes[n][j] \in Bytes
    BY DEF AreHashes
  <2>2. /\ Combined(b, hashes[n], i) \in Bytes
        /\ \A w \in Weights :
             Bit(Combined(b, hashes[n], i), w) =
               (Bit(b, w) + (IF i <= Len(hashes[n]) /\ Bit(hashes[n][i], w) = 1
                             THEN 1 ELSE 0)) % 2
    BY <2>1, CombinedBits
  <2>3. \A w \in Weights :
          n \in F(w) <=> i <= Len(hashes[n]) /\ Bit(hashes[n][i], w) = 1
    BY DEF FramesWith
  <2> HIDE DEF F, byte, round
  <2> QED BY <2>2, <2>3
<1>2. round \in [1..N -> [Bytes -> Bytes]]
  BY <1>1
<1>3. \E g \in [0..N -> Bytes] :
        g[0] = 0 /\ \A n \in 1..N : g[n] = round[n][g[n - 1]]
  <2> HIDE DEF round, byte
  <2> QED BY <1>0, <1>2, BytesRun
<1>4. PICK g \in [0..N -> Bytes] :
        g[0] = 0 /\ \A n \in 1..N : g[n] = round[n][g[n - 1]]
  BY <1>3
<1>5. ASSUME NEW n \in 1..N
      PROVE  g[n] = Combined(g[n - 1], hashes[n], i)
  <2>1. g[n - 1] \in Bytes
    OBVIOUS
  <2>2. round[n][g[n - 1]] = Combined(g[n - 1], hashes[n], i)
    BY <2>1
  <2> HIDE DEF round
  <2> QED BY <1>4, <2>2
<1>6. g = [n \in 0..N |->
             IF n = 0 THEN 0 ELSE Combined(g[n - 1], hashes[n], i)]
  <2> HIDE DEF round, byte
  <2> QED BY <1>4, <1>5
<1>7. byte = [n \in 0..N |->
                IF n = 0 THEN 0 ELSE Combined(byte[n - 1], hashes[n], i)]
  <2> HIDE DEF round
  <2> QED BY <1>6
<1> HIDE DEF round, byte
<1>8. /\ byte[0] = 0
      /\ \A n \in 1..N : byte[n] = Combined(byte[n - 1], hashes[n], i)
  BY <1>7
<1> HIDE DEF F
<1> DEFINE Is(n) == /\ byte[n] \in Bytes
                    /\ \A w \in Weights :
                         Bit(byte[n], w) = CountUpto(F(w), n) % 2
           S == {n \in Nat : Is(n)}
<1>9. 0 \in S
  <2>1. \A w \in Weights : Bit(0, w) = 0
    BY DEF Bit, Weights
  <2>2. \A w : CountUpto(F(w), 0) = 0
    BY CountStep
  <2>3. Is(0)
    BY <1>0, <1>8, <2>1, <2>2
  <2> HIDE DEF Is
  <2> QED BY <2>3
<1>10. ASSUME NEW n \in 1..N, n - 1 \in S
       PROVE  n \in S
  <2>0. n - 1 \in Nat /\ n \in Nat \ {0} /\ n \in Nat
    OBVIOUS
  <2>1. Is(n - 1)
    <3> HIDE DEF Is
    <3> QED BY <1>10
  <2>2. byte[n] = Combined(byte[n - 1], hashes[n], i)
    BY <1>8
  <2>3. byte[n] \in Bytes
    BY <1>1, <2>1, <2>2
  <2>4. ASSUME NEW w \in Weights
        PROVE  Bit(byte[n], w) = CountUpto(F(w), n) % 2
    <3>1. Bit(byte[n - 1], w) = CountUpto(F(w), n - 1) % 2
      BY <2>1
    <3>2. Bit(byte[n], w)
            = (Bit(byte[n - 1], w) + (IF n \in F(w) THEN 1 ELSE 0)) % 2
      BY <1>1, <2>1, <2>2
    <3>3. /\ CountUpto(F(w), n - 1) \in Nat
          /\ CountUpto(F(w), n)
               = CountUpto(F(w), n - 1) + (IF n \in F(w) THEN 1 ELSE 0)
      BY <2>0, CountStep
    <3> HIDE DEF Is, S
    <3> QED BY <3>1, <3>2, <3>3
  <2>5. Is(n)
    BY <2>3, <2>4
  <2> HIDE DEF Is
  <2> QED BY <2>0, <2>5
<1>11. \A n \in 0..N : n \in S
  <2> HIDE DEF S
  <2> QED BY <1>9, <1>10, RoundInduction
<1>12. Is(N)
  BY <1>11
<1>13. ByteRounds(hashes, N, i) = byte[N]
  BY DEF byte, ByteRounds
<1> QED BY <1>12, <1>13 DEF F

LEMMA CountByteInt ==
  ASSUME NEW N \in Nat, NEW i \in Nat \ {0}
  PROVE  CountByte(N, i) \in Int
<1>1. CASE N > 1 /\ i <= 4
  <2>1. i \in {1, 2, 3, 4}
    BY <1>1
  <2>2. <<1, 256, 65536, 16777216>>[i] \in {1, 256, 65536, 16777216}
    BY <2>1
  <2> DEFINE d == <<1, 256, 65536, 16777216>>[i]
  <2>3. CountByte(N, i) = (N \div d) % 256
    BY <1>1 DEF CountByte
  <2> HIDE DEF d
  <2>4. d \in {1, 256, 65536, 16777216}
    BY <2>2 DEF d
  <2> QED BY <2>3, <2>4
<1>2. CASE ~(N > 1 /\ i <= 4)
  BY <1>2 DEF CountByte
<1> QED BY <1>1, <1>2

LEMMA FingerprintBytes ==
  ASSUME NEW hashes, NEW N \in Nat, Len(hashes) = N, NEW size \in Nat
  PROVE  CombineFrameHashes(hashes, size) =
           [i \in 1..size |-> Xor(ByteRounds(hashes, N, i), CountByte(N, i))]
BY DEF CombineFrameHashes, ByteRounds

\* The parities that a fingerprint of this size remembers of a video.
SameParities(one, two, N, size) ==
  \A i \in 1..size : \A w \in Weights :
    CountUpto(FramesWith(one, N, i, w), N) % 2
      = CountUpto(FramesWith(two, N, i, w), N) % 2

\* Two videos of which equally many frames were taken have the same
\* fingerprint exactly when every bit is set in an odd number of frames of
\* both or of neither: the fingerprint forgets the order of the frames and
\* every pair of equal ones (combineFrameHashes).
THEOREM FingerprintIsParity ==
  ASSUME NEW one, NEW two, NEW N \in Nat, Len(one) = N, Len(two) = N,
         AreHashes(one, N), AreHashes(two, N), NEW size \in Nat
  PROVE  (CombineFrameHashes(one, size) = CombineFrameHashes(two, size))
           <=> SameParities(one, two, N, size)
<1> DEFINE a(i) == ByteRounds(one, N, i)
           b(i) == ByteRounds(two, N, i)
           c(i) == CountByte(N, i)
<1>1. /\ CombineFrameHashes(one, size) = [i \in 1..size |-> Xor(a(i), c(i))]
      /\ CombineFrameHashes(two, size) = [i \in 1..size |-> Xor(b(i), c(i))]
  BY FingerprintBytes
<1>2. ASSUME NEW i \in 1..size
      PROVE  /\ a(i) \in Bytes /\ b(i) \in Bytes /\ c(i) \in Int
             /\ \A w \in Weights :
                  /\ Bit(a(i), w) = CountUpto(FramesWith(one, N, i, w), N) % 2
                  /\ Bit(b(i), w) = CountUpto(FramesWith(two, N, i, w), N) % 2
  <2>1. i \in Nat \ {0}
    OBVIOUS
  <2>2. c(i) \in Int
    BY <2>1, CountByteInt
  <2>3. /\ a(i) \in Bytes
        /\ \A w \in Weights :
             Bit(a(i), w) = CountUpto(FramesWith(one, N, i, w), N) % 2
    BY <2>1, FingerprintBits
  <2>4. /\ b(i) \in Bytes
        /\ \A w \in Weights :
             Bit(b(i), w) = CountUpto(FramesWith(two, N, i, w), N) % 2
    BY <2>1, FingerprintBits
  <2> QED BY <2>2, <2>3, <2>4
<1> HIDE DEF a, b, c
<1>3. ASSUME CombineFrameHashes(one, size) = CombineFrameHashes(two, size),
             NEW i \in 1..size
      PROVE  a(i) = b(i)
  <2>1. Xor(a(i), c(i)) = Xor(b(i), c(i))
    BY <1>1, <1>3
  <2> QED BY <1>2, <2>1, XorInjective
<1>4. ASSUME SameParities(one, two, N, size), NEW i \in 1..size
      PROVE  a(i) = b(i)
  <2>1. \A w \in Weights : Bit(a(i), w) = Bit(b(i), w)
    BY <1>2, <1>4 DEF SameParities
  <2> QED BY <1>2, <2>1, SameBits
<1>5. (\A i \in 1..size : a(i) = b(i)) =>
        CombineFrameHashes(one, size) = CombineFrameHashes(two, size)
  BY <1>1
<1>6. (\A i \in 1..size : a(i) = b(i)) => SameParities(one, two, N, size)
  <2>1. SUFFICES ASSUME \A i \in 1..size : a(i) = b(i),
                        NEW i \in 1..size, NEW w \in Weights
                 PROVE  CountUpto(FramesWith(one, N, i, w), N) % 2
                          = CountUpto(FramesWith(two, N, i, w), N) % 2
    BY DEF SameParities
  <2> QED BY <1>2, <2>1
<1> QED BY <1>3, <1>4, <1>5, <1>6

\* The frames with one of some hashes, of which there are three.
FramesOf(hashes, N, T) == {n \in 1..N : hashes[n] \in T}

LEMMA CountUnion ==
  ASSUME NEW N \in Nat, NEW K, NEW L, K \cap L = {}
  PROVE  CountUpto(K \cup L, N) = CountUpto(K, N) + CountUpto(L, N)
<1>1. /\ IsFiniteSet(Upto(K, N)) /\ IsFiniteSet(Upto(L, N))
      /\ Cardinality(Upto(K, N)) \in Nat /\ Cardinality(Upto(L, N)) \in Nat
  <2>1. IsFiniteSet(1..N)
    BY FS_Interval
  <2>2. Upto(K, N) \in SUBSET (1..N) /\ Upto(L, N) \in SUBSET (1..N)
    BY DEF Upto
  <2> QED BY <2>1, <2>2, FS_Subset, FS_CardinalityType
<1>2. /\ Upto(K \cup L, N) = Upto(K, N) \cup Upto(L, N)
      /\ Upto(K, N) \cap Upto(L, N) = {}
  BY DEF Upto
<1>3. Cardinality(Upto(K, N) \cup Upto(L, N))
        = Cardinality(Upto(K, N)) + Cardinality(Upto(L, N))
          - Cardinality(Upto(K, N) \cap Upto(L, N))
  BY <1>1, FS_Union
<1>4. Cardinality({}) = 0
  BY FS_EmptySet
<1>5. Cardinality(Upto(K, N) \cup Upto(L, N))
        = Cardinality(Upto(K, N)) + Cardinality(Upto(L, N))
  <2>1. Cardinality(Upto(K, N) \cap Upto(L, N)) = 0
    BY <1>2, <1>4, Zenon
  <2> QED BY <1>1, <1>3, <2>1
<1> QED BY <1>2, <1>5, Zenon DEF CountUpto

SameParity(a, b) == a % 2 = b % 2

LEMMA Parities ==
  ASSUME NEW a \in Int, NEW b \in Int, NEW c \in Int, NEW d \in Int,
         SameParity(c, d)
  PROVE  SameParity(a + c, b + d) <=> SameParity(a, b)
BY DEF SameParity

First == <<1, 2>>
Second == <<3, 0>>
Third == <<255, 7>>

LEMMA ThreeHashes ==
  /\ Hashes = {First, Second, Third}
  /\ First # Second /\ First # Third /\ Second # Third
  /\ \A h \in Hashes : Len(h) = 2 /\ h[1] \in Bytes /\ h[2] \in Bytes
BY DEF Hashes, First, Second, Third, Bytes

LEMMA CountOfThree ==
  ASSUME NEW N \in Nat, NEW hashes \in [1..N -> Hashes], NEW T
  PROVE  CountUpto(FramesOf(hashes, N, T), N) =
           (IF First \in T THEN CountUpto(FramesOf(hashes, N, {First}), N) ELSE 0)
           + (IF Second \in T
              THEN CountUpto(FramesOf(hashes, N, {Second}), N) ELSE 0)
           + (IF Third \in T
              THEN CountUpto(FramesOf(hashes, N, {Third}), N) ELSE 0)
<1> DEFINE C(U) == CountUpto(FramesOf(hashes, N, U), N)
<1>1. ASSUME NEW U, NEW h \in Hashes
      PROVE  C(U \cup {h}) = C(U) + (IF h \in U THEN 0 ELSE C({h}))
  <2>1. CASE h \in U
    <3>1. U \cup {h} = U
      BY <2>1
    <3>2. C(U) \in Nat
      BY CountStep
    <3> HIDE DEF C
    <3>3. C(U \cup {h}) = C(U)
      BY <3>1, Zenon
    <3> QED BY <2>1, <3>2, <3>3
  <2>2. CASE h \notin U
    <3>1. FramesOf(hashes, N, U \cup {h})
            = FramesOf(hashes, N, U) \cup FramesOf(hashes, N, {h})
      BY DEF FramesOf
    <3>2. FramesOf(hashes, N, U) \cap FramesOf(hashes, N, {h}) = {}
      BY <2>2 DEF FramesOf
    <3> QED BY <2>2, <3>1, <3>2, CountUnion
  <2> QED BY <2>1, <2>2
<1>2. C({}) = 0
  <2>1. Upto(FramesOf(hashes, N, {}), N) = {}
    BY DEF FramesOf, Upto
  <2> QED BY <2>1, FS_EmptySet DEF CountUpto
<1> DEFINE A == IF First \in T THEN {First} ELSE {}
           B == IF Second \in T THEN A \cup {Second} ELSE A
           D == IF Third \in T THEN B \cup {Third} ELSE B
<1>3. FramesOf(hashes, N, T) = FramesOf(hashes, N, D)
  BY ThreeHashes DEF FramesOf
<1>4. Second \notin A /\ Third \notin B
  BY ThreeHashes
<1>5. C({First}) \in Nat /\ C({Second}) \in Nat /\ C({Third}) \in Nat
  BY CountStep
<1>6. C(T) = C(D)
  BY <1>3
<1> HIDE DEF C
<1>7. C(A) = IF First \in T THEN C({First}) ELSE 0
  BY <1>2
<1> HIDE DEF A
<1>8. C(B) = C(A) + (IF Second \in T THEN C({Second}) ELSE 0)
  <2>1. C(A) \in Nat
    BY <1>5, <1>7
  <2>2. Second \in T => C(A \cup {Second}) = C(A) + C({Second})
    BY <1>1, <1>4, ThreeHashes
  <2>3. CASE Second \in T
    BY <2>2, <2>3
  <2>4. CASE Second \notin T
    BY <2>1, <2>4
  <2> QED BY <2>3, <2>4
<1> HIDE DEF B
<1>9. C(D) = C(B) + (IF Third \in T THEN C({Third}) ELSE 0)
  <2>1. C(B) \in Nat
    BY <1>5, <1>7, <1>8
  <2>2. Third \in T => C(B \cup {Third}) = C(B) + C({Third})
    BY <1>1, <1>4, ThreeHashes
  <2>3. CASE Third \in T
    BY <2>2, <2>3
  <2>4. CASE Third \notin T
    BY <2>1, <2>4
  <2> QED BY <2>3, <2>4
<1> QED BY <1>6, <1>7, <1>8, <1>9 DEF C

\* The parity of each of the three among the hashes.
LEMMA ThreeParities ==
  ASSUME NEW N \in Nat, NEW one \in [1..N -> Hashes], NEW two \in [1..N -> Hashes]
  PROVE  SameParities(one, two, N, 3)
           <=> \A h \in Hashes :
                 CountUpto(FramesOf(one, N, {h}), N) % 2
                   = CountUpto(FramesOf(two, N, {h}), N) % 2
<1> DEFINE Having(i, w) == {h \in Hashes : i <= Len(h) /\ Bit(h[i], w) = 1}
           C(hashes, T) == CountUpto(FramesOf(hashes, N, T), N)
<1>1. ASSUME NEW i, NEW w
      PROVE  /\ FramesWith(one, N, i, w) = FramesOf(one, N, Having(i, w))
             /\ FramesWith(two, N, i, w) = FramesOf(two, N, Having(i, w))
  BY DEF FramesWith, FramesOf
<1>2. /\ Having(1, 2) = {Second, Third}
      /\ Having(2, 2) = {First, Third}
      /\ Having(2, 4) = {Third}
  <2>1. /\ Bit(1, 2) = 0 /\ Bit(3, 2) = 1 /\ Bit(255, 2) = 1
        /\ Bit(2, 2) = 1 /\ Bit(0, 2) = 0 /\ Bit(7, 2) = 1
        /\ Bit(2, 4) = 0 /\ Bit(0, 4) = 0 /\ Bit(7, 4) = 1
    BY DEF Bit
  <2> QED BY <2>1, ThreeHashes DEF First, Second, Third
<1> HIDE DEF Having
<1>3. ASSUME NEW T
      PROVE  /\ C(one, T) = (IF First \in T THEN C(one, {First}) ELSE 0)
                            + (IF Second \in T THEN C(one, {Second}) ELSE 0)
                            + (IF Third \in T THEN C(one, {Third}) ELSE 0)
             /\ C(two, T) = (IF First \in T THEN C(two, {First}) ELSE 0)
                            + (IF Second \in T THEN C(two, {Second}) ELSE 0)
                            + (IF Third \in T THEN C(two, {Third}) ELSE 0)
  BY CountOfThree
<1>4. \A T : C(one, T) \in Nat /\ C(two, T) \in Nat
  BY CountStep
<1>5. SameParities(one, two, N, 3)
        <=> \A i \in 1..3 : \A w \in Weights :
              C(one, Having(i, w)) % 2 = C(two, Having(i, w)) % 2
  BY <1>1 DEF SameParities
<1> HIDE DEF C
<1>6. ASSUME \A h \in Hashes : C(one, {h}) % 2 = C(two, {h}) % 2, NEW T
      PROVE  C(one, T) % 2 = C(two, T) % 2
  <2>1. /\ C(one, {First}) % 2 = C(two, {First}) % 2
        /\ C(one, {Second}) % 2 = C(two, {Second}) % 2
        /\ C(one, {Third}) % 2 = C(two, {Third}) % 2
    BY <1>6, ThreeHashes
  <2> DEFINE a(h) == IF h \in T THEN C(one, {h}) ELSE 0
             b(h) == IF h \in T THEN C(two, {h}) ELSE 0
  <2>2. ASSUME NEW h \in Hashes
        PROVE  a(h) \in Int /\ b(h) \in Int /\ a(h) % 2 = b(h) % 2
    BY <1>4, <1>6
  <2>3. /\ C(one, T) = a(First) + a(Second) + a(Third)
        /\ C(two, T) = b(First) + b(Second) + b(Third)
    BY <1>3
  <2> HIDE DEF a, b
  <2>4. (a(First) + a(Second)) % 2 = (b(First) + b(Second)) % 2
    <3>1. /\ a(First) \in Int /\ b(First) \in Int
          /\ a(Second) \in Int /\ b(Second) \in Int
          /\ SameParity(a(First), b(First)) /\ SameParity(a(Second), b(Second))
      BY <2>2, ThreeHashes DEF SameParity
    <3>2. SameParity(a(First) + a(Second), b(First) + b(Second))
      BY <3>1, Parities
    <3> QED BY <3>2 DEF SameParity
  <2>5. /\ a(First) + a(Second) \in Int /\ b(First) + b(Second) \in Int
        /\ a(Third) \in Int /\ b(Third) \in Int /\ a(Third) % 2 = b(Third) % 2
    BY <2>2, ThreeHashes
  <2> DEFINE x == a(First) + a(Second)
             y == b(First) + b(Second)
  <2>6. x % 2 = y % 2 /\ x \in Int /\ y \in Int
    BY <2>4, <2>5
  <2> HIDE DEF x, y
  <2>7. (x + a(Third)) % 2 = (y + b(Third)) % 2
    <3>1. SameParity(a(Third), b(Third)) /\ SameParity(x, y)
      BY <2>5, <2>6 DEF SameParity
    <3>2. SameParity(x + a(Third), y + b(Third))
      BY <2>5, <2>6, <3>1, Parities
    <3> QED BY <3>2 DEF SameParity
  <2> QED BY <2>3, <2>7 DEF x, y
<1>7. ASSUME \A i \in 1..3 : \A w \in Weights :
               C(one, Having(i, w)) % 2 = C(two, Having(i, w)) % 2
      PROVE  \A h \in Hashes : C(one, {h}) % 2 = C(two, {h}) % 2
  <2>1. /\ C(one, Having(1, 2)) % 2 = C(two, Having(1, 2)) % 2
        /\ C(one, Having(2, 2)) % 2 = C(two, Having(2, 2)) % 2
        /\ C(one, Having(2, 4)) % 2 = C(two, Having(2, 4)) % 2
    BY <1>7 DEF Weights
  <2>2. /\ C(one, {Second, Third}) % 2 = C(two, {Second, Third}) % 2
        /\ C(one, {First, Third}) % 2 = C(two, {First, Third}) % 2
        /\ C(one, {Third}) % 2 = C(two, {Third}) % 2
    BY <1>2, <2>1
  <2>3. /\ C(one, {Second, Third}) = C(one, {Second}) + C(one, {Third})
        /\ C(two, {Second, Third}) = C(two, {Second}) + C(two, {Third})
        /\ C(one, {First, Third}) = C(one, {First}) + C(one, {Third})
        /\ C(two, {First, Third}) = C(two, {First}) + C(two, {Third})
    <3>1. /\ First \notin {Second, Third} /\ Second \in {Second, Third}
          /\ Third \in {Second, Third} /\ First \in {First, Third}
          /\ Second \notin {First, Third} /\ Third \in {First, Third}
      BY ThreeHashes
    <3>2. /\ C(one, {Second, Third}) = 0 + C(one, {Second}) + C(one, {Third})
          /\ C(two, {Second, Third}) = 0 + C(two, {Second}) + C(two, {Third})
          /\ C(one, {First, Third}) = C(one, {First}) + 0 + C(one, {Third})
          /\ C(two, {First, Third}) = C(two, {First}) + 0 + C(two, {Third})
      BY <1>3, <3>1, Zenon
    <3>3. /\ C(one, {First}) \in Nat /\ C(two, {First}) \in Nat
          /\ C(one, {Second}) \in Nat /\ C(two, {Second}) \in Nat
          /\ C(one, {Third}) \in Nat /\ C(two, {Third}) \in Nat
      BY <1>4
    <3> QED BY <3>2, <3>3
  <2>5. /\ C(one, {First}) \in Int /\ C(two, {First}) \in Int
        /\ C(one, {Second}) \in Int /\ C(two, {Second}) \in Int
        /\ C(one, {Third}) \in Int /\ C(two, {Third}) \in Int
    BY <1>4
  <2>6. /\ (C(one, {Second}) + C(one, {Third})) % 2
             = (C(two, {Second}) + C(two, {Third})) % 2
        /\ (C(one, {First}) + C(one, {Third})) % 2
             = (C(two, {First}) + C(two, {Third})) % 2
    BY <2>2, <2>3
  <2>4. /\ C(one, {Second}) % 2 = C(two, {Second}) % 2
        /\ C(one, {First}) % 2 = C(two, {First}) % 2
    <3>1. /\ SameParity(C(one, {Third}), C(two, {Third}))
          /\ SameParity(C(one, {Second}) + C(one, {Third}),
                        C(two, {Second}) + C(two, {Third}))
          /\ SameParity(C(one, {First}) + C(one, {Third}),
                        C(two, {First}) + C(two, {Third}))
      BY <2>2, <2>6 DEF SameParity
    <3>2. SameParity(C(one, {Second}), C(two, {Second}))
      BY <2>5, <3>1, Parities
    <3>3. SameParity(C(one, {First}), C(two, {First}))
      BY <2>5, <3>1, Parities
    <3> QED BY <3>2, <3>3 DEF SameParity
  <2> QED BY <2>2, <2>4, ThreeHashes
<1> QED BY <1>5, <1>6, <1>7 DEF C

\* FingerprintForgets: as FingerprintIsParity, of videos whose frames have
\* one of three hashes that no exclusive or confuses: the fingerprints are
\* equal exactly when the same hashes occur an odd number of times.
THEOREM FingerprintForgetsAlways == Spec => []FingerprintForgets
<1>1. Init => FingerprintForgets
  BY NotPicked DEF FingerprintForgets
<1>2. FingerprintForgets /\ [Next]_input => FingerprintForgets'
  <2>1. ASSUME Next, input'.kind = "fingerprints"
        PROVE  FingerprintForgets'
    <3>1. PICK N \in 1..MaxFrames :
            \E one, two \in [1..N -> Hashes] :
              input' = [kind |-> "fingerprints", one |-> one, two |-> two]
      BY <2>1, PickedByKind DEF PickFingerprints
    <3>2. PICK one \in [1..N -> Hashes], two \in [1..N -> Hashes] :
            input' = [kind |-> "fingerprints", one |-> one, two |-> two]
      BY <3>1
    <3>3. N \in Nat
      BY BoundsAssumption
    <3>4. ASSUME NEW hashes \in [1..N -> Hashes]
          PROVE  Len(hashes) = N /\ DOMAIN hashes = 1..N /\ AreHashes(hashes, N)
      <4>1. hashes \in Seq(Hashes)
        BY <3>3
      <4>2. Len(hashes) = N
        BY <3>3, <4>1
      <4>3. ASSUME NEW n \in 1..N
            PROVE  /\ Len(hashes[n]) \in Nat
                   /\ \A i \in 1..Len(hashes[n]) : hashes[n][i] \in Bytes
        <5>1. hashes[n] \in Hashes
          OBVIOUS
        <5>2. /\ Len(hashes[n]) = 2
              /\ hashes[n][1] \in Bytes /\ hashes[n][2] \in Bytes
          BY <5>1, ThreeHashes
        <5> QED BY <5>2
      <4> QED BY <4>2, <4>3 DEF AreHashes
    <3> DEFINE Odd(hashes) ==
                 {h \in Hashes :
                    Cardinality({i \in DOMAIN hashes : hashes[i] = h}) % 2 = 1}
    <3>5. ASSUME NEW hashes \in [1..N -> Hashes], NEW h
          PROVE  Cardinality({i \in DOMAIN hashes : hashes[i] = h})
                   = CountUpto(FramesOf(hashes, N, {h}), N)
      <4>1. {i \in DOMAIN hashes : hashes[i] = h}
              = Upto(FramesOf(hashes, N, {h}), N)
        BY DEF Upto, FramesOf
      <4> QED BY <4>1 DEF CountUpto
    <3>6. (Odd(one) = Odd(two))
            <=> \A h \in Hashes :
                  CountUpto(FramesOf(one, N, {h}), N) % 2
                    = CountUpto(FramesOf(two, N, {h}), N) % 2
      <4>1. \A h : /\ CountUpto(FramesOf(one, N, {h}), N) \in Nat
                   /\ CountUpto(FramesOf(two, N, {h}), N) \in Nat
        BY <3>3, CountStep
      <4>2. \A h \in Hashes :
              /\ h \in Odd(one)
                   <=> CountUpto(FramesOf(one, N, {h}), N) % 2 = 1
              /\ h \in Odd(two)
                   <=> CountUpto(FramesOf(two, N, {h}), N) % 2 = 1
        BY <3>5
      <4>3. Odd(one) \subseteq Hashes /\ Odd(two) \subseteq Hashes
        OBVIOUS
      <4>4. Odd(one) = Odd(two)
              <=> \A h \in Hashes : h \in Odd(one) <=> h \in Odd(two)
        <5> HIDE DEF Odd
        <5> QED BY <4>3
      <4>5. ASSUME NEW h \in Hashes
            PROVE  (h \in Odd(one) <=> h \in Odd(two))
                     <=> CountUpto(FramesOf(one, N, {h}), N) % 2
                           = CountUpto(FramesOf(two, N, {h}), N) % 2
        <5> HIDE DEF Odd
        <5>1. \A x \in Nat : x % 2 \in {0, 1}
          OBVIOUS
        <5>2. /\ CountUpto(FramesOf(one, N, {h}), N) % 2 \in {0, 1}
              /\ CountUpto(FramesOf(two, N, {h}), N) % 2 \in {0, 1}
          BY <4>1, <5>1
        <5> QED BY <4>2, <5>2
      <4> HIDE DEF Odd
      <4> QED BY <4>4, <4>5
    <3>7. (CombineFrameHashes(one, 3) = CombineFrameHashes(two, 3))
            <=> (Odd(one) = Odd(two))
      <4> HIDE DEF Odd
      <4>1. (CombineFrameHashes(one, 3) = CombineFrameHashes(two, 3))
              <=> SameParities(one, two, N, 3)
        BY <3>3, <3>4, FingerprintIsParity
      <4> QED BY <3>3, <3>6, <4>1, ThreeParities
    <3>8. input'.one = one /\ input'.two = two
      BY <3>2
    <3> QED BY <3>7, <3>8 DEF FingerprintForgets
  <2>2. ASSUME input'.kind # "fingerprints"
        PROVE  FingerprintForgets'
    BY <2>2 DEF FingerprintForgets
  <2>3. ASSUME FingerprintForgets, UNCHANGED input
        PROVE  FingerprintForgets'
    BY <2>3 DEF FingerprintForgets
  <2> QED BY <2>1, <2>2, <2>3
<1> QED BY <1>1, <1>2, PTL DEF Spec

-----------------------------------------------------------------------------
(***************************************************************************)
(* Which frames are taken after one seek.                                  *)
(***************************************************************************)
Where == Nat \X Nat

\* taken are the first perSkip usable places among those seen, in order.
FirstUsable(perSkip, usable, seen, taken) ==
  /\ taken \in Seq(Where)
  /\ Len(taken) <= perSkip
  /\ \A k \in 1..Len(taken) : taken[k] \in usable /\ taken[k] \in seen
  /\ \A j, k \in 1..Len(taken) : j < k => Earlier(taken[j], taken[k])
  /\ \A a \in usable : a \in seen =>
       \/ \E k \in 1..Len(taken) : taken[k] = a
       \/ Len(taken) = perSkip /\ \A k \in 1..Len(taken) : Earlier(taken[k], a)

LEMMA TakeOne ==
  ASSUME NEW perSkip \in Nat, NEW usable, NEW seen, NEW taken,
         FirstUsable(perSkip, usable, seen, taken), Len(taken) < perSkip,
         NEW a \in Where, a \in usable, \A b \in seen : Earlier(b, a)
  PROVE  FirstUsable(perSkip, usable, seen \cup {a}, Append(taken, a))
<1> DEFINE more == Append(taken, a)
<1>0. /\ taken \in Seq(Where) /\ Len(taken) \in Nat
      /\ \A k \in 1..Len(taken) : taken[k] \in usable /\ taken[k] \in seen
      /\ \A j, k \in 1..Len(taken) : j < k => Earlier(taken[j], taken[k])
      /\ \A b \in usable : b \in seen => \E k \in 1..Len(taken) : taken[k] = b
  BY DEF FirstUsable
<1>1. /\ more \in Seq(Where) /\ Len(more) = Len(taken) + 1
      /\ \A k \in 1..Len(taken) : more[k] = taken[k]
      /\ more[Len(taken) + 1] = a
  BY <1>0
<1>2. \A k \in 1..Len(more) : k \in 1..Len(taken) \/ k = Len(taken) + 1
  BY <1>0, <1>1
<1>3. \A k \in 1..Len(taken) : k \in 1..Len(more) /\ k < Len(taken) + 1
  BY <1>0, <1>1
<1>4. Len(taken) + 1 \in 1..Len(more) /\ Len(more) <= perSkip
  BY <1>0, <1>1
<1> HIDE DEF more
<1>5. \A k \in 1..Len(more) : more[k] \in usable /\ more[k] \in seen \cup {a}
  BY <1>0, <1>1, <1>2
<1>6. ASSUME NEW j \in 1..Len(more), NEW k \in 1..Len(more), j < k
      PROVE  Earlier(more[j], more[k])
  <2>1. j \in 1..Len(taken)
    BY <1>0, <1>1, <1>6
  <2>2. CASE k \in 1..Len(taken)
    BY <1>0, <1>1, <1>6, <2>1, <2>2
  <2>3. CASE k = Len(taken) + 1
    BY <1>0, <1>1, <2>1, <2>3
  <2> QED BY <1>2, <2>2, <2>3
<1>7. ASSUME NEW b \in usable, b \in seen \cup {a}
      PROVE  \E k \in 1..Len(more) : more[k] = b
  BY <1>0, <1>1, <1>3, <1>4, <1>7
<1> QED BY <1>1, <1>4, <1>5, <1>6, <1>7 DEF FirstUsable, more

LEMMA LeaveOut ==
  ASSUME NEW perSkip \in Nat, NEW usable, NEW seen, NEW taken,
         FirstUsable(perSkip, usable, seen, taken),
         NEW more, \A b \in seen : \A a \in more : Earlier(b, a),
         Len(taken) = perSkip \/ \A a \in more : a \notin usable
  PROVE  FirstUsable(perSkip, usable, seen \cup more, taken)
<1>1. ASSUME NEW a \in usable, a \in more
      PROVE  Len(taken) = perSkip /\ \A k \in 1..Len(taken) : Earlier(taken[k], a)
  BY <1>1 DEF FirstUsable
<1> QED BY <1>1 DEF FirstUsable

\* What is read after a seek: packets of frames whose hashes tell their
\* places, where an error is the last thing that comes out of a packet.
IsReading(packets, N) ==
  /\ N \in Nat /\ Len(packets) = N /\ DOMAIN packets = 1..N
  /\ \A p \in 1..N :
       /\ Len(packets[p]) \in Nat /\ DOMAIN packets[p] = 1..Len(packets[p])
       /\ \A f \in 1..Len(packets[p]) :
            /\ packets[p][f].corrupt \in BOOLEAN
            /\ packets[p][f].hash = <<p, f>>
            /\ packets[p][f].kind = "error" => f = Len(packets[p])

\* The places up to the f-th frame of packet p.
Seen(packets, p, f) ==
  {a \in Places(packets) : a[1] < p \/ (a[1] = p /\ a[2] <= f)}

LEMMA PlaceIs ==
  ASSUME NEW N, NEW packets, IsReading(packets, N)
  PROVE  /\ \A p \in 1..N : \A f \in 1..Len(packets[p]) :
              packets[p][f].kind # "error" <=> <<p, f>> \in Places(packets)
         /\ \A a \in Places(packets) :
              /\ a \in Where /\ a = <<a[1], a[2]>>
              /\ a[1] \in 1..N /\ a[2] \in 1..Len(packets[a[1]])
              /\ packets[a[1]][a[2]].kind # "error"
<1>1. ASSUME NEW a \in Places(packets)
      PROVE  /\ a = <<a[1], a[2]>>
             /\ a[1] \in 1..N /\ a[2] \in 1..Len(packets[a[1]])
             /\ packets[a[1]][a[2]].kind # "error"
  BY DEF Places, IsReading
<1>2. \A a \in Places(packets) : a \in Where
  <2>1. ASSUME NEW a \in Places(packets) PROVE a \in Where
    <3>1. N \in Nat /\ Len(packets[a[1]]) \in Nat
      BY <1>1 DEF IsReading
    <3>2. a[1] \in Nat /\ a[2] \in Nat
      BY <1>1, <3>1
    <3> QED BY <1>1, <3>2 DEF Where
  <2> QED BY <2>1
<1>3. ASSUME NEW p \in 1..N, NEW f \in 1..Len(packets[p])
      PROVE  packets[p][f].kind # "error" <=> <<p, f>> \in Places(packets)
  <2>1. <<p, f>> \in UNION {{q} \X DOMAIN packets[q] : q \in DOMAIN packets}
    BY DEF IsReading
  <2> QED BY <2>1 DEF Places
<1> QED BY <1>1, <1>2, <1>3

LEMMA PlacesOfReading ==
  ASSUME NEW N, NEW packets, IsReading(packets, N)
  PROVE  IsFiniteSet(Places(packets))
<1>0. N \in Nat /\ \A p \in 1..N : Len(packets[p]) \in Nat
  BY DEF IsReading
<1>1. CASE N = 0
  <2>1. Places(packets) = {}
    BY <1>1, PlaceIs
  <2> QED BY <2>1, FS_EmptySet
<1>2. CASE N # 0
  <2> DEFINE length == [p \in 1..N |-> Len(packets[p])]
  <2>1. length \in [1..N -> Int] /\ 1..N # {}
    BY <1>0, <1>2
  <2>2. PICK m \in 1..N : \A p \in 1..N : length[p] <= length[m]
    <3> HIDE DEF length
    <3> QED BY <1>0, <2>1, LargestAmong
  <2>3. Len(packets[m]) \in Int /\ \A p \in 1..N : Len(packets[p]) <= Len(packets[m])
    BY <1>0, <2>2
  <2>4. IsFiniteSet((1..N) \X (1..Len(packets[m])))
    <3>1. N \in Int /\ 1 \in Int
      BY <1>0
    <3>2. IsFiniteSet(1..N) /\ IsFiniteSet(1..Len(packets[m]))
      BY <2>3, <3>1, FS_Interval
    <3> QED BY <3>2, FS_Product
  <2>5. Places(packets) \in SUBSET ((1..N) \X (1..Len(packets[m])))
    <3>1. ASSUME NEW a \in Places(packets)
          PROVE  a \in (1..N) \X (1..Len(packets[m]))
      <4>1. a = <<a[1], a[2]>> /\ a[1] \in 1..N /\ a[2] \in 1..Len(packets[a[1]])
        BY PlaceIs
      <4>2. a[2] \in 1..Len(packets[m])
        BY <1>0, <2>3, <4>1
      <4> QED BY <4>1, <4>2
    <3> QED BY <3>1
  <2> QED BY <2>4, <2>5, FS_Subset
<1> QED BY <1>1, <1>2

LEMMA SeenGrows ==
  ASSUME NEW N, NEW packets, IsReading(packets, N),
         NEW p \in 1..N, NEW f \in 1..Len(packets[p])
  PROVE  /\ packets[p][f].kind = "error" =>
              Seen(packets, p, f) = Seen(packets, p, f - 1)
         /\ packets[p][f].kind # "error" =>
              /\ <<p, f>> \in Where /\ <<p, f>> \in Places(packets)
              /\ <<p, f>> \notin Seen(packets, p, f - 1)
              /\ Seen(packets, p, f) = Seen(packets, p, f - 1) \cup {<<p, f>>}
         /\ \A b \in Seen(packets, p, f - 1) : Earlier(b, <<p, f>>)
<1>1. p \in Nat /\ f \in Nat
  BY DEF IsReading
<1>2. ASSUME NEW a \in Places(packets)
      PROVE  /\ a[1] \in Nat /\ a[2] \in Nat /\ a = <<a[1], a[2]>>
             /\ packets[a[1]][a[2]].kind # "error"
             /\ a[2] <= f <=> a[2] <= f - 1 \/ a[2] = f
  <2>1. /\ a \in Where /\ a = <<a[1], a[2]>>
        /\ packets[a[1]][a[2]].kind # "error"
    BY PlaceIs
  <2>2. a[1] \in Nat /\ a[2] \in Nat
    BY <2>1 DEF Where
  <2> QED BY <1>1, <2>1, <2>2
<1>3. ASSUME packets[p][f].kind = "error"
      PROVE  Seen(packets, p, f) = Seen(packets, p, f - 1)
  <2>1. \A a \in Places(packets) : ~(a[1] = p /\ a[2] = f)
    BY <1>2, <1>3
  <2> QED BY <1>2, <2>1 DEF Seen
<1>4. ASSUME packets[p][f].kind # "error"
      PROVE  /\ <<p, f>> \in Places(packets)
             /\ Seen(packets, p, f) = Seen(packets, p, f - 1) \cup {<<p, f>>}
  <2>1. <<p, f>> \in Places(packets)
    BY <1>4, PlaceIs
  <2>2. \A a \in Places(packets) : a[1] = p /\ a[2] = f <=> a = <<p, f>>
    BY <1>2
  <2>3. ASSUME NEW a
        PROVE  a \in Seen(packets, p, f)
                 <=> a \in Seen(packets, p, f - 1) \cup {<<p, f>>}
    <3>1. CASE a \in Places(packets)
      BY <1>2, <2>2, <3>1 DEF Seen
    <3>2. CASE a \notin Places(packets)
      BY <2>1, <3>2 DEF Seen
    <3> QED BY <3>1, <3>2
  <2> QED BY <2>1, <2>3
<1>5. <<p, f>> \notin Seen(packets, p, f - 1)
  BY <1>1 DEF Seen
<1>6. ASSUME NEW b \in Seen(packets, p, f - 1)
      PROVE  Earlier(b, <<p, f>>)
  BY <1>1, <1>2 DEF Seen, Earlier
<1>7. <<p, f>> \in Where
  BY <1>1 DEF Where
<1> QED BY <1>3, <1>4, <1>5, <1>6, <1>7

LEMMA SeenPackets ==
  ASSUME NEW N, NEW packets, IsReading(packets, N)
  PROVE  /\ Seen(packets, 1, 0) = {}
         /\ Seen(packets, N + 1, 0) = Places(packets)
         /\ \A p \in 1..N :
              /\ Seen(packets, p + 1, 0) = Seen(packets, p, Len(packets[p]))
              /\ \A b \in Seen(packets, p, 0) :
                   \A a \in Places(packets) : a[1] = p => Earlier(b, a)
              /\ Seen(packets, p + 1, 0)
                   = Seen(packets, p, 0) \cup {a \in Places(packets) : a[1] = p}
         /\ \A p, f : /\ IsFiniteSet(Seen(packets, p, f))
                      /\ Cardinality(Seen(packets, p, f)) \in Nat
         /\ \A p, q \in Nat : p <= q =>
              Cardinality(Seen(packets, p, 0)) <= Cardinality(Seen(packets, q, 0))
<1>0. N \in Nat /\ \A p \in 1..N : p \in Nat /\ Len(packets[p]) \in Nat
  BY DEF IsReading
<1>1. ASSUME NEW a \in Places(packets)
      PROVE  /\ a[1] \in 1..N /\ a[1] \in Nat /\ a[2] \in Nat /\ a[2] >= 1
             /\ a[2] <= Len(packets[a[1]])
  BY <1>0, PlaceIs
<1>2. Seen(packets, 1, 0) = {} /\ Seen(packets, N + 1, 0) = Places(packets)
  BY <1>0, <1>1 DEF Seen
<1>3. ASSUME NEW p \in 1..N
      PROVE  /\ Seen(packets, p + 1, 0) = Seen(packets, p, Len(packets[p]))
             /\ \A b \in Seen(packets, p, 0) :
                  \A a \in Places(packets) : a[1] = p => Earlier(b, a)
             /\ Seen(packets, p + 1, 0)
                  = Seen(packets, p, 0) \cup {a \in Places(packets) : a[1] = p}
  <2>1. ASSUME NEW a \in Places(packets)
        PROVE  /\ a[1] < p + 1 \/ (a[1] = p + 1 /\ a[2] <= 0)
                    <=> a[1] < p \/ (a[1] = p /\ a[2] <= Len(packets[p]))
               /\ a[1] < p + 1 \/ (a[1] = p + 1 /\ a[2] <= 0)
                    <=> a[1] < p \/ a[1] = p
               /\ a[1] < p \/ (a[1] = p /\ a[2] <= 0) <=> a[1] < p
    BY <1>0, <1>1
  <2>2. Seen(packets, p + 1, 0) = Seen(packets, p, Len(packets[p]))
    BY <2>1 DEF Seen
  <2>3. \A b \in Seen(packets, p, 0) :
          \A a \in Places(packets) : a[1] = p => Earlier(b, a)
    BY <2>1 DEF Seen, Earlier
  <2>4. Seen(packets, p + 1, 0)
          = Seen(packets, p, 0) \cup {a \in Places(packets) : a[1] = p}
    BY <2>1 DEF Seen
  <2> QED BY <2>2, <2>3, <2>4
<1>4. ASSUME NEW p, NEW f
      PROVE  /\ IsFiniteSet(Seen(packets, p, f))
             /\ Cardinality(Seen(packets, p, f)) \in Nat
  <2>1. Seen(packets, p, f) \in SUBSET Places(packets)
    BY DEF Seen
  <2> QED BY <2>1, PlacesOfReading, FS_Subset, FS_CardinalityType
<1>5. ASSUME NEW p \in Nat, NEW q \in Nat, p <= q
      PROVE  Cardinality(Seen(packets, p, 0)) <= Cardinality(Seen(packets, q, 0))
  <2>1. Seen(packets, p, 0) \in SUBSET Seen(packets, q, 0)
    BY <1>1, <1>5 DEF Seen
  <2> QED BY <1>4, <2>1, FS_Subset
<1> QED BY <1>2, <1>3, <1>4, <1>5

LEMMA UsableIs ==
  ASSUME NEW N, NEW packets, IsReading(packets, N), NEW perSkip,
         NEW a \in Places(packets)
  PROVE  a \in Usable(perSkip, packets) <=>
           /\ ~packets[a[1]][a[2]].corrupt
           /\ \/ packets[a[1]][a[2]].kind = "key"
              \/ \E b \in Places(packets) :
                   /\ Earlier(b, a)
                   /\ packets[b[1]][b[2]].kind = "key"
                   /\ ~packets[b[1]][b[2]].corrupt
           /\ Cardinality(Seen(packets, a[1], 0)) < 3 * perSkip
<1>1. /\ a[1] \in Nat
      /\ \A b \in Places(packets) : b[1] \in Nat /\ b[2] \in Nat /\ ~(b[2] <= 0)
  <2>1. ASSUME NEW b \in Places(packets)
        PROVE  b[1] \in Nat /\ b[2] \in Nat /\ ~(b[2] <= 0)
    <3>1. b \in Where /\ b[2] \in 1..Len(packets[b[1]])
      BY PlaceIs
    <3> QED BY <3>1 DEF Where
  <2> QED BY <2>1
<1>2. {b \in Places(packets) : b[1] < a[1]} = Seen(packets, a[1], 0)
  BY <1>1 DEF Seen
<1> QED BY <1>2 DEF Usable

LEMMA EarlierEarlier ==
  ASSUME NEW a \in Where, NEW b \in Where, NEW c \in Where,
         Earlier(a, b), Earlier(b, c)
  PROVE  Earlier(a, c)
BY DEF Where, Earlier

\* A frame that is not an error is taken exactly when it is usable.
LEMMA TakenWhenUsable ==
  ASSUME NEW N, NEW packets, IsReading(packets, N), NEW perSkip \in Nat,
         NEW p \in 1..N, NEW f \in 1..Len(packets[p]), NEW taken,
         packets[p][f].kind # "error",
         FirstUsable(perSkip, Usable(perSkip, packets),
                     Seen(packets, p, f - 1), taken),
         Len(taken) < perSkip,
         Cardinality(Seen(packets, p, 0)) < 3 * perSkip
  PROVE  <<p, f>> \in Usable(perSkip, packets) <=>
           /\ packets[p][f].kind = "key" \/ taken # <<>>
           /\ ~packets[p][f].corrupt
<1> DEFINE a == <<p, f>>
           usable == Usable(perSkip, packets)
           FitKey(b) == packets[b[1]][b[2]].kind = "key"
                          /\ ~packets[b[1]][b[2]].corrupt
<1>0. a \in Places(packets) /\ a[1] = p /\ a[2] = f
  BY PlaceIs
<1>1. a \in usable <=>
        /\ ~packets[p][f].corrupt
        /\ \/ packets[p][f].kind = "key"
           \/ \E b \in Places(packets) : Earlier(b, a) /\ FitKey(b)
  BY <1>0, UsableIs
<1>2. /\ taken \in Seq(Where) /\ Len(taken) \in Nat
      /\ \A k \in 1..Len(taken) : /\ taken[k] \in usable
                                  /\ taken[k] \in Seen(packets, p, f - 1)
      /\ \A b \in usable : b \in Seen(packets, p, f - 1) =>
           \E k \in 1..Len(taken) : taken[k] = b
  BY DEF FirstUsable
<1>3. ASSUME taken # <<>>
      PROVE  \E b \in Places(packets) : Earlier(b, a) /\ FitKey(b)
  <2>1. 1 \in 1..Len(taken)
    BY <1>2, <1>3
  <2>2. PICK b \in Places(packets) :
          b \in usable /\ b \in Seen(packets, p, f - 1)
    BY <1>2, <2>1 DEF Seen
  <2>3. Earlier(b, a)
    BY <2>2, SeenGrows
  <2>4. FitKey(b) \/ \E c \in Places(packets) : Earlier(c, b) /\ FitKey(c)
    BY <2>2, UsableIs
  <2>5. \A c \in Places(packets) : c \in Where
    BY PlaceIs
  <2>6. ASSUME NEW c \in Places(packets), Earlier(c, b)
        PROVE  Earlier(c, a)
    BY <1>0, <2>3, <2>5, <2>6, EarlierEarlier
  <2> HIDE DEF FitKey, a
  <2> QED BY <2>3, <2>4, <2>6
<1>4. ASSUME NEW b \in Places(packets), Earlier(b, a), FitKey(b)
      PROVE  taken # <<>>
  <2>1. b[1] \in Nat /\ b[2] \in Nat /\ p \in Nat /\ f \in Nat
    <3>1. b \in Where /\ a \in Where
      BY <1>0, PlaceIs
    <3> QED BY <3>1 DEF Where
  <2>2. b \in Seen(packets, p, f - 1) /\ b[1] <= p
    BY <1>4, <2>1 DEF Seen, Earlier
  <2>3. Cardinality(Seen(packets, b[1], 0)) < 3 * perSkip
    <3>1. /\ Cardinality(Seen(packets, b[1], 0)) \in Nat
          /\ Cardinality(Seen(packets, p, 0)) \in Nat
          /\ Cardinality(Seen(packets, b[1], 0))
               <= Cardinality(Seen(packets, p, 0))
      BY <2>1, <2>2, SeenPackets
    <3> QED BY <3>1
  <2>4. b \in usable
    BY <1>4, <2>3, UsableIs
  <2>5. \E k \in 1..Len(taken) : taken[k] = b
    BY <1>2, <2>2, <2>4
  <2> QED BY <1>2, <2>5
<1> HIDE DEF FitKey, usable
<1> QED BY <1>1, <1>3, <1>4 DEF usable

Accs == [taken : Seq(Where), found : Nat, reading : BOOLEAN]

\* After the f-th frame of a packet that is read: as many frames were found
\* as were seen, unless enough were taken, and reading stops when enough
\* were taken or the decoder fails.
Within(perSkip, packets, p, f, acc) ==
  /\ acc \in Accs
  /\ FirstUsable(perSkip, Usable(perSkip, packets), Seen(packets, p, f),
                 acc.taken)
  /\ Len(acc.taken) < perSkip =>
       acc.found = Cardinality(Seen(packets, p, f))
  /\ acc.reading => Len(acc.taken) < perSkip
  /\ ~acc.reading /\ Len(acc.taken) < perSkip => f = Len(packets[p])

\* Before packet p: the frames of a packet that was not read are not counted.
Between(perSkip, packets, p, acc) ==
  /\ acc \in Accs
  /\ FirstUsable(perSkip, Usable(perSkip, packets), Seen(packets, p, 0),
                 acc.taken)
  /\ Len(acc.taken) < perSkip =>
       \/ acc.found = Cardinality(Seen(packets, p, 0))
       \/ /\ 3 * perSkip <= acc.found
          /\ 3 * perSkip <= Cardinality(Seen(packets, p, 0))

LEMMA ReadingStops ==
  ASSUME NEW acc \in Accs, NEW next, next = [acc EXCEPT !.reading = FALSE]
  PROVE  /\ next \in Accs
         /\ next.taken = acc.taken /\ next.found = acc.found
         /\ next.reading = FALSE
BY DEF Accs

LEMMA TakeFrameGoesOn ==
  ASSUME NEW perSkip \in Nat, NEW acc \in Accs, NEW frame,
         acc.reading, frame.kind # "error", NEW next,
         next = TakeFrame(perSkip, acc, frame),
         NEW a \in Where, frame.hash = a, NEW takes \in BOOLEAN,
         takes <=> /\ frame.kind = "key" \/ acc.taken # <<>>
                   /\ ~frame.corrupt
  PROVE  /\ next \in Accs
         /\ next.taken = IF takes THEN Append(acc.taken, a) ELSE acc.taken
         /\ next.found = acc.found + 1
         /\ next.reading <=> Len(next.taken) < perSkip
<1> DEFINE taken == IF takes THEN Append(acc.taken, a) ELSE acc.taken
<1>1. acc.taken \in Seq(Where) /\ acc.found \in Nat
  BY DEF Accs
<1>2. next = [taken |-> taken, found |-> acc.found + 1,
              reading |-> Len(taken) < perSkip]
  BY DEF TakeFrame
<1>3. taken \in Seq(Where)
  BY <1>1
<1> HIDE DEF taken
<1>4. (Len(taken) < perSkip) \in BOOLEAN /\ acc.found + 1 \in Nat
  BY <1>1
<1>5. /\ next \in Accs /\ next.taken = taken /\ next.found = acc.found + 1
      /\ next.reading <=> Len(next.taken) < perSkip
  <2> DEFINE enough == Len(taken) < perSkip
  <2>1. next = [taken |-> taken, found |-> acc.found + 1, reading |-> enough]
    BY <1>2
  <2>2. enough \in BOOLEAN
    OBVIOUS
  <2> HIDE DEF enough
  <2>3. /\ next \in Accs /\ next.taken = taken /\ next.found = acc.found + 1
        /\ next.reading = enough
    BY <1>3, <1>4, <2>1, <2>2 DEF Accs
  <2>4. next.reading <=> Len(taken) < perSkip
    BY <2>3 DEF enough
  <2> QED BY <2>3, <2>4
<1> QED BY <1>5 DEF taken

\* One more frame of a packet.
LEMMA FrameRead ==
  ASSUME NEW N, NEW packets, IsReading(packets, N), NEW perSkip \in Nat,
         NEW p \in 1..N, Cardinality(Seen(packets, p, 0)) < 3 * perSkip,
         NEW f \in 1..Len(packets[p]), NEW acc,
         Within(perSkip, packets, p, f - 1, acc),
         NEW frame, frame = packets[p][f],
         NEW next, next = TakeFrame(perSkip, acc, frame)
  PROVE  Within(perSkip, packets, p, f, next)
<1> DEFINE usable == Usable(perSkip, packets)
           before == Seen(packets, p, f - 1)
           after == Seen(packets, p, f)
           a == <<p, f>>
<1>0. /\ acc \in Accs /\ Len(acc.taken) \in Nat /\ Len(acc.taken) <= perSkip
      /\ acc.reading \in BOOLEAN /\ acc.found \in Nat
      /\ FirstUsable(perSkip, usable, before, acc.taken)
      /\ Len(acc.taken) < perSkip => acc.found = Cardinality(before)
      /\ acc.reading => Len(acc.taken) < perSkip
      /\ ~acc.reading => ~(Len(acc.taken) < perSkip)
  <2>1. Len(packets[p]) \in Nat /\ f <= Len(packets[p]) /\ f \in Nat
    BY DEF IsReading
  <2>2. /\ acc \in Accs /\ FirstUsable(perSkip, usable, before, acc.taken)
        /\ Len(acc.taken) < perSkip => acc.found = Cardinality(before)
        /\ acc.reading => Len(acc.taken) < perSkip
        /\ ~acc.reading /\ Len(acc.taken) < perSkip => f - 1 = Len(packets[p])
    BY DEF Within
  <2>3. Len(acc.taken) \in Nat /\ acc.reading \in BOOLEAN /\ acc.found \in Nat
    BY <2>2 DEF Accs
  <2>4. Len(acc.taken) <= perSkip
    BY <2>2 DEF FirstUsable
  <2> HIDE DEF usable, before
  <2> QED BY <2>1, <2>2, <2>3, <2>4
<1>1. /\ frame.hash = a /\ frame.corrupt \in BOOLEAN
      /\ frame.kind = "error" => f = Len(packets[p])
  BY DEF IsReading
<1>2. /\ frame.kind = "error" => after = before
      /\ frame.kind # "error" =>
           /\ a \in Where /\ a \in Places(packets)
           /\ a \notin before /\ after = before \cup {a}
      /\ \A b \in before : Earlier(b, a)
  BY SeenGrows
<1>3. /\ IsFiniteSet(before) /\ Cardinality(before) \in Nat
  BY SeenPackets
<1>4. frame.kind # "error" => Cardinality(after) = Cardinality(before) + 1
  <2> HIDE DEF after, before, a
  <2> QED BY <1>2, <1>3, FS_AddElement
<1>5. CASE frame.kind = "error"
  <2>1. /\ next \in Accs /\ next.taken = acc.taken /\ next.found = acc.found
        /\ next.reading = FALSE
    <3>1. acc \in Accs
      BY <1>0
    <3>2. next = [acc EXCEPT !.reading = FALSE]
      BY <1>5 DEF TakeFrame
    <3> QED BY <3>1, <3>2, ReadingStops
  <2> HIDE DEF usable, before, after
  <2>2. /\ FirstUsable(perSkip, usable, after, next.taken)
        /\ Len(next.taken) < perSkip => next.found = Cardinality(after)
        /\ f = Len(packets[p])
    BY <1>0, <1>1, <1>2, <1>5, <2>1
  <2>3. Within(perSkip, packets, p, f, next)
    BY <2>1, <2>2 DEF Within, usable, after
  <2> QED BY <2>3
<1>6. CASE frame.kind # "error" /\ ~acc.reading
  <2>1. /\ next \in Accs /\ next.taken = acc.taken /\ next.found = acc.found
        /\ next.reading = FALSE
    <3>1. acc \in Accs
      BY <1>0
    <3>2. next = [acc EXCEPT !.reading = FALSE]
      BY <1>6 DEF TakeFrame
    <3> QED BY <3>1, <3>2, ReadingStops
  <2> HIDE DEF usable, before, after, a
  <2>2. Len(acc.taken) = perSkip
    BY <1>0, <1>6
  <2>3. FirstUsable(perSkip, usable, before \cup {a}, acc.taken)
    <3>1. \A b \in before : \A c \in {a} : Earlier(b, c)
      BY <1>2
    <3> QED BY <1>0, <2>2, <3>1, LeaveOut
  <2>4. FirstUsable(perSkip, usable, after, next.taken)
    BY <1>2, <1>6, <2>1, <2>3
  <2>5. ~(Len(next.taken) < perSkip)
    BY <1>0, <1>6, <2>1
  <2>6. Within(perSkip, packets, p, f, next)
    BY <2>1, <2>4, <2>5 DEF Within, usable, after
  <2> QED BY <2>6
<1>7. CASE frame.kind # "error" /\ acc.reading
  <2> DEFINE takes == /\ frame.kind = "key" \/ acc.taken # <<>>
                      /\ ~frame.corrupt
  <2>1. /\ next \in Accs
        /\ next.taken = IF takes THEN Append(acc.taken, a) ELSE acc.taken
        /\ next.found = acc.found + 1
        /\ next.reading <=> Len(next.taken) < perSkip
    <3> HIDE DEF a
    <3>1. takes \in BOOLEAN /\ a \in Where
      BY <1>2, <1>7
    <3>2. acc \in Accs /\ frame.hash = a
      BY <1>0, <1>1
    <3>3. takes <=> (frame.kind = "key" \/ acc.taken # <<>>) /\ ~frame.corrupt
      OBVIOUS
    <3> HIDE DEF takes
    <3> QED BY <1>7, <3>1, <3>2, <3>3, TakeFrameGoesOn
  <2>2. a \in usable <=> takes
    BY <1>0, <1>7, TakenWhenUsable
  <2> HIDE DEF usable, before, after, a, takes
  <2>3. Len(acc.taken) < perSkip /\ acc.found = Cardinality(before)
    BY <1>0, <1>7
  <2>4. FirstUsable(perSkip, usable, before \cup {a}, next.taken)
    <3>1. CASE takes
      <4>1. a \in Where /\ a \in usable
        BY <1>2, <1>7, <2>2, <3>1
      <4>2. FirstUsable(perSkip, usable, before \cup {a}, Append(acc.taken, a))
        BY <1>0, <1>2, <2>3, <4>1, TakeOne
      <4> QED BY <2>1, <3>1, <4>2
    <3>2. CASE ~takes
      <4>1. \A b \in before : \A c \in {a} : Earlier(b, c)
        BY <1>2
      <4>2. \A c \in {a} : c \notin usable
        BY <2>2, <3>2
      <4>3. FirstUsable(perSkip, usable, before \cup {a}, acc.taken)
        BY <1>0, <4>1, <4>2, LeaveOut
      <4> QED BY <2>1, <3>2, <4>3
    <3> QED BY <3>1, <3>2
  <2>5. FirstUsable(perSkip, usable, after, next.taken)
    BY <1>2, <1>7, <2>4
  <2>6. next.found = Cardinality(after)
    BY <1>4, <1>7, <2>1, <2>3
  <2>7. Within(perSkip, packets, p, f, next)
    BY <2>1, <2>5, <2>6 DEF Within, usable, after
  <2> QED BY <2>7
<1> QED BY <1>0, <1>5, <1>6, <1>7

LEMMA TakeFrameType ==
  ASSUME NEW perSkip \in Nat, NEW acc \in Accs, NEW frame, frame.hash \in Where
  PROVE  TakeFrame(perSkip, acc, frame) \in Accs
<1>1. PICK next : next = TakeFrame(perSkip, acc, frame)
  OBVIOUS
<1>2. CASE ~acc.reading \/ frame.kind = "error"
  <2>1. next = [acc EXCEPT !.reading = FALSE]
    BY <1>1, <1>2 DEF TakeFrame
  <2> QED BY <1>1, <2>1, ReadingStops
<1>3. CASE acc.reading /\ frame.kind # "error"
  <2>1. PICK takes \in BOOLEAN :
          takes <=> (frame.kind = "key" \/ acc.taken # <<>>) /\ ~frame.corrupt
    OBVIOUS
  <2> QED BY <1>1, <1>3, <2>1, TakeFrameGoesOn
<1> QED BY <1>2, <1>3

LEMMA AccsRun ==
  ASSUME NEW N \in Nat, NEW start \in Accs,
         NEW round \in [1..N -> [Accs -> Accs]]
  PROVE  \E g \in [0..N -> Accs] :
           g[0] = start /\ \A n \in 1..N : g[n] = round[n][g[n - 1]]
BY LoopExists

\* A packet that is not read: it has nothing usable, or enough were taken.
LEMMA PacketSkipped ==
  ASSUME NEW N, NEW packets, IsReading(packets, N), NEW perSkip \in Nat,
         NEW p \in 1..N, NEW acc, Between(perSkip, packets, p, acc),
         ~WantsPacket(perSkip, acc)
  PROVE  Between(perSkip, packets, p + 1, acc)
<1> DEFINE usable == Usable(perSkip, packets)
           before == Seen(packets, p, 0)
           more == {a \in Places(packets) : a[1] = p}
<1>1. /\ acc \in Accs /\ FirstUsable(perSkip, usable, before, acc.taken)
      /\ Len(acc.taken) < perSkip =>
           \/ acc.found = Cardinality(before)
           \/ 3 * perSkip <= acc.found /\ 3 * perSkip <= Cardinality(before)
  BY DEF Between
<1>2. acc.found \in Nat /\ Len(acc.taken) \in Nat /\ Len(acc.taken) <= perSkip
  BY <1>1 DEF Accs, FirstUsable
<1>3. p \in Nat /\ p + 1 \in Nat /\ p <= p + 1
  BY DEF IsReading
<1>4. /\ Cardinality(before) \in Nat
      /\ Cardinality(Seen(packets, p + 1, 0)) \in Nat
      /\ Cardinality(before) <= Cardinality(Seen(packets, p + 1, 0))
  BY <1>3, SeenPackets
<1>5. /\ \A b \in before : \A a \in more : Earlier(b, a)
      /\ Seen(packets, p + 1, 0) = before \cup more
  BY SeenPackets
<1>6. Len(acc.taken) < perSkip =>
        /\ 3 * perSkip <= acc.found
        /\ 3 * perSkip <= Cardinality(before)
  BY <1>1, <1>2, <1>4 DEF WantsPacket
<1>7. Len(acc.taken) < perSkip => \A a \in more : a \notin usable
  <2>1. ASSUME NEW a \in more, Len(acc.taken) < perSkip, a \in usable
        PROVE  FALSE
    <3>1. Cardinality(before) < 3 * perSkip
      BY <2>1, UsableIs
    <3> QED BY <1>4, <1>6, <2>1, <3>1
  <2> QED BY <2>1
<1> HIDE DEF usable, before, more
<1>8. FirstUsable(perSkip, usable, before \cup more, acc.taken)
  <2>1. Len(acc.taken) = perSkip \/ \A a \in more : a \notin usable
    BY <1>2, <1>7
  <2> QED BY <1>1, <1>5, <2>1, LeaveOut
<1>9. Len(acc.taken) < perSkip =>
        /\ 3 * perSkip <= acc.found
        /\ 3 * perSkip <= Cardinality(Seen(packets, p + 1, 0))
  BY <1>4, <1>6
<1> QED BY <1>1, <1>5, <1>8, <1>9 DEF Between, usable

\* A packet that is read, frame by frame.
LEMMA PacketRead ==
  ASSUME NEW N, NEW packets, IsReading(packets, N), NEW perSkip \in Nat,
         NEW p \in 1..N, NEW acc, Between(perSkip, packets, p, acc),
         WantsPacket(perSkip, acc), NEW packet, packet = packets[p]
  PROVE  Between(perSkip, packets, p + 1, ReadPacket(perSkip, acc, packet))
<1> DEFINE after[f \in 0..Len(packet)] ==
             IF f = 0 THEN [acc EXCEPT !.reading = TRUE]
                      ELSE TakeFrame(perSkip, after[f - 1], packet[f])
           round == [f \in 1..Len(packet) |->
                       [b \in Accs |-> TakeFrame(perSkip, b, packet[f])]]
           L == Len(packet)
           first == [acc EXCEPT !.reading = TRUE]
<1>0. /\ acc \in Accs /\ acc.found \in Nat /\ Len(acc.taken) \in Nat
      /\ acc.found < 3 * perSkip /\ Len(acc.taken) < perSkip
      /\ acc.found = Cardinality(Seen(packets, p, 0))
      /\ FirstUsable(perSkip, Usable(perSkip, packets), Seen(packets, p, 0),
                     acc.taken)
  <2>1. acc \in Accs /\ acc.found \in Nat /\ Len(acc.taken) \in Nat
    BY DEF Between, Accs
  <2>2. acc.found < 3 * perSkip /\ Len(acc.taken) < perSkip
    BY DEF WantsPacket
  <2> QED BY <2>1, <2>2 DEF Between
<1>1. first \in Accs /\ first.taken = acc.taken /\ first.found = acc.found
      /\ first.reading = TRUE
  BY <1>0 DEF Accs
<1>2. L \in Nat /\ \A f \in 1..L : packet[f].hash \in Where
  <2>1. L \in Nat /\ p \in Nat /\ \A f \in 1..L : packet[f].hash = <<p, f>>
    BY DEF IsReading
  <2> HIDE DEF L
  <2>2. ASSUME NEW f \in 1..L
        PROVE  packet[f].hash \in Where
    <3>1. f \in Nat /\ p \in Nat /\ packet[f].hash = <<p, f>>
      BY <2>1
    <3> QED BY <3>1 DEF Where
  <2> QED BY <2>1, <2>2
<1>3. round \in [1..L -> [Accs -> Accs]]
  <2>1. \A f \in 1..L : \A b \in Accs : TakeFrame(perSkip, b, packet[f]) \in Accs
    BY <1>2, TakeFrameType
  <2> QED BY <2>1
<1>4. \E g \in [0..L -> Accs] :
        g[0] = first /\ \A n \in 1..L : g[n] = round[n][g[n - 1]]
  <2> HIDE DEF round, after, first, L
  <2> QED BY <1>1, <1>2, <1>3, AccsRun
<1>5. PICK g \in [0..L -> Accs] :
        g[0] = first /\ \A n \in 1..L : g[n] = round[n][g[n - 1]]
  BY <1>4
<1>6. ASSUME NEW n \in 1..L
      PROVE  g[n] = TakeFrame(perSkip, g[n - 1], packet[n])
  <2>1. g[n - 1] \in Accs
    BY <1>2
  <2>2. round[n][g[n - 1]] = TakeFrame(perSkip, g[n - 1], packet[n])
    BY <2>1
  <2> HIDE DEF round
  <2> QED BY <1>5, <2>2
<1>7. g = [n \in 0..L |-> IF n = 0 THEN first
                          ELSE TakeFrame(perSkip, g[n - 1], packet[n])]
  <2> HIDE DEF round, after, first
  <2> QED BY <1>5, <1>6
<1>8. after = [n \in 0..L |-> IF n = 0 THEN first
                              ELSE TakeFrame(perSkip, after[n - 1], packet[n])]
  <2> HIDE DEF round
  <2> QED BY <1>7
<1>9. ReadPacket(perSkip, acc, packet) = after[L]
  BY DEF ReadPacket, after
<1> HIDE DEF round, after, first
<1>10. /\ after[0] = first
       /\ \A n \in 1..L : after[n] = TakeFrame(perSkip, after[n - 1], packet[n])
  BY <1>2, <1>8
<1> HIDE DEF L
<1> DEFINE Is(n) == Within(perSkip, packets, p, n, after[n])
           S == {n \in Nat : Is(n)}
<1>11. 0 \in S
  <2>1. Is(0)
    BY <1>0, <1>1, <1>10 DEF Within
  <2> HIDE DEF Is
  <2> QED BY <2>1
<1>12. ASSUME NEW n \in 1..L, n - 1 \in S
       PROVE  n \in S
  <2>1. n \in Nat /\ n \in 1..Len(packets[p]) /\ packet[n] = packets[p][n]
    BY <1>2 DEF L
  <2>2. Within(perSkip, packets, p, n - 1, after[n - 1])
    BY <1>12
  <2>3. after[n] = TakeFrame(perSkip, after[n - 1], packet[n])
    BY <1>10
  <2>4. Cardinality(Seen(packets, p, 0)) < 3 * perSkip
    BY <1>0
  <2>5. Is(n)
    BY <2>1, <2>2, <2>3, <2>4, FrameRead
  <2> HIDE DEF Is
  <2> QED BY <2>1, <2>5
<1>13. \A n \in 0..L : n \in S
  <2> HIDE DEF S
  <2> QED BY <1>2, <1>11, <1>12, RoundInduction
<1>14. Within(perSkip, packets, p, L, after[L])
  BY <1>2, <1>13
<1>15. Seen(packets, p + 1, 0) = Seen(packets, p, L)
  BY SeenPackets DEF L
<1>16. Between(perSkip, packets, p + 1, after[L])
  BY <1>14, <1>15 DEF Within, Between
<1> QED BY <1>9, <1>16

\* A packet, read or not.
LEMMA PacketStep ==
  ASSUME NEW N, NEW packets, IsReading(packets, N), NEW perSkip \in Nat,
         NEW p \in 1..N, NEW acc, Between(perSkip, packets, p, acc)
  PROVE  Between(perSkip, packets, p + 1,
                 ReadPacket(perSkip, acc, packets[p]))
<1>1. CASE WantsPacket(perSkip, acc)
  <2>1. PICK packet : packet = packets[p]
    OBVIOUS
  <2>2. Between(perSkip, packets, p + 1, ReadPacket(perSkip, acc, packet))
    BY <1>1, <2>1, PacketRead
  <2> QED BY <2>1, <2>2
<1>2. CASE ~WantsPacket(perSkip, acc)
  <2>1. ReadPacket(perSkip, acc, packets[p]) = acc
    BY <1>2 DEF ReadPacket
  <2> QED BY <1>2, <2>1, PacketSkipped
<1> QED BY <1>1, <1>2

\* What TakenFrames says of a number of frames wanted and a reading.
TakesFirst(perSkip, packets) ==
  LET usable == Usable(perSkip, packets)
      taken == ExtractAt(perSkip, packets)
  IN  /\ Len(taken) <= perSkip
      /\ \A k \in DOMAIN taken :
           /\ taken[k] \in usable
           /\ \A j \in DOMAIN taken : j < k => Earlier(taken[j], taken[k])
      /\ \A a \in usable :
           \/ \E k \in DOMAIN taken : taken[k] = a
           \/ /\ Len(taken) = perSkip
              /\ \A k \in DOMAIN taken : Earlier(taken[k], a)

\* Reading after a seek takes the first perSkip usable frames, in order, and
\* leaves a usable one out only when perSkip earlier ones were taken: for any
\* number of packets, of any lengths, and any number of frames wanted (the
\* loop over packets and frames of processVideoFast and its siblings).
THEOREM FirstFramesTaken ==
  ASSUME NEW N, NEW packets, IsReading(packets, N), NEW perSkip \in Nat
  PROVE  TakesFirst(perSkip, packets)
<1> DEFINE after[p \in 0..Len(packets)] ==
             IF p = 0 THEN [taken |-> <<>>, found |-> 0, reading |-> TRUE]
                      ELSE ReadPacket(perSkip, after[p - 1], packets[p])
           first == [taken |-> <<>>, found |-> 0, reading |-> TRUE]
           At(p, b) == Between(perSkip, packets, p, b)
           round == [p \in 1..N |->
                       [b \in Accs |->
                          IF At(p, b) THEN ReadPacket(perSkip, b, packets[p])
                                      ELSE b]]
           usable == Usable(perSkip, packets)
           taken == ExtractAt(perSkip, packets)
<1>0. N \in Nat /\ Len(packets) = N
  BY DEF IsReading
<1>1. first \in Accs /\ first.taken = <<>> /\ first.found = 0
  BY DEF Accs
<1>2. At(1, first)
  <2>1. Seen(packets, 1, 0) = {}
    BY SeenPackets
  <2>2. Cardinality(Seen(packets, 1, 0)) = 0
    BY <2>1, FS_EmptySet
  <2>3. FirstUsable(perSkip, usable, {}, <<>>)
    BY DEF FirstUsable
  <2> HIDE DEF first, usable
  <2> QED BY <1>1, <2>1, <2>2, <2>3 DEF Between, usable
<1>3. \A p \in 1..N : \A b \in Accs :
        At(p, b) => At(p + 1, ReadPacket(perSkip, b, packets[p]))
  BY PacketStep
<1>4. \A p, b : At(p, b) => b \in Accs
  BY DEF Between
<1>5. round \in [1..N -> [Accs -> Accs]]
  <2> HIDE DEF At
  <2> QED BY <1>3, <1>4
<1>6. \E g \in [0..N -> Accs] :
        g[0] = first /\ \A n \in 1..N : g[n] = round[n][g[n - 1]]
  <2>1. N \in Nat /\ first \in Accs
    BY <1>0, <1>1
  <2> HIDE DEF round, after, first, At, usable, taken
  <2> QED BY <2>1, <1>5, AccsRun
<1>7. PICK g \in [0..N -> Accs] :
        g[0] = first /\ \A n \in 1..N : g[n] = round[n][g[n - 1]]
  BY <1>6
<1>8. ASSUME NEW n \in 1..N
      PROVE  g[n] = IF At(n, g[n - 1])
                    THEN ReadPacket(perSkip, g[n - 1], packets[n])
                    ELSE g[n - 1]
  <2>1. g[n - 1] \in Accs
    BY <1>0
  <2> HIDE DEF At
  <2>2. round[n][g[n - 1]] = IF At(n, g[n - 1])
                             THEN ReadPacket(perSkip, g[n - 1], packets[n])
                             ELSE g[n - 1]
    BY <2>1
  <2> HIDE DEF round
  <2> QED BY <1>7, <2>2
<1> HIDE DEF At
<1> DEFINE S == {n \in Nat : At(n + 1, g[n])}
<1>9. 0 \in S
  <2> HIDE DEF first, after, round, taken
  <2> QED BY <1>2, <1>7
<1>10. ASSUME NEW n \in 1..N, n - 1 \in S
       PROVE  n \in S
  <2>1. n \in Nat /\ (n - 1) + 1 = n
    BY <1>0
  <2>2. At(n, g[n - 1])
    BY <1>10, <2>1
  <2>3. g[n] = ReadPacket(perSkip, g[n - 1], packets[n])
    BY <1>8, <2>2
  <2>4. At(n + 1, g[n])
    BY <1>3, <1>4, <2>2, <2>3
  <2> QED BY <2>1, <2>4
<1>11. \A n \in 0..N : n \in S
  <2> HIDE DEF S, first, after, round, taken, usable
  <2> QED BY <1>0, <1>9, <1>10, RoundInduction
<1>12. ASSUME NEW n \in 1..N
       PROVE  g[n] = ReadPacket(perSkip, g[n - 1], packets[n])
  <2>1. n - 1 \in 0..N /\ (n - 1) + 1 = n
    BY <1>0
  <2>2. At(n, g[n - 1])
    BY <1>11, <2>1
  <2> QED BY <1>8, <2>2
<1>13. g = [p \in 0..N |-> IF p = 0 THEN first
                           ELSE ReadPacket(perSkip, g[p - 1], packets[p])]
  <2> HIDE DEF round, after, first, S
  <2> QED BY <1>7, <1>12
<1>14. after = [p \in 0..N |-> IF p = 0 THEN first
                               ELSE ReadPacket(perSkip, after[p - 1], packets[p])]
  <2> HIDE DEF round, S, At
  <2> QED BY <1>0, <1>13
<1>15. taken = after[N].taken
  BY <1>0 DEF ExtractAt
<1> HIDE DEF round, S, first, after, taken
<1>16. /\ after[0] = first
       /\ \A p \in 1..N : after[p] = ReadPacket(perSkip, after[p - 1], packets[p])
  BY <1>0, <1>14
<1> DEFINE T == {n \in Nat : At(n + 1, after[n])}
<1>17. 0 \in T
  BY <1>2, <1>16
<1>18. ASSUME NEW n \in 1..N, n - 1 \in T
       PROVE  n \in T
  <2>1. n \in Nat /\ (n - 1) + 1 = n
    BY <1>0
  <2>2. At(n, after[n - 1])
    BY <1>18, <2>1
  <2>3. after[n] = ReadPacket(perSkip, after[n - 1], packets[n])
    BY <1>16
  <2>4. At(n + 1, after[n])
    BY <1>3, <1>4, <2>2, <2>3
  <2> QED BY <2>1, <2>4
<1>19. \A n \in 0..N : n \in T
  <2>1. N \in Nat
    BY <1>0
  <2> HIDE DEF T, usable
  <2> QED BY <1>17, <1>18, <2>1, RoundInduction
<1>20. At(N + 1, after[N])
  BY <1>0, <1>19
<1>21. FirstUsable(perSkip, usable, Places(packets), taken)
  <2>1. Seen(packets, N + 1, 0) = Places(packets)
    BY SeenPackets
  <2> QED BY <1>15, <1>20, <2>1 DEF At, Between
<1>22. \A a \in usable : a \in Places(packets)
  BY DEF Usable
<1>23. taken \in Seq(Where) /\ DOMAIN taken = 1..Len(taken)
  BY <1>21 DEF FirstUsable
<1> HIDE DEF usable
<1>24. /\ Len(taken) <= perSkip
       /\ \A k \in DOMAIN taken :
            /\ taken[k] \in usable
            /\ \A j \in DOMAIN taken : j < k => Earlier(taken[j], taken[k])
       /\ \A a \in usable :
            \/ \E k \in DOMAIN taken : taken[k] = a
            \/ /\ Len(taken) = perSkip
               /\ \A k \in DOMAIN taken : Earlier(taken[k], a)
  BY <1>21, <1>22, <1>23 DEF FirstUsable
<1> QED BY <1>24 DEF TakesFirst, usable, taken

LEMMA LengthIs ==
  ASSUME NEW n \in Nat, NEW S, NEW h \in [1..n -> S]
  PROVE  Len(h) = n /\ DOMAIN h = 1..n
<1>1. h \in Seq(S)
  OBVIOUS
<1> QED BY <1>1

LEMMA PacketsWellFormed ==
  \A q \in Packets :
    /\ Len(q) \in Nat /\ DOMAIN q = 1..Len(q)
    /\ \A f \in 1..Len(q) : /\ q[f].corrupt \in BOOLEAN
                            /\ q[f].kind = "error" => f = Len(q)
<1> DEFINE Well(q) ==
             /\ Len(q) \in Nat /\ DOMAIN q = 1..Len(q)
             /\ \A f \in 1..Len(q) : /\ q[f].corrupt \in BOOLEAN
                                     /\ q[f].kind = "error" => f = Len(q)
<1>1. \A x \in {Key, BlackKey, Delta, BlackDelta} :
        x.corrupt \in BOOLEAN /\ x.kind # "error"
  <2>1. /\ Key.corrupt \in BOOLEAN /\ Key.kind # "error"
        /\ BlackKey.corrupt \in BOOLEAN /\ BlackKey.kind # "error"
    BY DEF Key, BlackKey, Frame
  <2>2. /\ Delta.corrupt \in BOOLEAN /\ Delta.kind # "error"
        /\ BlackDelta.corrupt \in BOOLEAN /\ BlackDelta.kind # "error"
    BY DEF Delta, BlackDelta, Frame
  <2> HIDE DEF Well
  <2> QED BY <2>1, <2>2
<1>2. DecoderError.corrupt \in BOOLEAN
  BY DEF DecoderError, Frame
<1>3. Well(<<>>)
  OBVIOUS
<1>4. ASSUME NEW x \in {Key, BlackKey, Delta, BlackDelta, DecoderError}
      PROVE  Well(<<x>>)
  <2>1. /\ Len(<<x>>) = 1 /\ DOMAIN <<x>> = 1..1
        /\ \A f \in 1..1 : f = 1 /\ <<x>>[f] = x
    OBVIOUS
  <2>2. x.corrupt \in BOOLEAN
    BY <1>1, <1>2
  <2> QED BY <2>1, <2>2
<1>5. ASSUME NEW x \in {Key, BlackKey, Delta, BlackDelta},
             NEW y \in {Key, BlackKey, Delta, BlackDelta, DecoderError}
      PROVE  Well(<<x, y>>)
  <2>1. /\ Len(<<x, y>>) = 2 /\ DOMAIN <<x, y>> = 1..2
        /\ <<x, y>>[1] = x /\ <<x, y>>[2] = y
        /\ \A f \in 1..2 : f = 1 \/ f = 2
    OBVIOUS
  <2>2. x.corrupt \in BOOLEAN /\ x.kind # "error" /\ y.corrupt \in BOOLEAN
    BY <1>1, <1>2
  <2> QED BY <2>1, <2>2
<1> HIDE DEF Well
<1>6. \A q \in Packets : Well(q)
  BY <1>3, <1>4, <1>5 DEF Packets
<1> QED BY <1>6 DEF Well

\* What PickPackets picks is a reading.
LEMMA HashedIsReading ==
  ASSUME NEW N \in Nat, NEW packets \in [1..N -> Packets]
  PROVE  IsReading(Hashed(packets), N)
<1> DEFINE hashed == Hashed(packets)
           frames(p) == [f \in 1..Len(packets[p]) |->
                           [kind |-> packets[p][f].kind,
                            corrupt |-> packets[p][f].corrupt,
                            hash |-> <<p, f>>]]
<1>1. ASSUME NEW p \in 1..N
      PROVE  /\ Len(packets[p]) \in Nat
             /\ DOMAIN packets[p] = 1..Len(packets[p])
             /\ \A f \in 1..Len(packets[p]) :
                  /\ packets[p][f].corrupt \in BOOLEAN
                  /\ packets[p][f].kind = "error" => f = Len(packets[p])
  BY PacketsWellFormed
<1>2. hashed = [p \in 1..N |-> frames(p)]
  BY <1>1 DEF Hashed
<1>3. Len(hashed) = N /\ DOMAIN hashed = 1..N
  <2> HIDE DEF hashed, frames
  <2>1. hashed \in [1..N -> {frames(p) : p \in 1..N}]
    BY <1>2
  <2> QED BY <2>1, LengthIs
<1>4. ASSUME NEW p \in 1..N
      PROVE  /\ Len(hashed[p]) = Len(packets[p])
             /\ DOMAIN hashed[p] = 1..Len(packets[p])
             /\ \A f \in 1..Len(packets[p]) :
                  /\ hashed[p][f].corrupt = packets[p][f].corrupt
                  /\ hashed[p][f].kind = packets[p][f].kind
                  /\ hashed[p][f].hash = <<p, f>>
  <2> DEFINE n == Len(packets[p])
             record(f) == [kind |-> packets[p][f].kind,
                           corrupt |-> packets[p][f].corrupt,
                           hash |-> <<p, f>>]
  <2>1. hashed[p] = [f \in 1..n |-> record(f)]
    <3> HIDE DEF hashed
    <3> QED BY <1>2
  <2>2. n \in Nat
    BY <1>1
  <2>3. Len(hashed[p]) = n /\ DOMAIN hashed[p] = 1..n
    <3> HIDE DEF hashed, n, record
    <3>1. hashed[p] \in [1..n -> {record(f) : f \in 1..n}]
      BY <2>1
    <3> QED BY <2>2, <3>1, LengthIs
  <2>4. \A f \in 1..n : hashed[p][f] = record(f)
    <3> HIDE DEF hashed, n, record
    <3> QED BY <2>1
  <2>5. \A f \in 1..n : /\ record(f).corrupt = packets[p][f].corrupt
                         /\ record(f).kind = packets[p][f].kind
                         /\ record(f).hash = <<p, f>>
    OBVIOUS
  <2> HIDE DEF hashed, record, frames
  <2> QED BY <2>3, <2>4, <2>5
<1> HIDE DEF hashed
<1>5. IsReading(hashed, N)
  BY <1>1, <1>3, <1>4 DEF IsReading
<1> QED BY <1>5 DEF hashed

\* Every behaviour picks an input for which the frames taken are the first
\* usable ones.
THEOREM TakenFramesAlways == Spec => []TakenFrames
<1>1. Init => TakenFrames
  BY NotPicked DEF TakenFrames
<1>2. TakenFrames /\ [Next]_input => TakenFrames'
  <2>1. ASSUME Next, input'.kind = "packets"
        PROVE  TakenFrames'
    <3>1. PICK perSkip \in 0..MaxPerSkip, length \in 0..MaxPackets :
            \E packets \in [1..length -> Packets] :
              input' = [kind |-> "packets", perSkip |-> perSkip,
                        packets |-> Hashed(packets)]
      BY <2>1, PickedByKind DEF PickPackets
    <3>2. PICK packets \in [1..length -> Packets] :
            input' = [kind |-> "packets", perSkip |-> perSkip,
                      packets |-> Hashed(packets)]
      BY <3>1
    <3>3. perSkip \in Nat /\ length \in Nat
      BY BoundsAssumption
    <3>4. IsReading(Hashed(packets), length)
      BY <3>3, HashedIsReading
    <3>5. input'.perSkip = perSkip /\ input'.packets = Hashed(packets)
      BY <3>2
    <3>6. TakesFirst(perSkip, Hashed(packets))
      BY <3>3, <3>4, FirstFramesTaken
    <3>7. TakesFirst(input'.perSkip, input'.packets)
      BY <3>5, <3>6
    <3> QED BY <3>7 DEF TakenFrames, TakesFirst
  <2>2. ASSUME input'.kind # "packets"
        PROVE  TakenFrames'
    BY <2>2 DEF TakenFrames
  <2>3. ASSUME TakenFrames, UNCHANGED input
        PROVE  TakenFrames'
    BY <2>3 DEF TakenFrames
  <2> QED BY <2>1, <2>2, <2>3
<1> QED BY <1>1, <1>2, PTL DEF Spec

-----------------------------------------------------------------------------
(***************************************************************************)
(* Which files get an artifact.                                            *)
(***************************************************************************)
Modes == {"FAST", "BALANCED", "QUALITY"}

LEMMA FunctionLength ==
  ASSUME NEW n \in Nat, NEW h, DOMAIN h = 1..n, h = [i \in 1..n |-> h[i]]
  PROVE  Len(h) = n
<1>1. h \in [1..n -> {h[i] : i \in 1..n}]
  OBVIOUS
<1> QED BY <1>1, LengthIs

\* A result is an artifact of this format.
Made(result, format) == result.success = TRUE /\ result.format = format

LEMMA ArtifactIsMade ==
  ASSUME NEW result, NEW format, NEW data, result = Artifact(format, data)
  PROVE  Made(result, format) /\ result.data = data
BY DEF Artifact, Made

LEMMA FailureFails ==
  ASSUME NEW result, result = Failure
  PROVE  result.success = FALSE
BY DEF Failure

LEMMA ImageArtifact ==
  ASSUME NEW file, NEW mode \in Modes
  PROVE  IF file.broken \cap Needs["image"] = {}
         THEN Made(ProcessImage(file, mode), AlgorithmFor("image", mode).format)
         ELSE ProcessImage(file, mode).success = FALSE
<1> DEFINE r == ProcessImage(file, mode)
<1>1. file.broken \cap Needs["image"] = {} <=> Passes(file, {"imread"})
  BY DEF Needs, Passes
<1>2. /\ AlgorithmFor("image", "FAST").format = "dhash"
      /\ AlgorithmFor("image", "BALANCED").format = "phash"
      /\ AlgorithmFor("image", "QUALITY").format = "cnn_embedding"
  BY DEF AlgorithmFor, Algorithms
<1>3. /\ mode = "FAST" => r = ProcessImageFast(file)
      /\ mode = "BALANCED" => r = ProcessImageBalanced(file)
      /\ mode = "QUALITY" => r = ProcessImageQuality(file)
  BY DEF ProcessImage
<1>4. mode = "FAST" \/ mode = "BALANCED" \/ mode = "QUALITY"
  BY DEF Modes
<1> HIDE DEF r
<1>5. CASE Passes(file, {"imread"})
  <2>1. mode = "FAST" => r = Artifact("dhash", DHash(file.grid))
    BY <1>3, <1>5 DEF ProcessImageFast
  <2>2. mode = "BALANCED" => r = Artifact("phash", PHash(file.coefficients))
    BY <1>3, <1>5 DEF ProcessImageBalanced
  <2>3. mode = "QUALITY" => \E data : r = Artifact("cnn_embedding", data)
    BY <1>3, <1>5 DEF ProcessImageQuality
  <2>4. \E data : r = Artifact(AlgorithmFor("image", mode).format, data)
    BY <1>2, <1>4, <2>1, <2>2, <2>3
  <2>5. Made(r, AlgorithmFor("image", mode).format)
    BY <2>4, ArtifactIsMade
  <2> QED BY <1>1, <1>5, <2>5 DEF r
<1>6. CASE ~Passes(file, {"imread"})
  <2>1. r = Failure
    BY <1>3, <1>4, <1>6
       DEF ProcessImageFast, ProcessImageBalanced, ProcessImageQuality
  <2>2. r.success = FALSE
    BY <2>1, FailureFails
  <2> QED BY <1>1, <1>6, <2>2 DEF r
<1> QED BY <1>5, <1>6

LEMMA AudioArtifact ==
  ASSUME NEW file, NEW mode \in Modes
  PROVE  IF file.broken \cap Needs["audio"] = {}
         THEN /\ Made(ProcessAudio(file, mode), AlgorithmFor("audio", mode).format)
              /\ Len(ProcessAudio(file, mode).data)
                   = AlgorithmFor("audio", mode).size
         ELSE ProcessAudio(file, mode).success = FALSE
<1> DEFINE r == ProcessAudio(file, mode)
           fast == [i \in 1..32 |-> AudioFastByte(file, i - 1)]
           balanced == [i \in 1..64 |-> AudioBalancedByte(file, i - 1)]
           quality == [i \in 1..128 |-> AudioQualityByte(file, i - 1)]
<1>1. file.broken \cap Needs["audio"] = {} <=> AudioReadable(file)
  BY DEF Needs, AudioReadable, Passes
<1>2. /\ AlgorithmFor("audio", "FAST").format = "chromaprint"
      /\ AlgorithmFor("audio", "BALANCED").format = "mfcc"
      /\ AlgorithmFor("audio", "QUALITY").format = "audio_embedding"
      /\ AlgorithmFor("audio", "FAST").size = 32
      /\ AlgorithmFor("audio", "BALANCED").size = 64
      /\ AlgorithmFor("audio", "QUALITY").size = 128
  BY DEF AlgorithmFor, Algorithms
<1>3. Len(fast) = 32 /\ Len(balanced) = 64 /\ Len(quality) = 128
  <2>1. DOMAIN fast = 1..32 /\ fast = [i \in 1..32 |-> fast[i]]
    OBVIOUS
  <2>2. DOMAIN balanced = 1..64 /\ balanced = [i \in 1..64 |-> balanced[i]]
    OBVIOUS
  <2>3. DOMAIN quality = 1..128 /\ quality = [i \in 1..128 |-> quality[i]]
    OBVIOUS
  <2> HIDE DEF fast, balanced, quality
  <2> QED BY <2>1, <2>2, <2>3, FunctionLength
<1>4. /\ mode = "FAST" => r = ProcessAudioFast(file)
      /\ mode = "BALANCED" => r = ProcessAudioBalanced(file)
      /\ mode = "QUALITY" => r = ProcessAudioQuality(file)
  BY DEF ProcessAudio
<1>5. mode = "FAST" \/ mode = "BALANCED" \/ mode = "QUALITY"
  BY DEF Modes
<1> HIDE DEF r
<1>6. CASE AudioReadable(file)
  <2>1. mode = "FAST" => r = Artifact("chromaprint", fast)
    BY <1>2, <1>4, <1>6 DEF ProcessAudioFast
  <2>2. mode = "BALANCED" => r = Artifact("mfcc", balanced)
    BY <1>2, <1>4, <1>6 DEF ProcessAudioBalanced
  <2>3. mode = "QUALITY" => r = Artifact("audio_embedding", quality)
    BY <1>2, <1>4, <1>6 DEF ProcessAudioQuality
  <2> HIDE DEF fast, balanced, quality
  <2>4. \E data : /\ r = Artifact(AlgorithmFor("audio", mode).format, data)
                  /\ Len(data) = AlgorithmFor("audio", mode).size
    <3>1. CASE mode = "FAST"
      <4>1. /\ r = Artifact(AlgorithmFor("audio", mode).format, fast)
            /\ Len(fast) = AlgorithmFor("audio", mode).size
        BY <1>2, <1>3, <2>1, <3>1
      <4> QED BY <4>1
    <3>2. CASE mode = "BALANCED"
      <4>1. /\ r = Artifact(AlgorithmFor("audio", mode).format, balanced)
            /\ Len(balanced) = AlgorithmFor("audio", mode).size
        BY <1>2, <1>3, <2>2, <3>2
      <4> QED BY <4>1
    <3>3. CASE mode = "QUALITY"
      <4>1. /\ r = Artifact(AlgorithmFor("audio", mode).format, quality)
            /\ Len(quality) = AlgorithmFor("audio", mode).size
        BY <1>2, <1>3, <2>3, <3>3
      <4> QED BY <4>1
    <3> QED BY <1>5, <3>1, <3>2, <3>3
  <2>5. /\ Made(r, AlgorithmFor("audio", mode).format)
        /\ Len(r.data) = AlgorithmFor("audio", mode).size
    BY <2>4, ArtifactIsMade
  <2> QED BY <1>1, <1>6, <2>5 DEF r
<1>7. CASE ~AudioReadable(file)
  <2>1. r = Failure
    BY <1>4, <1>5, <1>7
       DEF ProcessAudioFast, ProcessAudioBalanced, ProcessAudioQuality
  <2>2. r.success = FALSE
    BY <2>1, FailureFails
  <2> QED BY <1>1, <1>7, <2>2 DEF r
<1> QED BY <1>6, <1>7

\* The bytes of a fingerprint and of a mean, one by one.
CombinedByte(hashes, i) ==
  LET byte[n \in 0..Len(hashes)] ==
        IF n = 0 THEN 0 ELSE Combined(byte[n - 1], hashes[n], i)
  IN  Xor(byte[Len(hashes)], CountByte(Len(hashes), i))

MeanByte(embeddings, i) ==
  LET sum[n \in 0..Len(embeddings)] ==
        IF n = 0 THEN 0 ELSE sum[n - 1] + embeddings[n][i]
      mean == sum[Len(embeddings)] \div Len(embeddings)
  IN  IF mean < 0 THEN 0 ELSE IF mean > 255 THEN 255 ELSE mean

LEMMA FingerprintLengths ==
  ASSUME NEW hashes
  PROVE  /\ Len(CombineFrameHashes(hashes, 32)) = 32
         /\ Len(AverageEmbedding(hashes, 1024)) = 1024
<1> DEFINE bytes == CombineFrameHashes(hashes, 32)
           mean == AverageEmbedding(hashes, 1024)
<1>1. bytes = [i \in 1..32 |-> CombinedByte(hashes, i)]
  BY DEF CombineFrameHashes, CombinedByte
<1>2. mean = [i \in 1..1024 |-> MeanByte(hashes, i)]
  BY DEF AverageEmbedding, MeanByte
<1> HIDE DEF bytes, mean
<1>3. /\ DOMAIN bytes = 1..32 /\ bytes = [i \in 1..32 |-> bytes[i]]
      /\ DOMAIN mean = 1..1024 /\ mean = [i \in 1..1024 |-> mean[i]]
  BY <1>1, <1>2
<1>4. Len(bytes) = 32 /\ Len(mean) = 1024
  BY <1>3, FunctionLength
<1> QED BY <1>4 DEF bytes, mean

LEMMA VideoArtifact ==
  ASSUME NEW file, NEW mode \in Modes, NEW config
  PROVE  IF /\ file.broken \cap Needs["video"] = {}
            /\ FrameHashes(file, config) # <<>>
         THEN /\ Made(ProcessVideo(file, mode, config), AlgorithmFor("video", mode).format)
              /\ Len(ProcessVideo(file, mode, config).data)
                   = AlgorithmFor("video", mode).size
         ELSE ProcessVideo(file, mode, config).success = FALSE
<1> DEFINE r == ProcessVideo(file, mode, config)
           hashes == FrameHashes(file, config)
           fast == CombineFrameHashes(hashes, 32)
           balanced == CombineFrameHashes(hashes, 32)
           quality == AverageEmbedding(hashes, 1024)
           ready == /\ IsVideoFileValid(file) /\ DecoderReady(file)
                    /\ CreateHardwareScaler(file) /\ hashes # <<>>
<1>1. file.broken \cap Needs["video"] = {} /\ hashes # <<>> <=> ready
  <2>1. file.broken \cap Needs["video"] = {}
          <=> /\ IsVideoFileValid(file) /\ DecoderReady(file)
              /\ CreateHardwareScaler(file)
    BY DEF Needs, IsVideoFileValid, DecoderReady, CreateHardwareScaler, Passes
  <2> QED BY <2>1
<1>2. /\ AlgorithmFor("video", "FAST").format = "video_dhash"
      /\ AlgorithmFor("video", "BALANCED").format = "video_phash"
      /\ AlgorithmFor("video", "QUALITY").format = "video_cnn_embedding"
      /\ AlgorithmFor("video", "FAST").size = 32
      /\ AlgorithmFor("video", "BALANCED").size = 32
      /\ AlgorithmFor("video", "QUALITY").size = 1024
  BY DEF AlgorithmFor, Algorithms
<1>3. Len(fast) = 32 /\ Len(balanced) = 32 /\ Len(quality) = 1024
  <2> HIDE DEF hashes
  <2> QED BY FingerprintLengths
<1>4. /\ mode = "FAST" => r = ProcessVideoFast(file, config)
      /\ mode = "BALANCED" => r = ProcessVideoBalanced(file, config)
      /\ mode = "QUALITY" => r = ProcessVideoQuality(file, config)
  BY DEF ProcessVideo
<1>5. mode = "FAST" \/ mode = "BALANCED" \/ mode = "QUALITY"
  BY DEF Modes
<1> HIDE DEF r, ready
<1>6. CASE ready
  <2>1. mode = "FAST" => r = Artifact("video_dhash", fast)
    BY <1>2, <1>4, <1>6 DEF ProcessVideoFast, ready
  <2>2. mode = "BALANCED" => r = Artifact("video_phash", balanced)
    BY <1>2, <1>4, <1>6 DEF ProcessVideoBalanced, ready
  <2>3. mode = "QUALITY" => r = Artifact("video_cnn_embedding", quality)
    BY <1>2, <1>4, <1>6 DEF ProcessVideoQuality, ready
  <2> HIDE DEF fast, balanced, quality
  <2>4. \E data : /\ r = Artifact(AlgorithmFor("video", mode).format, data)
                  /\ Len(data) = AlgorithmFor("video", mode).size
    <3>1. CASE mode = "FAST"
      <4>1. /\ r = Artifact(AlgorithmFor("video", mode).format, fast)
            /\ Len(fast) = AlgorithmFor("video", mode).size
        BY <1>2, <1>3, <2>1, <3>1
      <4> QED BY <4>1
    <3>2. CASE mode = "BALANCED"
      <4>1. /\ r = Artifact(AlgorithmFor("video", mode).format, balanced)
            /\ Len(balanced) = AlgorithmFor("video", mode).size
        BY <1>2, <1>3, <2>2, <3>2
      <4> QED BY <4>1
    <3>3. CASE mode = "QUALITY"
      <4>1. /\ r = Artifact(AlgorithmFor("video", mode).format, quality)
            /\ Len(quality) = AlgorithmFor("video", mode).size
        BY <1>2, <1>3, <2>3, <3>3
      <4> QED BY <4>1
    <3> QED BY <1>5, <3>1, <3>2, <3>3
  <2>5. /\ Made(r, AlgorithmFor("video", mode).format)
        /\ Len(r.data) = AlgorithmFor("video", mode).size
    BY <2>4, ArtifactIsMade
  <2> QED BY <1>1, <1>6, <2>5 DEF r
<1>7. CASE ~ready
  <2>1. r = Failure
    BY <1>4, <1>5, <1>7
       DEF ready, ProcessVideoFast, ProcessVideoBalanced, ProcessVideoQuality
  <2>2. r.success = FALSE
    BY <2>1, FailureFails
  <2> QED BY <1>1, <1>7, <2>2 DEF r
<1> QED BY <1>6, <1>7

\* What ArtifactOfItsMedium says of a file whose sampled frames are hashes.
FileIsAnswered(enabled, file, mode, hashes, result) ==
  LET medium == Medium(enabled, file.ext)
  IN  /\ result.success <=>
           /\ medium # "none"
           /\ file.broken \cap (Needs[medium] \cup {"ifstream"}) = {}
           /\ medium = "video" => hashes # <<>>
      /\ result.success =>
           LET algorithm == AlgorithmFor(medium, mode) IN
           /\ result.format = algorithm.format
           /\ medium # "image" => Len(result.data) = algorithm.size

\* A file gets an artifact exactly when its extension is enabled for a
\* medium, it can be opened, no library step its medium needs fails and, for
\* a video, some sampled frame is usable; the artifact has the format and
\* the size of the table's entry for medium and mode.  For every file, every
\* configuration and every mode (processFile and the nine functions it
\* calls).
THEOREM ArtifactOfFile ==
  ASSUME NEW enabled, {"images", "video", "audio"} \subseteq DOMAIN enabled,
         NEW file, NEW mode \in Modes, NEW config
  PROVE  FileIsAnswered(enabled, file, mode, FrameHashes(file, config),
                        ProcessFile(enabled, file, mode, config))
<1> DEFINE medium == Medium(enabled, file.ext)
           r == ProcessFile(enabled, file, mode, config)
           hashes == FrameHashes(file, config)
           opened == "ifstream" \notin file.broken
<1>1. medium \in {"image", "video", "audio", "none"}
  BY DEF Medium
<1>2. medium # "none" => IsSupportedFile(enabled, file.ext)
  BY DEF Medium, IsSupportedFile, IsImageFile, IsVideoFile, IsAudioFile
<1>3. ASSUME medium # "none", opened
      PROVE  r = CASE medium = "image" -> ProcessImage(file, mode)
                   [] medium = "video" -> ProcessVideo(file, mode, config)
                   [] medium = "audio" -> ProcessAudio(file, mode)
                   [] medium = "none"  -> Failure
  <2> HIDE DEF medium
  <2> QED BY <1>2, <1>3 DEF ProcessFile, medium
<1>4. ASSUME medium = "none" \/ ~opened
      PROVE  r = Failure
  <2>1. CASE ~IsSupportedFile(enabled, file.ext) \/ ~opened
    BY <2>1 DEF ProcessFile
  <2>2. CASE IsSupportedFile(enabled, file.ext) /\ opened
    BY <1>4, <2>2 DEF ProcessFile
  <2> QED BY <2>1, <2>2
<1> HIDE DEF medium, r, hashes, opened
<1>5. /\ AlgorithmFor(medium, mode) = Algorithms[medium][mode]
      /\ file.broken \cap (Needs[medium] \cup {"ifstream"}) = {}
           <=> file.broken \cap Needs[medium] = {} /\ opened
  BY DEF AlgorithmFor, opened
<1>6. CASE medium = "none" \/ ~opened
  <2>1. r.success = FALSE
    BY <1>4, <1>6, FailureFails
  <2>2. ~(medium # "none"
            /\ file.broken \cap (Needs[medium] \cup {"ifstream"}) = {})
    BY <1>5, <1>6
  <2> QED BY <2>1, <2>2 DEF FileIsAnswered, medium, r
<1>7. CASE medium = "image" /\ opened
  <2>1. r = ProcessImage(file, mode)
    BY <1>3, <1>7
  <2>2. IF file.broken \cap Needs["image"] = {}
        THEN Made(r, AlgorithmFor("image", mode).format)
        ELSE r.success = FALSE
    BY <2>1, ImageArtifact
  <2>3. /\ r.success <=> file.broken \cap Needs[medium] = {}
        /\ r.success => r.format = AlgorithmFor(medium, mode).format
    BY <1>7, <2>2 DEF Made
  <2> QED BY <1>5, <1>7, <2>3 DEF FileIsAnswered, medium, r
<1>8. CASE medium = "audio" /\ opened
  <2>1. r = ProcessAudio(file, mode)
    BY <1>3, <1>8
  <2>2. IF file.broken \cap Needs["audio"] = {}
        THEN /\ Made(r, AlgorithmFor("audio", mode).format)
             /\ Len(r.data) = AlgorithmFor("audio", mode).size
        ELSE r.success = FALSE
    BY <2>1, AudioArtifact
  <2>3. /\ r.success <=> file.broken \cap Needs[medium] = {}
        /\ r.success => /\ r.format = AlgorithmFor(medium, mode).format
                        /\ Len(r.data) = AlgorithmFor(medium, mode).size
    BY <1>8, <2>2 DEF Made
  <2> QED BY <1>5, <1>8, <2>3 DEF FileIsAnswered, medium, r
<1>9. CASE medium = "video" /\ opened
  <2>1. r = ProcessVideo(file, mode, config)
    BY <1>3, <1>9
  <2>2. IF file.broken \cap Needs["video"] = {} /\ hashes # <<>>
        THEN /\ Made(r, AlgorithmFor("video", mode).format)
             /\ Len(r.data) = AlgorithmFor("video", mode).size
        ELSE r.success = FALSE
    BY <2>1, VideoArtifact DEF hashes
  <2>3. /\ r.success <=> file.broken \cap Needs[medium] = {} /\ hashes # <<>>
        /\ r.success => /\ r.format = AlgorithmFor(medium, mode).format
                        /\ Len(r.data) = AlgorithmFor(medium, mode).size
    BY <1>9, <2>2 DEF Made
  <2> QED BY <1>5, <1>9, <2>3 DEF FileIsAnswered, medium, r, hashes
<1> QED BY <1>1, <1>6, <1>7, <1>8, <1>9

\* The loops of the files that are picked, round by round.
LEMMA ReadOne ==
  ASSUME NEW perSkip, NEW acc, NEW packet, Len(packet) = 1,
         WantsPacket(perSkip, acc)
  PROVE  ReadPacket(perSkip, acc, packet)
           = TakeFrame(perSkip, [acc EXCEPT !.reading = TRUE], packet[1])
<1> DEFINE after[f \in 0..Len(packet)] ==
             IF f = 0 THEN [acc EXCEPT !.reading = TRUE]
                      ELSE TakeFrame(perSkip, after[f - 1], packet[f])
           first == [acc EXCEPT !.reading = TRUE]
           g == [f \in 0..1 |-> IF f = 0 THEN first
                                ELSE TakeFrame(perSkip, first, packet[1])]
<1>1. g = [f \in 0..1 |-> IF f = 0 THEN first
                          ELSE TakeFrame(perSkip, g[f - 1], packet[f])]
  <2> HIDE DEF first
  <2>1. \A f \in 0..1 : f = 0 \/ f = 1
    OBVIOUS
  <2>2. g[0] = first
    OBVIOUS
  <2> QED BY <2>1, <2>2
<1>2. after = [f \in 0..1 |-> IF f = 0 THEN first
                              ELSE TakeFrame(perSkip, after[f - 1], packet[f])]
  <2> HIDE DEF g
  <2> QED BY <1>1
<1>3. ReadPacket(perSkip, acc, packet) = after[1]
  BY DEF ReadPacket
<1> HIDE DEF after, first, g
<1>4. after[0] = first /\ after[1] = TakeFrame(perSkip, after[0], packet[1])
  BY <1>2
<1> QED BY <1>3, <1>4 DEF first

LEMMA ReadTwo ==
  ASSUME NEW perSkip, NEW acc, NEW packet, Len(packet) = 2,
         WantsPacket(perSkip, acc)
  PROVE  ReadPacket(perSkip, acc, packet)
           = TakeFrame(perSkip,
               TakeFrame(perSkip, [acc EXCEPT !.reading = TRUE], packet[1]),
               packet[2])
<1> DEFINE after[f \in 0..Len(packet)] ==
             IF f = 0 THEN [acc EXCEPT !.reading = TRUE]
                      ELSE TakeFrame(perSkip, after[f - 1], packet[f])
           first == [acc EXCEPT !.reading = TRUE]
           one == TakeFrame(perSkip, first, packet[1])
           g == [f \in 0..2 |-> IF f = 0 THEN first
                                ELSE IF f = 1 THEN one
                                ELSE TakeFrame(perSkip, one, packet[2])]
<1>1. g = [f \in 0..2 |-> IF f = 0 THEN first
                          ELSE TakeFrame(perSkip, g[f - 1], packet[f])]
  <2>1. one = TakeFrame(perSkip, first, packet[1])
    OBVIOUS
  <2> HIDE DEF first, one
  <2>2. \A f \in 0..2 : f = 0 \/ f = 1 \/ f = 2
    OBVIOUS
  <2>3. g[0] = first /\ g[1] = one
    OBVIOUS
  <2> QED BY <2>1, <2>2, <2>3
<1>2. after = [f \in 0..2 |-> IF f = 0 THEN first
                              ELSE TakeFrame(perSkip, after[f - 1], packet[f])]
  <2> HIDE DEF g
  <2> QED BY <1>1
<1>3. ReadPacket(perSkip, acc, packet) = after[2]
  BY DEF ReadPacket
<1> HIDE DEF after, first, g
<1>4. /\ after[0] = first /\ after[1] = TakeFrame(perSkip, after[0], packet[1])
      /\ after[2] = TakeFrame(perSkip, after[1], packet[2])
  BY <1>2
<1> QED BY <1>3, <1>4 DEF first

LEMMA ExtractOne ==
  ASSUME NEW perSkip, NEW packets, Len(packets) = 1
  PROVE  ExtractAt(perSkip, packets)
           = ReadPacket(perSkip,
               [taken |-> <<>>, found |-> 0, reading |-> TRUE],
               packets[1]).taken
<1> DEFINE after[p \in 0..Len(packets)] ==
             IF p = 0 THEN [taken |-> <<>>, found |-> 0, reading |-> TRUE]
                      ELSE ReadPacket(perSkip, after[p - 1], packets[p])
           first == [taken |-> <<>>, found |-> 0, reading |-> TRUE]
           g == [p \in 0..1 |-> IF p = 0 THEN first
                                ELSE ReadPacket(perSkip, first, packets[1])]
<1>1. g = [p \in 0..1 |-> IF p = 0 THEN first
                          ELSE ReadPacket(perSkip, g[p - 1], packets[p])]
  <2> HIDE DEF first
  <2>1. \A p \in 0..1 : p = 0 \/ p = 1
    OBVIOUS
  <2>2. g[0] = first
    OBVIOUS
  <2> QED BY <2>1, <2>2
<1>2. after = [p \in 0..1 |-> IF p = 0 THEN first
                              ELSE ReadPacket(perSkip, after[p - 1], packets[p])]
  <2> HIDE DEF g
  <2> QED BY <1>1
<1>3. ExtractAt(perSkip, packets) = after[1].taken
  BY DEF ExtractAt
<1> HIDE DEF after, first, g
<1>4. after[0] = first /\ after[1] = ReadPacket(perSkip, after[0], packets[1])
  BY <1>2
<1> QED BY <1>3, <1>4 DEF first

LEMMA NothingSampled ==
  ASSUME NEW file, NEW config, SampleTargets(file.duration, config.skipCount) = <<>>
  PROVE  FrameHashes(file, config) = <<>>
<1> DEFINE hashes[i \in 0..0] ==
             IF i = 0 THEN <<>>
             ELSE hashes[i - 1] \o ExtractAt(config.framesPerSkip, file.packets[i])
           g == [i \in 0..0 |-> <<>>]
<1>1. g = [i \in 0..0 |->
             IF i = 0 THEN <<>>
             ELSE g[i - 1] \o ExtractAt(config.framesPerSkip, file.packets[i])]
  OBVIOUS
<1>2. hashes = [i \in 0..0 |->
             IF i = 0 THEN <<>>
             ELSE hashes[i - 1] \o ExtractAt(config.framesPerSkip, file.packets[i])]
  <2> HIDE DEF g
  <2> QED BY <1>1
<1>3. FrameHashes(file, config) = hashes[0]
  BY DEF FrameHashes
<1> HIDE DEF hashes, g
<1> QED BY <1>2, <1>3

LEMMA TwoTargets ==
  ASSUME NEW file, NEW config,
         Len(SampleTargets(file.duration, config.skipCount)) = 2
  PROVE  FrameHashes(file, config)
           = (<<>> \o ExtractAt(config.framesPerSkip, file.packets[1]))
               \o ExtractAt(config.framesPerSkip, file.packets[2])
<1> DEFINE hashes[i \in 0..2] ==
             IF i = 0 THEN <<>>
             ELSE hashes[i - 1] \o ExtractAt(config.framesPerSkip, file.packets[i])
           X(i) == ExtractAt(config.framesPerSkip, file.packets[i])
           one == <<>> \o X(1)
           g == [i \in 0..2 |-> IF i = 0 THEN <<>>
                                ELSE IF i = 1 THEN one ELSE one \o X(2)]
<1>1. g = [i \in 0..2 |-> IF i = 0 THEN <<>> ELSE g[i - 1] \o X(i)]
  <2>1. one = <<>> \o X(1)
    OBVIOUS
  <2> HIDE DEF X, one
  <2>2. \A i \in 0..2 : i = 0 \/ i = 1 \/ i = 2
    OBVIOUS
  <2>3. g[0] = <<>> /\ g[1] = one
    OBVIOUS
  <2> QED BY <2>1, <2>2, <2>3
<1>2. hashes = [i \in 0..2 |-> IF i = 0 THEN <<>> ELSE hashes[i - 1] \o X(i)]
  <2> HIDE DEF g
  <2> QED BY <1>1
<1>3. FrameHashes(file, config) = hashes[2]
  BY DEF FrameHashes
<1> HIDE DEF hashes, g, X, one
<1>4. /\ hashes[0] = <<>> /\ hashes[1] = hashes[0] \o X(1)
      /\ hashes[2] = hashes[1] \o X(2)
  BY <1>2
<1> QED BY <1>3, <1>4 DEF X

\* The frames that File makes of a packet.
FramesIn(packet) ==
  [f \in DOMAIN packet |->
     [kind |-> packet[f].kind, corrupt |-> packet[f].corrupt,
      hash |-> [i \in 1..1024 |-> i % 256]]]

LEMMA FileFields ==
  ASSUME NEW ext, NEW broken, NEW duration, NEW packet
  PROVE  LET file == File(ext, broken, duration, packet) IN
         /\ file.ext = ext /\ file.broken = broken /\ file.duration = duration
         /\ file.packets[1] = <<FramesIn(packet)>>
         /\ file.packets[2] = <<FramesIn(packet)>>
<1> DEFINE file == File(ext, broken, duration, packet)
<1>1. /\ file.ext = ext /\ file.broken = broken /\ file.duration = duration
      /\ file.packets = [target \in 1..2 |-> <<FramesIn(packet)>>]
  BY DEF File, FramesIn
<1> HIDE DEF file
<1>2. 1 \in 1..2 /\ 2 \in 1..2
  OBVIOUS
<1>3. /\ file.packets[1] = <<FramesIn(packet)>>
      /\ file.packets[2] = <<FramesIn(packet)>>
  BY <1>1, <1>2
<1> QED BY <1>1, <1>3 DEF file

AtSeek == [taken |-> <<>>, found |-> 0, reading |-> TRUE]

LEMMA SeekWanted ==
  /\ WantsPacket(1, AtSeek)
  /\ [AtSeek EXCEPT !.reading = TRUE] = AtSeek
<1>1. Len(AtSeek.taken) = 0 /\ AtSeek.found = 0
  BY DEF AtSeek
<1>2. [AtSeek EXCEPT !.reading = TRUE] = AtSeek
  <2>1. AtSeek \in [taken : {<<>>}, found : {0}, reading : {TRUE}]
    BY DEF AtSeek
  <2>2. AtSeek = [f \in DOMAIN AtSeek |-> AtSeek[f]]
    BY <2>1
  <2>3. AtSeek.reading = TRUE
    BY <2>1
  <2> QED BY <2>2, <2>3
<1> QED BY <1>1, <1>2 DEF WantsPacket

\* A key frame of a picture is taken ...
LEMMA KeyTaken ==
  \E h : ExtractAt(1, <<FramesIn(<<Key>>)>>) = <<h>>
<1> DEFINE frames == FramesIn(<<Key>>)
           h == frames[1].hash
<1>1. /\ DOMAIN <<Key>> = 1..1 /\ <<Key>>[1] = Key
      /\ Key.kind = "key" /\ Key.corrupt = FALSE
  BY DEF Key, Frame
<1>2. Len(frames) = 1
  <2>1. DOMAIN frames = 1..1 /\ frames = [i \in 1..1 |-> frames[i]]
    BY <1>1 DEF FramesIn
  <2> HIDE DEF frames
  <2> QED BY <2>1, FunctionLength
<1>3. frames[1].kind = "key" /\ frames[1].corrupt = FALSE
  BY <1>1 DEF FramesIn
<1> HIDE DEF frames, h
<1>4. Len(<<frames>>) = 1 /\ <<frames>>[1] = frames
  OBVIOUS
<1>5. ExtractAt(1, <<frames>>) = ReadPacket(1, AtSeek, frames).taken
  BY <1>4, ExtractOne DEF AtSeek
<1>6. ReadPacket(1, AtSeek, frames) = TakeFrame(1, AtSeek, frames[1])
  BY <1>2, SeekWanted, ReadOne
<1>7. TakeFrame(1, AtSeek, frames[1]).taken = Append(<<>>, h)
  BY <1>3 DEF TakeFrame, AtSeek, h
<1>8. Append(<<>>, h) = <<h>>
  OBVIOUS
<1>9. ExtractAt(1, <<frames>>) = <<h>>
  BY <1>5, <1>6, <1>7, <1>8
<1> QED BY <1>9 DEF frames

\* ... a black one is not, nor is what follows it.
LEMMA BlackNotTaken ==
  ExtractAt(1, <<FramesIn(<<BlackKey, Delta>>)>>) = <<>>
<1> DEFINE frames == FramesIn(<<BlackKey, Delta>>)
           second == [taken |-> <<>>, found |-> 1, reading |-> TRUE]
<1>1. /\ DOMAIN <<BlackKey, Delta>> = 1..2
      /\ <<BlackKey, Delta>>[1] = BlackKey /\ <<BlackKey, Delta>>[2] = Delta
      /\ BlackKey.kind = "key" /\ BlackKey.corrupt = TRUE
      /\ Delta.kind = "delta" /\ Delta.corrupt = FALSE
  BY DEF BlackKey, Delta, Frame
<1>2. Len(frames) = 2
  <2>1. DOMAIN frames = 1..2 /\ frames = [i \in 1..2 |-> frames[i]]
    BY <1>1 DEF FramesIn
  <2> HIDE DEF frames
  <2> QED BY <2>1, FunctionLength
<1>3. /\ frames[1].kind = "key" /\ frames[1].corrupt = TRUE
      /\ frames[2].kind = "delta" /\ frames[2].corrupt = FALSE
  BY <1>1 DEF FramesIn
<1> HIDE DEF frames
<1>4. Len(<<frames>>) = 1 /\ <<frames>>[1] = frames
  OBVIOUS
<1>5. ExtractAt(1, <<frames>>) = ReadPacket(1, AtSeek, frames).taken
  BY <1>4, ExtractOne DEF AtSeek
<1>6. ReadPacket(1, AtSeek, frames)
        = TakeFrame(1, TakeFrame(1, AtSeek, frames[1]), frames[2])
  BY <1>2, SeekWanted, ReadTwo
<1>7. TakeFrame(1, AtSeek, frames[1]) = second
  <2>1. /\ AtSeek.taken = <<>> /\ AtSeek.found = 0 /\ AtSeek.reading = TRUE
    BY DEF AtSeek
  <2> DEFINE enough == Len(<<>>) < 1
  <2>2. TakeFrame(1, AtSeek, frames[1])
          = [taken |-> <<>>, found |-> 0 + 1, reading |-> enough]
    BY <1>3, <2>1 DEF TakeFrame
  <2>3. enough = TRUE /\ 0 + 1 = 1
    OBVIOUS
  <2> HIDE DEF enough
  <2> QED BY <2>2, <2>3
<1>8. TakeFrame(1, second, frames[2]).taken = <<>>
  BY <1>3 DEF TakeFrame
<1>9. ExtractAt(1, <<frames>>) = <<>>
  BY <1>5, <1>6, <1>7, <1>8
<1> QED BY <1>9 DEF frames

LEMMA SampledFiles ==
  ASSUME NEW ext, NEW broken, NEW duration \in {0, 9},
         NEW packet \in {<<Key>>, <<BlackKey, Delta>>}
  PROVE  FrameHashes(File(ext, broken, duration, packet),
                     [skipCount |-> 2, framesPerSkip |-> 1]) # <<>>
           <=> duration > 0 /\ packet = <<Key>>
<1> DEFINE file == File(ext, broken, duration, packet)
           config == [skipCount |-> 2, framesPerSkip |-> 1]
           targets == SampleTargets(duration, 2)
           found == ExtractAt(1, <<FramesIn(packet)>>)
<1>1. /\ file.duration = duration
      /\ file.packets[1] = <<FramesIn(packet)>>
      /\ file.packets[2] = <<FramesIn(packet)>>
  BY FileFields
<1>2. config.skipCount = 2 /\ config.framesPerSkip = 1
  OBVIOUS
<1>3. <<Key>> # <<BlackKey, Delta>>
  OBVIOUS
<1> HIDE DEF file, config
<1>4. CASE duration = 0
  <2>1. SampleTargets(file.duration, config.skipCount) = <<>>
    BY <1>1, <1>2, <1>4 DEF SampleTargets
  <2>2. FrameHashes(file, config) = <<>>
    BY <2>1, NothingSampled
  <2> QED BY <1>4, <2>2 DEF file, config
<1>5. CASE duration = 9
  <2>1. Len(SampleTargets(file.duration, config.skipCount)) = 2
    <3>1. DOMAIN targets = 1..2 /\ targets = [i \in 1..2 |-> targets[i]]
      BY <1>5 DEF SampleTargets
    <3> HIDE DEF targets
    <3>2. Len(targets) = 2
      BY <3>1, FunctionLength
    <3> QED BY <1>1, <1>2, <3>2 DEF targets
  <2>2. FrameHashes(file, config) = (<<>> \o found) \o found
    BY <1>1, <1>2, <2>1, TwoTargets
  <2>3. CASE packet = <<Key>>
    <3>1. PICK h : found = <<h>>
      BY <2>3, KeyTaken
    <3>2. (<<>> \o <<h>>) \o <<h>> # <<>>
      OBVIOUS
    <3>3. FrameHashes(file, config) # <<>>
      BY <2>2, <3>1, <3>2
    <3> QED BY <1>5, <2>3, <3>3 DEF file, config
  <2>4. CASE packet = <<BlackKey, Delta>>
    <3>1. found = <<>>
      BY <2>4, BlackNotTaken
    <3>2. (<<>> \o <<>>) \o <<>> = <<>>
      OBVIOUS
    <3>3. FrameHashes(file, config) = <<>>
      BY <2>2, <3>1, <3>2
    <3> QED BY <1>3, <2>4, <3>3 DEF file, config
  <2> QED BY <2>3, <2>4
<1> QED BY <1>4, <1>5

\* Every behaviour picks a file of which ArtifactOfItsMedium holds.
THEOREM ArtifactOfItsMediumAlways == Spec => []ArtifactOfItsMedium
<1>1. Init => ArtifactOfItsMedium
  BY NotPicked DEF ArtifactOfItsMedium
<1>2. ArtifactOfItsMedium /\ [Next]_input => ArtifactOfItsMedium'
  <2>1. ASSUME Next, input'.kind = "file"
        PROVE  ArtifactOfItsMedium'
    <3> DEFINE config == [skipCount |-> 2, framesPerSkip |-> 1]
    <3>1. PICK ext \in {"jpg", "raw", "mp4", "mp3", "txt"},
               broken \in {{}} \cup {{step} : step \in Steps},
               mode \in {"FAST", "BALANCED", "QUALITY"}, duration \in {0, 9},
               packet \in {<<Key>>, <<BlackKey, Delta>>} :
            input' = [kind |-> "file", mode |-> mode, ext |-> ext,
                      broken |-> broken, duration |-> duration,
                      packet |-> packet]
      BY <2>1, PickedByKind DEF PickFile
    <3>2. /\ input'.mode = mode /\ input'.ext = ext /\ input'.broken = broken
          /\ input'.duration = duration /\ input'.packet = packet
      BY <3>1
    <3>3. {"images", "video", "audio"} \subseteq DOMAIN Enabled /\ mode \in Modes
      BY DEF Enabled, Modes
    <3> DEFINE file == File(ext, broken, duration, packet)
               hashes == FrameHashes(file, config)
               result == ProcessFile(Enabled, file, mode, config)
    <3>4. FileIsAnswered(Enabled, file, mode, hashes, result)
      BY <3>3, ArtifactOfFile
    <3>5. hashes # <<>> <=> duration > 0 /\ packet = <<Key>>
      BY SampledFiles
    <3>6. file.ext = ext /\ file.broken = broken
      BY FileFields
    <3>7. result = ProcessFile(Enabled,
                     File(input'.ext, input'.broken, input'.duration,
                          input'.packet),
                     input'.mode, [skipCount |-> 2, framesPerSkip |-> 1])
      BY <3>2
    <3> HIDE DEF file, hashes, result, config
    <3> QED BY <3>2, <3>4, <3>5, <3>6, <3>7
         DEF ArtifactOfItsMedium, FileIsAnswered
  <2>2. ASSUME input'.kind # "file"
        PROVE  ArtifactOfItsMedium'
    BY <2>2 DEF ArtifactOfItsMedium
  <2>3. ASSUME ArtifactOfItsMedium, UNCHANGED input
        PROVE  ArtifactOfItsMedium'
    BY <2>3 DEF ArtifactOfItsMedium
  <2> QED BY <2>1, <2>2, <2>3
<1> QED BY <1>1, <1>2, PTL DEF Spec
=============================================================================
