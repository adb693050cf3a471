---------------------------- MODULE MCAlgorithms ----------------------------
(***************************************************************************)
(* The operators of MediaHashing and ConfigSettings, compared with         *)
(* reference definitions on every input of small sets: a behaviour picks   *)
(* one input and stops.                                                    *)
(***************************************************************************)
EXTENDS MediaHashing, ConfigSettings

CONSTANTS
  MaxDuration,   \* longest stream duration, and
  MaxCount,      \* largest number of sampling targets
  MaxPerSkip,    \* frames wanted after one seek, and
  MaxPackets,    \* packets read there
  MaxFrames,     \* frame hashes combined
  Coefficients,  \* values of a coefficient, and
  MaxLength,     \* number of coefficients
  Durations, Rates, Channels,   \* parameters of a sound
  MaxRequests    \* configuration requests in a row

ASSUME BoundsAssumption ==
  /\ {MaxDuration, MaxCount, MaxPerSkip, MaxPackets, MaxFrames, MaxLength,
       MaxRequests} \subseteq Nat
  /\ Coefficients \cup Durations \cup Rates \cup Channels \subseteq Int

VARIABLE input

NoInput == [kind |-> "none"]

Init == input = NoInput

-----------------------------------------------------------------------------
(***************************************************************************)
(* Where a video is sampled.                                               *)
(***************************************************************************)

PickSampling ==
  \E duration \in -1..MaxDuration, count \in 0..MaxCount :
    input' = [kind |-> "sampling", duration |-> duration, count |-> count]

\* TargetsSpread: the targets (processVideoFast and its two siblings) cut
\* the stream into as many segments as there are targets, the first at the
\* start and the last reaching the end, whose lengths differ by at most one
\* tick; a stream of unknown duration has none.
TargetsSpread ==
  input.kind = "sampling" =>
    LET targets == SampleTargets(input.duration, input.count)
        Gap(i) == (IF i = Len(targets) THEN input.duration
                                       ELSE targets[i + 1]) - targets[i]
    IN  /\ (targets = <<>>) <=> (input.duration <= 0 \/ input.count = 0)
        /\ targets # <<>> => Len(targets) = input.count /\ targets[1] = 0
        /\ \A i, j \in DOMAIN targets : Gap(i) >= 0 /\ Gap(i) - Gap(j) <= 1

-----------------------------------------------------------------------------
(***************************************************************************)
(* Which frames are taken after one seek.                                  *)
(***************************************************************************)

Frame(kind, corrupt) == [kind |-> kind, corrupt |-> corrupt]
Key == Frame("key", FALSE)
BlackKey == Frame("key", TRUE)
Delta == Frame("delta", FALSE)
BlackDelta == Frame("delta", TRUE)
DecoderError == Frame("error", FALSE)

Packets ==
  {<<>>, <<Key>>, <<BlackKey>>, <<Delta>>, <<BlackDelta>>, <<DecoderError>>,
   <<Delta, Delta>>, <<BlackKey, Delta>>, <<Key, Delta>>,
   <<Delta, DecoderError>>}

\* The frames' hashes tell their packet and their place in it.
Hashed(packets) ==
  [p \in DOMAIN packets |->
     [f \in DOMAIN packets[p] |->
        [kind |-> packets[p][f].kind, corrupt |-> packets[p][f].corrupt,
         hash |-> <<p, f>>]]]

PickPackets ==
  \E perSkip \in 0..MaxPerSkip, length \in 0..MaxPackets :
    \E packets \in [1..length -> Packets] :
      input' = [kind |-> "packets", perSkip |-> perSkip,
                packets |-> Hashed(packets)]

\* Where the frames are, <<packet, place in it>>, and the order they come in.
Places(packets) ==
  {place \in UNION {{p} \X DOMAIN packets[p] : p \in DOMAIN packets} :
     packets[place[1]][place[2]].kind # "error"}

Earlier(a, b) == a[1] < b[1] \/ (a[1] = b[1] /\ a[2] < b[2])

\* The frames that are neither flagged nor of one colour and that are, or
\* come after, such a key frame, of the packets that start before three
\* times perSkip frames were seen.
Usable(perSkip, packets) ==
  LET places == Places(packets)
      Fit(a) == ~packets[a[1]][a[2]].corrupt
      FitKey(a) == packets[a[1]][a[2]].kind = "key" /\ Fit(a)
  IN  {a \in places :
         /\ Fit(a)
         /\ FitKey(a) \/ \E b \in places : Earlier(b, a) /\ FitKey(b)
         /\ Cardinality({b \in places : b[1] < a[1]}) < 3 * perSkip}

\* TakenFrames: reading after a seek takes the first perSkip usable frames,
\* in order: no other is taken, and a usable one is left out only when
\* perSkip earlier ones were taken.
TakenFrames ==
  input.kind = "packets" =>
    LET usable == Usable(input.perSkip, input.packets)
        taken == ExtractAt(input.perSkip, input.packets)
    IN  /\ Len(taken) <= input.perSkip
        /\ \A k \in DOMAIN taken :
             /\ taken[k] \in usable
             /\ \A j \in DOMAIN taken : j < k => Earlier(taken[j], taken[k])
        /\ \A a \in usable :
             \/ \E k \in DOMAIN taken : taken[k] = a
             \/ /\ Len(taken) = input.perSkip
                /\ \A k \in DOMAIN taken : Earlier(taken[k], a)

-----------------------------------------------------------------------------
(***************************************************************************)
(* What the fingerprint of a video remembers of its frames.                *)
(***************************************************************************)

\* No exclusive or of some of them is zero.
Hashes == {<<1, 2>>, <<3, 0>>, <<255, 7>>}

PickFingerprints ==
  \E length \in 1..MaxFrames :
    \E one, two \in [1..length -> Hashes] :
      input' = [kind |-> "fingerprints", one |-> one, two |-> two]

\* FingerprintForgets: two videos of which equally many frames were taken
\* have the same fingerprint exactly when the same hashes occur an odd
\* number of times in each: repeated frames cancel, and order is lost
\* (combineFrameHashes).
FingerprintForgets ==
  input.kind = "fingerprints" =>
    LET Odd(hashes) ==
          {h \in Hashes :
             Cardinality({i \in DOMAIN hashes : hashes[i] = h}) % 2 = 1}
    IN  (CombineFrameHashes(input.one, 3) = CombineFrameHashes(input.two, 3))
          <=> (Odd(input.one) = Odd(input.two))

-----------------------------------------------------------------------------
(***************************************************************************)
(* Perceptual hashes and sound.                                            *)
(***************************************************************************)

PickCoefficients ==
  \E length \in 1..MaxLength :
    \E coefficients \in [1..length -> Coefficients] :
      input' = [kind |-> "coefficients", coefficients |-> coefficients]

\* PHashSplits: the bits mark fewer than half of the coefficients, one less
\* than the upper half when no two are equal, and none in a picture without
\* detail, whose fingerprint is that of every such picture
\* (processImageBalanced).
PHashSplits ==
  input.kind = "coefficients" =>
    LET c == input.coefficients
        set == {i \in DOMAIN c : PHash(c)[i]}
        distinct == Cardinality(Range(c))
    IN  /\ 2 * Cardinality(set) < Len(c)
        /\ distinct = Len(c) =>
             Cardinality(set) = Len(c) - (Len(c) \div 2) - 1
        /\ distinct = 1 => set = {}

Sound(duration, rate, channels) ==
  [duration |-> duration, rate |-> rate, channels |-> channels, broken |-> {}]

Sounds ==
  {Sound(d, r, c) : d \in Durations, r \in Rates, c \in Channels}

PickSounds ==
  \E one, two \in Sounds :
    input' = [kind |-> "sounds", one |-> one, two |-> two]

\* AudioFastSums: in FAST mode two sounds are duplicates exactly when their
\* durations, rates and thirteenfold numbers of channels have the same sum
\* modulo 256, whatever they sound like (processAudioFast).
AudioFastSums ==
  input.kind = "sounds" =>
    LET Sum256(s) == (s.duration + s.rate + (13 * s.channels)) % 256 IN
    (ProcessAudioFast(input.one) = ProcessAudioFast(input.two))
      <=> (Sum256(input.one) = Sum256(input.two))

-----------------------------------------------------------------------------
(***************************************************************************)
(* Which files get an artifact.                                            *)
(***************************************************************************)

\* An extension enabled as a raw picture only, and one enabled twice.
Enabled == [images |-> {"jpg"}, images_raw |-> {"raw"},
            video |-> {"mp4", "jpg"}, audio |-> {"mp3"}]

Needs == [image |-> {"imread"},
          video |-> {"open", "stream_info", "duration", "video_stream",
                     "decoder", "context", "parameters", "codec_open",
                     "frames", "scaler"},
          audio |-> {"open", "stream_info", "audio_stream"}]

Steps == {"ifstream"} \cup UNION Range(Needs)

File(ext, broken, duration, packet) ==
  [ext |-> ext, broken |-> broken, grid |-> <<<<1, 0>>>>,
   coefficients |-> <<1, 2>>, light |-> <<-5, 300>>, width |-> 2,
   clips |-> TRUE, duration |-> duration, rate |-> 44100, channels |-> 2,
   packets |-> [target \in 1..2 |->
                  <<[f \in DOMAIN packet |->
                       [kind |-> packet[f].kind, corrupt |-> packet[f].corrupt,
                        hash |-> [i \in 1..1024 |-> i % 256]]]>>]]

PickFile ==
  \E ext \in {"jpg", "raw", "mp4", "mp3", "txt"},
     broken \in {{}} \cup {{step} : step \in Steps},
     mode \in {"FAST", "BALANCED", "QUALITY"}, duration \in {0, 9},
     packet \in {<<Key>>, <<BlackKey, Delta>>} :
    input' = [kind |-> "file", mode |-> mode, ext |-> ext, broken |-> broken,
              duration |-> duration, packet |-> packet]

\* ArtifactOfItsMedium: a file gets an artifact exactly when its extension
\* is enabled for a medium, it can be opened, no library step its medium
\* needs fails and, for a video, a sampled frame is usable; the artifact has
\* the format and the size of the table's entry for medium and mode
\* (processFile and the nine functions it calls).
ArtifactOfItsMedium ==
  input.kind = "file" =>
    LET medium == Medium(Enabled, input.ext)
        result == ProcessFile(Enabled,
                    File(input.ext, input.broken, input.duration, input.packet),
                    input.mode, [skipCount |-> 2, framesPerSkip |-> 1])
        sampled == input.duration > 0 /\ input.packet = <<Key>>
    IN  /\ result.success <=>
             /\ medium # "none"
             /\ input.broken \cap (Needs[medium] \cup {"ifstream"}) = {}
             /\ medium = "video" => sampled
        /\ result.success =>
             LET algorithm == AlgorithmFor(medium, input.mode) IN
             /\ result.format = algorithm.format
             /\ medium # "image" => Len(result.data) = algorithm.size

-----------------------------------------------------------------------------
(***************************************************************************)
(* The configuration.                                                      *)
(***************************************************************************)

Names ==
  {"dedup_mode", "log_level", "server_port", "server_host", "auth_secret",
   "scan_interval_seconds", "processing_interval_seconds",
   "max_processing_threads", "max_scan_threads", "database_threads",
   "max_decoder_threads", "processing_batch_size",
   "pre_process_quality_stack", "decoder_cache_size_mb",
   "database_max_retries", "database_backoff_base_ms",
   "database_max_backoff_ms", "database_busy_timeout_ms",
   "database_operation_timeout_ms"}

Paths ==
  Names \cup
  {"threading.max_processing_threads", "threading.max_scan_threads",
   "threading.database_threads", "threading.max_decoder_threads",
   "database.retry.max_attempts", "database.retry.backoff_base_ms",
   "database.retry.max_backoff_ms", "database.timeout.busy_timeout_ms",
   "database.timeout.operation_timeout_ms", "processing.batch_size",
   "cache.decoder_cache_size_mb", "categories.video.mp4", "transcoding.mp4",
   "video.skip_duration_seconds", "video.frames_per_skip", "video.skip_count",
   "video_processing.FAST.skip_duration_seconds",
   "video_processing.FAST.frames_per_skip", "video_processing.FAST.skip_count"}

InitialCfg == [path \in Paths |-> 0]
Settings == DOMAIN Getters(InitialCfg)
ConfigFiles == {"config.json", "config/config.json"}
World == Started(InitialCfg, [f \in ConfigFiles |-> InitialCfg],
                 "config/config.json")

\* The settings of each section, in the order the request applies them.
Order ==
  [server |-> <<"ServerHost", "ServerPort", "AuthSecret">>,
   threading |-> <<"MaxProcessingThreads", "MaxScanThreads",
                   "DatabaseThreads">>,
   database |-> <<"MaxRetries", "BackoffBase", "MaxBackoff", "BusyTimeout",
                  "OperationTimeout">>,
   filetypes |-> <<"FileType", "TranscodingType">>,
   video |-> <<"DedupMode", "VideoSkipDuration", "VideoFramesPerSkip",
               "VideoSkipCount">>,
   scanning |-> <<"ScanInterval", "MaxScanThreads">>,
   logging |-> <<"LogLevel">>]

PickSection ==
  \E section \in DOMAIN Order :
    \E named \in SUBSET Range(Order[section]) :
      \E body \in [named -> {1, Bad}] :
        input' = [kind |-> "section", section |-> section, body |-> body]

\* RejectedPrefix: a request for a section with a value of the wrong type is
\* refused, yet the settings that come before it in the code's order are
\* applied, saved and seen by the components, and those after it are not
\* (the update...Config functions).
RejectedPrefix ==
  input.kind = "section" =>
    LET body == input.body
        order == Order[input.section]
        Named(i) == order[i] \in DOMAIN body
        wrong == {i \in DOMAIN order : Named(i) /\ body[order[i]] = Bad}
        applied == {order[i] : i \in {i \in DOMAIN order :
                                        Named(i) /\ \A j \in wrong : i < j}}
        answer == Update(input.section, World, body)
        Alone(setting) == Set(setting, World, 1)
    IN  /\ answer.status = (IF wrong = {} THEN 200 ELSE 400)
        /\ \A path \in Paths :
             (answer.world.cfg[path] = 1)
               <=> \E setting \in applied : Alone(setting).cfg[path] = 1
        /\ applied # {} =>
             answer.world.files[answer.world.own] = answer.world.cfg
        /\ \A component \in DOMAIN Hears : \A kept \in Keeps(component) :
             (answer.world.copies[component][kept] = 1)
               <=> \E setting \in applied :
                     Alone(setting).copies[component][kept] = 1

\* The settings whose setter changes what their getter returns, and the ones
\* whose new value some observer is told of.
Effective ==
  {"DedupMode", "LogLevel", "ServerPort", "ServerHost", "AuthSecret",
   "ScanInterval", "ProcessingInterval", "MaxDecoderThreads", "QualityStack",
   "FileType"}
Announced ==
  {"DedupMode", "LogLevel", "ServerPort", "ServerHost", "ScanInterval",
   "ProcessingInterval", "MaxProcessingThreads", "MaxScanThreads",
   "DatabaseThreads", "BatchSize", "QualityStack", "BusyTimeout", "CacheSize"}

PickSetter ==
  \E setting \in Settings : input' = [kind |-> "setter", setting |-> setting]

\* SettersReach: which setters take effect.  The value set is the one the
\* getter returns exactly for the settings in Effective, the others being
\* written to a path no getter reads; the event is heard exactly for those
\* in Announced; and a GET of a section shows what a PUT of it set exactly
\* for the effective ones.
SettersReach ==
  input.kind = "setter" =>
    LET setting == input.setting
        after == Set(setting, World, 1)
        written == {path \in Paths : after.cfg[path] # InitialCfg[path]}
    IN  /\ (Getters(after.cfg)[setting] = 1) <=> setting \in Effective
        /\ (\E key \in written : Heard(key)) <=> setting \in Announced
        /\ \A section \in DOMAIN Order :
             setting \in Range(Order[section]) =>
               ((Show(section, after.cfg)[setting] = 1)
                  <=> setting \in Effective)

\* The settings whose paths a collective request or a file may change.
Patched ==
  [DedupMode |-> "dedup_mode", ScanInterval |-> "scan_interval_seconds",
   BatchSize |-> "processing.batch_size",
   DatabaseThreads |-> "threading.database_threads",
   FileType |-> "categories.video.mp4"]

Requests ==
  {[op |-> "set", setting |-> s] : s \in Settings}
    \cup {[op |-> "patch", setting |-> s] : s \in DOMAIN Patched}
    \cup {[op |-> o, file |-> f] : o \in {"save", "reload"}, f \in ConfigFiles}

\* The i-th request of a row uses the value i.
Answered(world, request, i) ==
  CASE request.op = "set"    -> Set(request.setting, world, i)
    [] request.op = "patch"  ->
         handleUpdateConfig(world,
           [path \in {Patched[request.setting]} |-> i]).world
    [] request.op = "save"   ->
         handleSaveConfig(world, request.file).world
    [] request.op = "reload" ->
         handleReloadConfig(world, request.file).world

AfterAll(requests) ==
  LET world[i \in 0..Len(requests)] ==
        IF i = 0 THEN World ELSE Answered(world[i - 1], requests[i], i)
  IN  world[Len(requests)]

PickRequests ==
  \E length \in 1..MaxRequests :
    \E requests \in [1..length -> Requests] :
      input' = [kind |-> "requests", requests |-> requests]

\* CopiesFollow: what a component keeps of a setting is what the getter
\* returns, unless a collective update or a reload came after the last
\* setter of that setting; the transcoder's list of extensions, which it
\* reads once, is the one copy of which this does not hold.
CopiesFollow ==
  input.kind = "requests" =>
    LET requests == input.requests
        world == AfterAll(requests)
        Told(setting) ==
          \A i \in DOMAIN requests :
            requests[i].op \in {"patch", "reload"} =>
              \E j \in DOMAIN requests :
                j > i /\ requests[j] = [op |-> "set", setting |-> setting]
    IN  \A component \in DOMAIN Hears :
          \A setting \in Keeps(component) \ ReadOnce(component) :
            Told(setting) =>
              world.copies[component][setting] = Getters(world.cfg)[setting]

-----------------------------------------------------------------------------
Next ==
  /\ input = NoInput
  /\ \/ PickSampling \/ PickPackets \/ PickFingerprints \/ PickCoefficients
     \/ PickSounds \/ PickFile \/ PickSection \/ PickSetter \/ PickRequests

Spec == Init /\ [][Next]_input
=============================================================================
