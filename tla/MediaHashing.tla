---------------------------- MODULE MediaHashing ----------------------------
(***************************************************************************)
(* MediaProcessor (src/src/media_processor.cpp): from an opened file to    *)
(* the fingerprint the duplicate linker compares.                          *)
(*                                                                         *)
(* A file is a record of what the libraries report about it: `broken` is   *)
(* the set of library steps that fail on it, and the other fields are what *)
(* the steps that succeed return (pixels, coefficients, packets, stream    *)
(* parameters).  A result is a record; `data` is what generateHash hashes, *)
(* so two files are linked exactly when their `data` are equal (SHA-256 is *)
(* taken to be injective).  Bit strings are sequences of BOOLEAN, bytes    *)
(* are numbers below 256.  Sizes come with the input, so small pictures    *)
(* and small fingerprints show what the real ones do.                      *)
(*                                                                         *)
(* Abstracted: colour conversion, scaling and the DCT (OpenCV), demuxing   *)
(* and decoding (FFmpeg), names, confidences and metadata texts.           *)
(***************************************************************************)
EXTENDS Integers, FiniteSets, SequencesExt

\* The bit of weight w, a power of two, and the exclusive or of two bytes.
Bit(n, w) == (n \div w) % 2

Xor(a, b) ==
  LET Sum(w) == w * ((Bit(a, w) + Bit(b, w)) % 2)
  IN  Sum(1) + Sum(2) + Sum(4) + Sum(8) + Sum(16) + Sum(32) + Sum(64) + Sum(128)

Failure == [success |-> FALSE]

Artifact(format, data) == [success |-> TRUE, format |-> format, data |-> data]

\* No step of `steps` fails on this file; a failed step is an early return
\* with a Failure, whichever of them is the first.
Passes(file, steps) == file.broken \cap steps = {}

-----------------------------------------------------------------------------
(***************************************************************************)
(* Which algorithm a file gets.                                            *)
(***************************************************************************)

\* The static table: output format and number of bytes.
Algorithms ==
  [image |-> [FAST     |-> [format |-> "dhash", size |-> 8],
              BALANCED |-> [format |-> "phash", size |-> 8],
              QUALITY  |-> [format |-> "cnn_embedding", size |-> 512]],
   video |-> [FAST     |-> [format |-> "video_dhash", size |-> 32],
              BALANCED |-> [format |-> "video_phash", size |-> 32],
              QUALITY  |-> [format |-> "video_cnn_embedding", size |-> 1024]],
   audio |-> [FAST     |-> [format |-> "chromaprint", size |-> 32],
              BALANCED |-> [format |-> "mfcc", size |-> 64],
              QUALITY  |-> [format |-> "audio_embedding", size |-> 128]]]

\* getProcessingAlgorithm: every pair of a medium and a mode has an entry.
AlgorithmFor(medium, mode) == Algorithms[medium][mode]

\* `enabled` maps the categories of the configuration to extensions.
\* isSupportedFile: the extension is enabled in some category ...
IsSupportedFile(enabled, ext) ==
  \E category \in DOMAIN enabled : ext \in enabled[category]

\* ... but only three of the categories have a medium, the first that lists
\* the extension: one enabled as a raw picture is supported and has none.
IsImageFile(enabled, ext) == ext \in enabled["images"]
IsVideoFile(enabled, ext) == ext \in enabled["video"]
IsAudioFile(enabled, ext) == ext \in enabled["audio"]

Medium(enabled, ext) ==
  IF IsImageFile(enabled, ext) THEN "image"
  ELSE IF IsVideoFile(enabled, ext) THEN "video"
  ELSE IF IsAudioFile(enabled, ext) THEN "audio"
  ELSE "none"

-----------------------------------------------------------------------------
(***************************************************************************)
(* Pictures.                                                               *)
(***************************************************************************)

\* FAST: one bit per pair of horizontal neighbours of the 9x8 grey picture,
\* row by row: is the left one brighter?
DHash(grid) ==
  FlattenSeq([y \in 1..Len(grid) |->
                [x \in 1..(Len(grid[y]) - 1) |-> grid[y][x] > grid[y][x + 1]]])

ProcessImageFast(file) ==
  IF Passes(file, {"imread"}) THEN Artifact("dhash", DHash(file.grid))
                              ELSE Failure

\* BALANCED: one bit per low-frequency coefficient (the DC one is left out):
\* is it above the element in the middle of the sorted coefficients?
Median(coefficients) ==
  LET AtMost(v) == {i \in DOMAIN coefficients : coefficients[i] <= v}
      Below(v)  == {i \in DOMAIN coefficients : coefficients[i] < v}
      middle    == Len(coefficients) \div 2
  IN  CHOOSE v \in Range(coefficients) :
        Cardinality(Below(v)) <= middle /\ middle < Cardinality(AtMost(v))

FaultyPHash(coefficients) ==
  [i \in 1..Len(coefficients) |-> coefficients[i] >= Median(coefficients)]

PHash(coefficients) ==
  [i \in 1..Len(coefficients) |-> coefficients[i] > Median(coefficients)]

ProcessImageBalanced(file) ==
  IF Passes(file, {"imread"}) THEN Artifact("phash", PHash(file.coefficients))
                              ELSE Failure

\* QUALITY: byte i mixes the brightness of pixel i, counted row by row and
\* wrapping around the scaled picture of `width` pixels to a row, with the
\* pixel's row and column.  `light` holds the normalised brightness times
\* 255, which may be negative or above 255: what the conversion of such a
\* value to a byte gives is left to the build, which keeps the low byte or
\* (`clips`) makes a negative value 0.
ToByte(clips, v) == IF clips /\ v < 0 THEN 0 ELSE v % 256

Embedding(file, size) ==
  [i \in 1..size |->
     LET p == (i - 1) % Len(file.light) IN
     ToByte(file.clips,
            file.light[p + 1] + (((p \div file.width) + (p % file.width)) % 256))]

ProcessImageQuality(file) ==
  IF Passes(file, {"imread"})
  THEN Artifact("cnn_embedding",
                Embedding(file, AlgorithmFor("image", "QUALITY").size))
  ELSE Failure

-----------------------------------------------------------------------------
(***************************************************************************)
(* Videos.  `file.duration` is the stream's duration in its time base, 0   *)
(* or negative when the container does not state one; `file.packets[i]` is *)
(* what is read after the i-th seek, whether or not the seek succeeded: a  *)
(* sequence of packets, each the sequence of frames the decoder returns    *)
(* for it (none for a packet of another stream or one it refuses).  A      *)
(* frame is a record; kind "error" is a decoder error instead of a frame.  *)
(***************************************************************************)

\* isVideoFileValid: opens the file, looks, and closes it; the functions
\* below then do the same again, and keep it open.
IsVideoFileValid(file) ==
  Passes(file, {"open", "stream_info", "duration", "video_stream"})

\* The decoder and its buffers.
FaultyDecoderReady(file) ==
  Passes(file, {"decoder", "context", "parameters", "frames"})

DecoderReady(file) ==
  Passes(file, {"decoder", "context", "parameters", "codec_open", "frames"})

CreateHardwareScaler(file) == Passes(file, {"scaler"})

FaultySampleTargets(duration, count) ==
  IF duration > 0 /\ count > 0
  THEN [i \in 1..count |-> (duration \div count) * (i - 1)]
  ELSE <<>>

\* Where the extraction seeks to.
SampleTargets(duration, count) ==
  IF duration > 0 /\ count > 0
  THEN [i \in 1..count |-> (duration * (i - 1)) \div count]
  ELSE <<>>

\* One decoded frame: it is used when it is a key frame or follows a frame
\* that was used, and is neither flagged corrupt nor nearly of one colour.
\* `reading` turns FALSE where the code breaks out of the packet.
FaultyTakeFrame(perSkip, acc, frame) ==
  LET taken == IF /\ frame.kind = "key" \/ acc.found > 0
                  /\ ~frame.corrupt
               THEN Append(acc.taken, frame.hash)
               ELSE acc.taken
  IN  IF ~acc.reading \/ frame.kind = "error"
      THEN [acc EXCEPT !.reading = FALSE]
      ELSE [taken |-> taken, found |-> acc.found + 1,
            reading |-> Len(taken) < perSkip]

TakeFrame(perSkip, acc, frame) ==
  LET taken == IF /\ frame.kind = "key" \/ acc.taken # <<>>
                  /\ ~frame.corrupt
               THEN Append(acc.taken, frame.hash)
               ELSE acc.taken
  IN  IF ~acc.reading \/ frame.kind = "error"
      THEN [acc EXCEPT !.reading = FALSE]
      ELSE [taken |-> taken, found |-> acc.found + 1,
            reading |-> Len(taken) < perSkip]

\* Whether one more packet is decoded: the number of frames looked at is
\* compared between packets only.
WantsPacket(perSkip, acc) ==
  acc.found < 3 * perSkip /\ Len(acc.taken) < perSkip

ReadPacket(perSkip, acc, packet) ==
  LET after[f \in 0..Len(packet)] ==
        IF f = 0 THEN [acc EXCEPT !.reading = TRUE]
                 ELSE TakeFrame(perSkip, after[f - 1], packet[f])
  IN  IF WantsPacket(perSkip, acc) THEN after[Len(packet)] ELSE acc

\* The hashes taken after one seek.
ExtractAt(perSkip, packets) ==
  LET after[p \in 0..Len(packets)] ==
        IF p = 0 THEN [taken |-> <<>>, found |-> 0, reading |-> TRUE]
                 ELSE ReadPacket(perSkip, after[p - 1], packets[p])
  IN  after[Len(packets)].taken

\* The hashes of all targets, in the order of the targets.
FrameHashes(file, config) ==
  LET targets == SampleTargets(file.duration, config.skipCount)
      hashes[i \in 0..Len(targets)] ==
        IF i = 0 THEN <<>>
        ELSE hashes[i - 1] \o ExtractAt(config.framesPerSkip, file.packets[i])
  IN  hashes[Len(targets)]

\* combineFrameHashes: exclusive or, byte by byte, and the number of frames
\* in the first four bytes when there are several.
FaultyCombined(byte, hash, i) ==
  IF i <= Len(hash) THEN (byte + hash[i]) % 256 ELSE byte

Combined(byte, hash, i) ==
  IF i <= Len(hash) THEN Xor(byte, hash[i]) ELSE byte

CountByte(frames, i) ==
  IF frames > 1 /\ i <= 4
  THEN (frames \div <<1, 256, 65536, 16777216>>[i]) % 256
  ELSE 0

CombineFrameHashes(hashes, size) ==
  [i \in 1..size |->
     LET byte[n \in 0..Len(hashes)] ==
           IF n = 0 THEN 0 ELSE Combined(byte[n - 1], hashes[n], i)
     IN  Xor(byte[Len(hashes)], CountByte(Len(hashes), i))]

\* The mean of the frames' embeddings (values times 255), limited to a byte.
AverageEmbedding(embeddings, size) ==
  [i \in 1..size |->
     LET sum[n \in 0..Len(embeddings)] ==
           IF n = 0 THEN 0 ELSE sum[n - 1] + embeddings[n][i]
         mean == sum[Len(embeddings)] \div Len(embeddings)
     IN  IF mean < 0 THEN 0 ELSE IF mean > 255 THEN 255 ELSE mean]

\* FAST and BALANCED hash the whole picture of every frame taken; they
\* differ in their settings and in the format they record.
ProcessVideoFast(file, config) ==
  LET hashes == FrameHashes(file, config) IN
  IF /\ IsVideoFileValid(file) /\ DecoderReady(file)
     /\ CreateHardwareScaler(file) /\ hashes # <<>>
  THEN Artifact("video_dhash",
         CombineFrameHashes(hashes, AlgorithmFor("video", "FAST").size))
  ELSE Failure

ProcessVideoBalanced(file, config) ==
  LET hashes == FrameHashes(file, config) IN
  IF /\ IsVideoFileValid(file) /\ DecoderReady(file)
     /\ CreateHardwareScaler(file) /\ hashes # <<>>
  THEN Artifact("video_phash",
         CombineFrameHashes(hashes, AlgorithmFor("video", "BALANCED").size))
  ELSE Failure

\* In QUALITY a frame's `hash` is its embedding.
ProcessVideoQuality(file, config) ==
  LET embeddings == FrameHashes(file, config) IN
  IF /\ IsVideoFileValid(file) /\ DecoderReady(file)
     /\ CreateHardwareScaler(file) /\ embeddings # <<>>
  THEN Artifact("video_cnn_embedding",
         AverageEmbedding(embeddings, AlgorithmFor("video", "QUALITY").size))
  ELSE Failure

-----------------------------------------------------------------------------
(***************************************************************************)
(* Sound.  No sample is decoded: the fingerprint is made of the stream's   *)
(* duration, sample rate and number of channels.                           *)
(***************************************************************************)

AudioReadable(file) == Passes(file, {"open", "stream_info", "audio_stream"})

FaultyAudioFastByte(file, i) ==
  Xor((file.duration + file.rate + (file.channels * 13 * i) + (i * 7)) % 256,
      ((i * 11) + 3) % 256)

AudioFastByte(file, i) ==
  Xor((file.duration + file.rate + (file.channels * 13) + (i * 7)) % 256,
      ((i * 11) + 3) % 256)

AudioBalancedByte(file, i) ==
  Xor(IF i < 13
      THEN ((file.duration * (i + 1)) + (file.rate \div (i + 1))
              + (file.channels * (i + 1) * 7)) % 256
      ELSE (file.duration + (i * 23) + file.rate + (i * 29)
              + (file.channels * i * 11)) % 256,
      ((i * 19) + 5) % 256)

AudioQualityByte(file, i) ==
  LET value == IF i < 64
               THEN (file.duration * (i + 1)) + (file.rate \div (i + 1))
                      + (file.channels * (i + 1) * 11) + (i * i * 7)
               ELSE file.duration + (i * 29) + file.rate + (i * 31)
                      + (file.channels * i * 13) + (i * i * i)
  IN  (Xor(value % 256, ((i * 31) + 7) % 256) + (i * 13) + 11) % 256

ProcessAudioFast(file) ==
  IF AudioReadable(file)
  THEN Artifact("chromaprint", [i \in 1..AlgorithmFor("audio", "FAST").size |->
                                  AudioFastByte(file, i - 1)])
  ELSE Failure

ProcessAudioBalanced(file) ==
  IF AudioReadable(file)
  THEN Artifact("mfcc", [i \in 1..AlgorithmFor("audio", "BALANCED").size |->
                           AudioBalancedByte(file, i - 1)])
  ELSE Failure

ProcessAudioQuality(file) ==
  IF AudioReadable(file)
  THEN Artifact("audio_embedding",
                [i \in 1..AlgorithmFor("audio", "QUALITY").size |->
                   AudioQualityByte(file, i - 1)])
  ELSE Failure

-----------------------------------------------------------------------------
\* processFile: a file that is not supported, cannot be opened or has no
\* medium is refused; the others go to the function of medium and mode.
ProcessImage(file, mode) ==
  CASE mode = "FAST"     -> ProcessImageFast(file)
    [] mode = "BALANCED" -> ProcessImageBalanced(file)
    [] mode = "QUALITY"  -> ProcessImageQuality(file)

ProcessVideo(file, mode, config) ==
  CASE mode = "FAST"     -> ProcessVideoFast(file, config)
    [] mode = "BALANCED" -> ProcessVideoBalanced(file, config)
    [] mode = "QUALITY"  -> ProcessVideoQuality(file, config)

ProcessAudio(file, mode) ==
  CASE mode = "FAST"     -> ProcessAudioFast(file)
    [] mode = "BALANCED" -> ProcessAudioBalanced(file)
    [] mode = "QUALITY"  -> ProcessAudioQuality(file)

ProcessFile(enabled, file, mode, config) ==
  IF ~IsSupportedFile(enabled, file.ext) \/ "ifstream" \in file.broken
  THEN Failure
  ELSE CASE Medium(enabled, file.ext) = "image" -> ProcessImage(file, mode)
         [] Medium(enabled, file.ext) = "video" ->
              ProcessVideo(file, mode, config)
         [] Medium(enabled, file.ext) = "audio" -> ProcessAudio(file, mode)
         [] Medium(enabled, file.ext) = "none"  -> Failure
=============================================================================
