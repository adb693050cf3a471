\* One input is picked and the behaviour ends: it really stops.
CONSTANTS
  MaxDuration = 12
  MaxCount = 5
  MaxPerSkip = 2
  MaxPackets = 4
  MaxFrames = 4
  Coefficients = {0, 1, 2, 3, 4}
  MaxLength = 5
  Durations = {1, 244, 257, 441000, 441013}
  Rates = {44100, 44113, 48000}
  Channels = {1, 2}
  MaxRequests = 3

SPECIFICATION Spec
CHECK_DEADLOCK FALSE

INVARIANTS TargetsSpread TakenFrames FingerprintForgets PHashSplits AudioFastSums ArtifactOfItsMedium RejectedPrefix SettersReach CopiesFollow
