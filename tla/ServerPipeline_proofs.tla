------------------------ MODULE ServerPipeline_proofs ------------------------
(***************************************************************************)
(* Theorems about ServerPipeline, for every value of its constants.        *)
(***************************************************************************)
EXTENDS ServerPipeline, FiniteSetTheorems, TLAPS

USE StoreAssumption, PipelineAssumption

-----------------------------------------------------------------------------
(* Lemmas about the operators of MediaStore *)

(* The four flag values are different, and a fresh row has one per mode. *)
LEMMA FlagConstants ==
  /\ FreshFlags \in [Modes -> FlagValues]
  /\ {InProgress, Todo, Done, Error} = FlagValues
  /\ InProgress # Todo /\ InProgress # Done /\ InProgress # Error
  /\ Todo # Done /\ Todo # Error /\ Done # Error
BY DEF FreshFlags, FlagValues, InProgress, Todo, Done, Error

(* Marking a file in a mode changes that flag and no other. *)
LEMMA MarkingOne ==
  ASSUME NEW fl \in [Files -> [Modes -> FlagValues]], NEW f \in Files, NEW m \in Modes,
         NEW g \in Files, NEW n \in Modes
  PROVE  /\ SetProcessingFlag(fl, f, m)[g][n] =
              IF g = f /\ n = m /\ fl[f][m] \in {InProgress, Todo} THEN Done ELSE fl[g][n]
         /\ SetProcessingFlagError(fl, f, m)[g][n] =
              IF g = f /\ n = m THEN Error ELSE fl[g][n]
<1>1. ASSUME NEW v PROVE [fl EXCEPT ![f][m] = v][g][n] = IF g = f /\ n = m THEN v ELSE fl[g][n]
  <2>1. CASE g = f
    <3>1. [fl EXCEPT ![f][m] = v][f] = [fl[f] EXCEPT ![m] = v]
      OBVIOUS
    <3>2. [fl[f] EXCEPT ![m] = v][n] = IF n = m THEN v ELSE fl[f][n]
      OBVIOUS
    <3> QED BY <2>1, <3>1, <3>2
  <2>2. CASE g # f
    BY <2>2
  <2> QED BY <2>1, <2>2
<1>2. SetProcessingFlagError(fl, f, m)[g][n] = IF g = f /\ n = m THEN Error ELSE fl[g][n]
  BY <1>1 DEF SetProcessingFlagError
<1>3. CASE fl[f][m] \in {InProgress, Todo}
  <2>1. SetProcessingFlag(fl, f, m) = [fl EXCEPT ![f][m] = Done]
    BY <1>3 DEF SetProcessingFlag
  <2> QED BY <1>1, <1>2, <1>3, <2>1
<1>4. CASE fl[f][m] \notin {InProgress, Todo}
  BY <1>2, <1>4 DEF SetProcessingFlag
<1> QED BY <1>3, <1>4

(* Storing a result keeps the results table well typed. *)
LEMMA StoreTyped ==
  ASSUME NEW res \in [Files -> [Modes -> Results]], NEW f \in Files, NEW m \in Modes,
         NEW x \in Results
  PROVE  StoreProcessingResult(res, f, m, x) \in [Files -> [Modes -> Results]]
<1>1. [res[f] EXCEPT ![m] = x] \in [Modes -> Results]
  OBVIOUS
<1> QED BY <1>1 DEF StoreProcessingResult

(* A statement takes effect or leaves the column as it was. *)
LEMMA AttemptIsOneOf ==
  ASSUME NEW old, NEW new, NEW x \in Attempt(old, new)
  PROVE  x = old \/ x = new
BY DEF Attempt

(* An idle thread is well typed. *)
LEMMA IdleStatesTyped ==
  /\ IdleLoop("top") \in LoopStates
  /\ IdleLoop("off") \in LoopStates
  /\ IdleScanner \in ScannerStates
  /\ IdleRequest \in RequestStates
BY DEF IdleLoop, IdleScanner, IdleRequest, LoopStates, ScannerStates, RequestStates,
       Configs, Metadata, Unreadable, Results, NoResult

-----------------------------------------------------------------------------
(* Type correctness: no interleaving of scans, claims, requests, crashes and
   configuration changes takes a column or a thread's locals out of their
   ranges. *)
THEOREM TypeCorrect == Spec => []TypeOK
<1>1. Init => TypeOK
  BY FlagConstants, IdleStatesTyped
  DEF Init, TypeOK, Versions, Metadata, Unreadable, Results, NoResult, Configs
<1>2. TypeOK /\ [Next]_vars => TypeOK'
  <2> SUFFICES ASSUME TypeOK, [Next]_vars PROVE TypeOK'
    OBVIOUS
  <2>1. CASE \E f \in Files : EditFile(f)
    BY <2>1 DEF EditFile, TypeOK, tables, Versions
  <2>2. CASE Reconfigure
    BY <2>2 DEF Reconfigure, TypeOK, tables
  <2>3. CASE Observe
    BY <2>3 DEF Observe, TypeOK, tables
  <2>4. CASE Crash
    <3>1. crashes' \in 0 .. MaxCrashes
      BY <2>4 DEF Crash, TypeOK
    <3> QED BY <2>4, <3>1, IdleStatesTyped DEF Crash, TypeOK, tables
  <2>5. CASE Restart
    <3>1. flag' \in [Files -> [Modes -> FlagValues]]
      <4>1. ResetInProgress(flag) \in [Files -> [Modes -> FlagValues]]
        BY FlagConstants DEF ResetInProgress, TypeOK
      <4> QED BY <2>5, <4>1, AttemptIsOneOf DEF Restart, TypeOK
    <3> QED BY <2>5, <3>1, IdleStatesTyped DEF Restart, TypeOK
  <2>6. ASSUME NEW s \in Scanners, ScanStep(s) PROVE TypeOK'
    <3>1. ASSUME NEW f \in Files, ScanStat(s, f) PROVE TypeOK'
      BY <3>1 DEF ScanStat, TypeOK, tables, ScannerStates, Metadata, Unreadable
    <3>2. CASE ScanStore(s)
      <4> DEFINE f == scanner[s].file
                 v == scanner[s].stat
      <4>1. f \in Files /\ v \in Metadata /\ scanner' \in [Scanners -> ScannerStates]
        BY <3>2, IdleStatesTyped DEF ScanStore, TypeOK, ScannerStates
      <4>2. FlagsAfterScan(scanned, meta, flag, f, v) \in [Files -> [Modes -> FlagValues]]
        BY <4>1, FlagConstants DEF FlagsAfterScan, TypeOK
      <4> QED BY <3>2, <4>1, <4>2 DEF ScanStore, TypeOK
    <3> QED BY <2>6, <3>1, <3>2 DEF ScanStep
  <2>7. CASE LoopStep
    <3>1. CASE LoopSnapshot
      BY <3>1 DEF LoopSnapshot, TypeOK, tables, LoopStates, Configs
    <3>2. CASE LoopClaim
      <4>1. PICK c, P : /\ flag' = MarkInProgress(flag, P)
                        /\ loop' = [loop EXCEPT !.pc = IF c = NoClaim THEN "top" ELSE "batch",
                                                !.left = [f \in Files |-> Listed(c, f)]]
        BY <3>2 DEF LoopClaim
      <4>2. flag' \in [Files -> [Modes -> FlagValues]]
        BY <4>1, FlagConstants DEF MarkInProgress, TypeOK
      <4>3. [f \in Files |-> Listed(c, f)] \in [Files -> 0 .. 2]
        BY DEF Listed
      <4>4. loop' \in LoopStates
        BY <4>1, <4>3 DEF TypeOK, LoopStates
      <4> QED BY <3>2, <4>2, <4>4 DEF LoopClaim, TypeOK
    <3>3. ASSUME NEW f \in Files, LoopNextFile(f) PROVE TypeOK'
      <4>1. SelectedModes(observed.stack, observed.mode) \subseteq Modes
        BY DEF SelectedModes, TypeOK, Configs
      <4>2. loop.left[f] - 1 \in 0 .. 2
        BY <3>3 DEF LoopNextFile, TypeOK, LoopStates
      <4>3. loop' \in LoopStates
        BY <3>3, <4>1, <4>2 DEF LoopNextFile, TypeOK, LoopStates
      <4> QED BY <3>3, <4>3 DEF LoopNextFile, TypeOK, tables
    <3>4. ASSUME NEW m \in Modes, LoopMark(m) PROVE TypeOK'
      <4>1. SetProcessingFlag(flag, loop.file, m) \in [Files -> [Modes -> FlagValues]]
        BY FlagConstants DEF SetProcessingFlag, TypeOK
      <4>2. flag' \in [Files -> [Modes -> FlagValues]]
        BY <3>4, <4>1, AttemptIsOneOf DEF LoopMark, TypeOK
      <4>3. loop' \in LoopStates
        BY <3>4 DEF LoopMark, TypeOK, LoopStates
      <4> QED BY <3>4, <4>2, <4>3 DEF LoopMark, TypeOK
    <3>5. CASE LoopBatchDone
      BY <3>5, IdleStatesTyped DEF LoopBatchDone, TypeOK, tables
    <3> QED BY <2>7, <3>1, <3>2, <3>3, <3>4, <3>5 DEF LoopStep
  <2>8. ASSUME NEW r \in Requests, RequestStep(r) PROVE TypeOK'
    <3>1. ASSUME NEW f \in Files, ReqBegin(r, f) PROVE TypeOK'
      BY <3>1, IdleStatesTyped DEF ReqBegin, TypeOK, tables, RequestStates, IdleRequest, Configs
    <3>2. CASE ReqProcess(r)
      <4>1. PICK ok \in BOOLEAN :
              request' = [request EXCEPT ![r].pc = "store",
                            ![r].outcome = [ok |-> ok, ver |-> disk[request[r].file]]]
        BY <3>2 DEF ReqProcess
      <4>2. request[r].file \in Files
        BY <3>2 DEF ReqProcess, TypeOK, RequestStates
      <4> DEFINE o == [ok |-> ok, ver |-> disk[request[r].file]]
                 q == [request[r] EXCEPT !.pc = "store", !.outcome = o]
      <4>3. o \in Results
        BY <4>2 DEF Results, TypeOK
      <4>4. q \in RequestStates
        BY <4>2, <4>3 DEF TypeOK, RequestStates
      <4>5. request' = [request EXCEPT ![r] = q]
        BY <4>1 DEF TypeOK
      <4>6. request' \in [Requests -> RequestStates]
        BY <4>4, <4>5 DEF TypeOK
      <4> QED BY <3>2, <4>6 DEF ReqProcess, TypeOK, tables
    <3>3. CASE ReqThrow(r)
      <4> DEFINE q == [request[r] EXCEPT !.pc = "fail", !.mode = config.mode]
      <4>0. config.mode \in Modes
        BY DEF TypeOK, Configs
      <4>1. q \in RequestStates
        BY <3>3, <4>0 DEF ReqThrow, TypeOK, RequestStates
      <4>2. request' = [request EXCEPT ![r] = q]
        BY <3>3 DEF ReqThrow, TypeOK
      <4> QED BY <3>3, <4>1, <4>2 DEF ReqThrow, TypeOK, tables
    <3>4. CASE ReqStore(r)
      <4> DEFINE q == [request[r] EXCEPT !.pc = IF request[r].outcome.ok THEN "done" ELSE "fail"]
      <4>1. q \in RequestStates
        BY <3>4 DEF ReqStore, TypeOK, RequestStates
      <4>2. request' = [request EXCEPT ![r] = q] \/ request' = [request EXCEPT ![r] = IdleRequest]
        BY <3>4 DEF ReqStore, TypeOK
      <4>3. request[r].file \in Files /\ request[r].mode \in Modes /\ request[r].outcome \in Results
        BY <3>4 DEF ReqStore, TypeOK, RequestStates
      <4>4. result' \in [Files -> [Modes -> Results]]
        <5>1. result' = StoreProcessingResult(result, request[r].file, request[r].mode, request[r].outcome)
              \/ result' = result
          BY <3>4 DEF ReqStore
        <5>2. result \in [Files -> [Modes -> Results]]
          BY DEF TypeOK
        <5>3. StoreProcessingResult(result, request[r].file, request[r].mode, request[r].outcome)
                \in [Files -> [Modes -> Results]]
          BY <4>3, <5>2, StoreTyped
        <5> QED BY <5>1, <5>2, <5>3
      <4>5. request' \in [Requests -> RequestStates]
        BY <4>1, <4>2, IdleStatesTyped DEF TypeOK
      <4> QED BY <3>4, <4>4, <4>5 DEF ReqStore, TypeOK
    <3>5. CASE ReqMarkDone(r)
      <4>1. SetProcessingFlag(flag, request[r].file, request[r].mode) \in [Files -> [Modes -> FlagValues]]
        BY FlagConstants DEF SetProcessingFlag, TypeOK
      <4> QED BY <3>5, <4>1, AttemptIsOneOf, IdleStatesTyped DEF ReqMarkDone, TypeOK
    <3>6. CASE ReqMarkFailed(r)
      <4>1. SetProcessingFlagError(flag, request[r].file, request[r].mode) \in [Files -> [Modes -> FlagValues]]
        BY FlagConstants DEF SetProcessingFlagError, TypeOK
      <4> QED BY <3>6, <4>1, AttemptIsOneOf, IdleStatesTyped DEF ReqMarkFailed, TypeOK
    <3> QED BY <2>8, <3>1, <3>2, <3>3, <3>4, <3>5, <3>6 DEF RequestStep
  <2>9. CASE UNCHANGED vars
    BY <2>9 DEF vars, tables, TypeOK
  <2> QED BY <2>1, <2>2, <2>3, <2>4, <2>5, <2>6, <2>7, <2>8, <2>9 DEF Next
<1> QED BY <1>1, <1>2, PTL DEF Spec

-----------------------------------------------------------------------------
(* The claims of the loop *)

Busy == {f \in Files : \E m \in Modes : flag[f][m] = InProgress}

NoNewClaims ==
  \A f \in Files, m \in Modes : flag'[f][m] = InProgress => flag[f][m] = InProgress

(* No step but a claim puts a flag to -1. *)
LEMMA OnlyClaimsClaim ==
  ASSUME TypeOK, LoopShape, [Next]_vars, ~LoopClaim
  PROVE  NoNewClaims
<1>1. ASSUME NEW f \in Files, NEW m \in Modes, flag' \in Attempt(flag, SetProcessingFlag(flag, f, m))
      PROVE  NoNewClaims
  <2>1. flag \in [Files -> [Modes -> FlagValues]]
    BY DEF TypeOK
  <2>2. flag' = flag \/ flag' = SetProcessingFlag(flag, f, m)
    BY <1>1, AttemptIsOneOf
  <2>3. ASSUME NEW g \in Files, NEW n \in Modes, flag'[g][n] = InProgress
        PROVE  flag[g][n] = InProgress
    BY <2>1, <2>2, <2>3, MarkingOne, FlagConstants
  <2> QED BY <2>3 DEF NoNewClaims
<1>2. ASSUME NEW f \in Files, NEW m \in Modes, flag' \in Attempt(flag, SetProcessingFlagError(flag, f, m))
      PROVE  NoNewClaims
  <2>1. flag \in [Files -> [Modes -> FlagValues]]
    BY DEF TypeOK
  <2>2. flag' = flag \/ flag' = SetProcessingFlagError(flag, f, m)
    BY <1>2, AttemptIsOneOf
  <2>3. ASSUME NEW g \in Files, NEW n \in Modes, flag'[g][n] = InProgress
        PROVE  flag[g][n] = InProgress
    BY <2>1, <2>2, <2>3, MarkingOne, FlagConstants
  <2> QED BY <2>3 DEF NoNewClaims
<1>3. ASSUME flag' = flag PROVE NoNewClaims
  BY <1>3 DEF NoNewClaims
<1>4. CASE Restart
  BY <1>4, AttemptIsOneOf, FlagConstants DEF Restart, ResetInProgress, NoNewClaims, TypeOK
<1>5. ASSUME NEW s \in Scanners, ScanStore(s) PROVE NoNewClaims
  <2>1. scanner[s].file \in Files
    BY <1>5 DEF ScanStore, TypeOK, ScannerStates
  <2>2. \/ flag' = flag
        \/ flag' = [flag EXCEPT ![scanner[s].file] = FreshFlags]
    BY <1>5 DEF ScanStore, FlagsAfterScan
  <2> QED BY <2>1, <2>2, FlagConstants DEF FreshFlags, NoNewClaims, TypeOK
<1>6. ASSUME NEW m \in Modes, LoopMark(m) PROVE NoNewClaims
  BY <1>6, <1>1 DEF LoopMark, LoopShape
<1>7. ASSUME NEW r \in Requests, RequestStep(r) PROVE NoNewClaims
  <2>1. CASE ReqMarkDone(r)
    <3>1. request[r].file \in Files /\ request[r].mode \in Modes
      BY <2>1 DEF ReqMarkDone, TypeOK, RequestStates
    <3> QED BY <2>1, <3>1, <1>1 DEF ReqMarkDone
  <2>2. CASE ReqMarkFailed(r)
    <3>1. request[r].file \in Files /\ request[r].mode \in Modes
      BY <2>2 DEF ReqMarkFailed, TypeOK, RequestStates
    <3> QED BY <2>2, <3>1, <1>2 DEF ReqMarkFailed
  <2>3. CASE ~ReqMarkDone(r) /\ ~ReqMarkFailed(r)
    BY <1>7, <2>3, <1>3
    DEF RequestStep, ReqBegin, ReqProcess, ReqThrow, ReqStore, tables
  <2> QED BY <2>1, <2>2, <2>3
<1>8. ASSUME NEW s \in Scanners, ScanStep(s) PROVE NoNewClaims
  BY <1>8, <1>5, <1>3 DEF ScanStep, ScanStat, tables
<1>9. CASE LoopStep
  BY <1>9, <1>6, <1>3
  DEF LoopStep, LoopSnapshot, LoopNextFile, LoopBatchDone, tables
<1>10. CASE (\E f \in Files : EditFile(f)) \/ Reconfigure \/ Observe \/ Crash \/ UNCHANGED vars
  BY <1>10, <1>3 DEF EditFile, Reconfigure, Observe, Crash, vars, tables
<1> QED BY <1>4, <1>7, <1>8, <1>9, <1>10 DEF Next

(* The files in progress are finitely many. *)
LEMMA BusyFinite ==
  ASSUME TypeOK
  PROVE  IsFiniteSet(Busy) /\ Cardinality(Busy) \in Nat
<1>1. Busy \subseteq Files
  BY DEF Busy
<1> QED BY <1>1, FS_Subset, FS_CardinalityType

(* Without new claims there are no more files in progress than before. *)
LEMMA FewerBusy ==
  ASSUME TypeOK, TypeOK', NoNewClaims
  PROVE  Cardinality(Busy') <= Cardinality(Busy)
<1>1. Busy' \subseteq Busy
  BY DEF Busy, NoNewClaims
<1> QED BY <1>1, BusyFinite, FS_Subset

(* A configuration selects some of the modes. *)
LEMMA SelectedModesTyped ==
  ASSUME NEW s \in BOOLEAN, NEW m \in Modes
  PROVE  SelectedModes(s, m) \subseteq Modes /\ SelectedModes(s, m) # {}
BY DEF SelectedModes

(* The loop's locals go together after every step. *)
LEMMA ShapeStep == TypeOK /\ LoopShape /\ [Next]_vars => LoopShape'
<1> SUFFICES ASSUME TypeOK, LoopShape, [Next]_vars PROVE LoopShape'
  OBVIOUS
<1>1. ASSUME UNCHANGED <<loop, up>> PROVE LoopShape'
  BY <1>1 DEF LoopShape
<1>2. CASE Crash
  BY <1>2 DEF Crash, LoopShape, IdleLoop
<1>3. CASE Restart
  BY <1>3 DEF Restart, LoopShape, IdleLoop
<1>4. CASE LoopSnapshot
  BY <1>4 DEF LoopSnapshot, LoopShape, TypeOK, LoopStates
<1>5. CASE LoopClaim
  <2>1. PICK c, S : loop' = [loop EXCEPT !.pc = IF c = NoClaim THEN "top" ELSE "batch",
                                         !.left = [f \in Files |-> Listed(c, f)]]
    BY <1>5 DEF LoopClaim
  <2>2. c = NoClaim => \A f \in Files : Listed(c, f) = 0
    BY DEF NoClaim, Listed
  <2> QED BY <1>5, <2>1, <2>2 DEF LoopClaim, LoopShape, TypeOK, LoopStates
<1>6. ASSUME NEW f \in Files, LoopNextFile(f) PROVE LoopShape'
  <2>1. SelectedModes(observed.stack, observed.mode) # {}
    BY SelectedModesTyped DEF TypeOK, Configs
  <2> QED BY <1>6, <2>1 DEF LoopNextFile, LoopShape, TypeOK, LoopStates
<1>7. ASSUME NEW m \in Modes, LoopMark(m) PROVE LoopShape'
  <2>1. CASE loop.marks = {m}
    BY <1>7, <2>1 DEF LoopMark, LoopShape, TypeOK, LoopStates
  <2>2. CASE loop.marks # {m}
    <3>1. loop.marks \ {m} # {}
      BY <1>7, <2>2 DEF LoopMark
    <3> QED BY <1>7, <2>2, <3>1 DEF LoopMark, LoopShape, TypeOK, LoopStates
  <2> QED BY <2>1, <2>2
<1>8. CASE LoopBatchDone
  BY <1>8 DEF LoopBatchDone, LoopShape, IdleLoop
<1>9. CASE (\E f \in Files : EditFile(f)) \/ Reconfigure \/ Observe \/ UNCHANGED vars
  BY <1>9, <1>1 DEF EditFile, Reconfigure, Observe, vars
<1>10. ASSUME NEW s \in Scanners, ScanStep(s) PROVE LoopShape'
  BY <1>10, <1>1 DEF ScanStep, ScanStat, ScanStore
<1>11. ASSUME NEW r \in Requests, RequestStep(r) PROVE LoopShape'
  BY <1>11, <1>1 DEF RequestStep, ReqBegin, ReqProcess, ReqThrow, ReqStore, ReqMarkDone, ReqMarkFailed
<1> QED BY <1>2, <1>3, <1>4, <1>5, <1>6, <1>7, <1>8, <1>9, <1>10, <1>11 DEF Next, LoopStep

-----------------------------------------------------------------------------
(* What a frozen configuration keeps *)

(* A frozen configuration stays the one the process started with. *)
LEMMA ConfigStep == TypeOK /\ Frozen /\ ConfigKept /\ [Next]_vars => ConfigKept'
<1> SUFFICES ASSUME TypeOK, Frozen, ConfigKept, [Next]_vars PROVE ConfigKept'
  OBVIOUS
<1>0. ~Reconfigurable
  BY DEF Frozen
<1>1. ASSUME UNCHANGED <<config, observed, loop>> PROVE ConfigKept'
  BY <1>1 DEF ConfigKept
<1>2. CASE Observe \/ Crash \/ Restart \/ LoopBatchDone
  BY <1>2 DEF Observe, Crash, Restart, LoopBatchDone, ConfigKept, IdleLoop
<1>3. CASE LoopSnapshot
  BY <1>3 DEF LoopSnapshot, ConfigKept, TypeOK, LoopStates
<1>4. CASE LoopClaim
  BY <1>4 DEF LoopClaim, ConfigKept, TypeOK, LoopStates
<1>5. ASSUME NEW f \in Files, LoopNextFile(f) PROVE ConfigKept'
  BY <1>5 DEF LoopNextFile, ConfigKept, TypeOK, LoopStates
<1>6. ASSUME NEW m \in Modes, LoopMark(m) PROVE ConfigKept'
  BY <1>6 DEF LoopMark, ConfigKept, TypeOK, LoopStates
<1>7. CASE (\E f \in Files : EditFile(f)) \/ Reconfigure \/ UNCHANGED vars
  BY <1>0, <1>1, <1>7 DEF EditFile, Reconfigure, vars
<1>8. ASSUME NEW s \in Scanners, ScanStep(s) PROVE ConfigKept'
  BY <1>8, <1>1 DEF ScanStep, ScanStat, ScanStore
<1>9. ASSUME NEW r \in Requests, RequestStep(r) PROVE ConfigKept'
  BY <1>9, <1>1 DEF RequestStep, ReqBegin, ReqProcess, ReqThrow, ReqStore, ReqMarkDone, ReqMarkFailed
<1> QED BY <1>2, <1>3, <1>4, <1>5, <1>6, <1>7, <1>8, <1>9 DEF Next, LoopStep

(* When the loop is about to claim, nothing is in progress: the query for
   stuck files comes back empty. *)
LEMMA NothingStuckAtClaim ==
  ASSUME TypeOK, Frozen, PipelineInv, loop.pc = "claim"
  PROVE  \A f \in Files, m \in Modes : flag[f][m] # InProgress
<1>1. up /\ loop.marks = {} /\ \A f \in Files : loop.left[f] = 0
  BY DEF PipelineInv, LoopShape
<1> QED BY <1>1 DEF PipelineInv, InProgressHeld, Holds

(* A claim of a loop that holds nothing puts at most a batch in progress. *)
LEMMA ClaimStep ==
  ASSUME TypeOK, TypeOK', Frozen, PipelineInv, LoopClaim
  PROVE  ClaimedModes' /\ InProgressHeld' /\ ListedOnce' /\ BatchBounded'
<1> DEFINE M == SelectedModes(InitialConfig.stack, InitialConfig.mode)
<1>1. loop.pc = "claim" /\ loop.mode = InitialConfig.mode /\ loop.stack = InitialConfig.stack
  BY DEF LoopClaim, PipelineInv, ConfigKept
<1>2. \A f \in Files, m \in Modes : flag[f][m] # InProgress
  BY <1>1, NothingStuckAtClaim
<1>3. PICK c \in Selections(scanned, flag, M) :
        /\ flag' = MarkInProgress(flag, Selected(c) \X M)
        /\ loop' = [loop EXCEPT !.pc = IF c = NoClaim THEN "top" ELSE "batch",
                                !.left = [f \in Files |-> Listed(c, f)]]
  <2>1. PICK c \in Selections(scanned, flag, M) :
          \E P \in MarkedPairs(c, M) :
            /\ flag' = MarkInProgress(flag, P)
            /\ loop' = [loop EXCEPT !.pc = IF c = NoClaim THEN "top" ELSE "batch",
                                    !.left = [f \in Files |-> Listed(c, f)]]
    BY <1>1 DEF LoopClaim, ClaimForAnyMode, ClaimForMode, SelectedModes
  <2>2. MarkedPairs(c, M) = {Selected(c) \X M}
    BY DEF MarkedPairs, Frozen
  <2> QED BY <2>1, <2>2
<1>5. c.stuck = {}
  <2>1. CASE ~HasStatusColumn
    BY <2>1 DEF Selections, NoClaim
  <2>2. CASE HasStatusColumn
    <3>1. c.stuck \subseteq Stuck(scanned, flag, M)
      BY <2>2 DEF Selections
    <3>2. M \subseteq Modes
      BY SelectedModesTyped DEF Configs
    <3>3. Stuck(scanned, flag, M) = {}
      BY <1>2, <3>2 DEF Stuck, TypeOK
    <3> QED BY <3>1, <3>3
  <2> QED BY <2>1, <2>2
<1>6. c.pending \subseteq Files /\ Cardinality(c.pending) <= BatchSize
  <2>1. Cardinality({}) = 0
    BY FS_EmptySet
  <2>2. CASE ~HasStatusColumn
    BY <2>1, <2>2 DEF Selections, NoClaim
  <2>3. CASE HasStatusColumn
    <3>1. c.pending \subseteq Pending(scanned, flag, M)
      BY <2>3 DEF Selections
    <3>2. c.pending \in Limit(Pending(scanned, flag, M), BatchSize - Cardinality(c.stuck))
      BY <2>3 DEF Selections
    <3>3. Cardinality(c.pending) <= BatchSize - Cardinality(c.stuck)
      BY <3>2 DEF Limit
    <3> QED BY <1>5, <2>1, <3>1, <3>3 DEF Pending, TypeOK
  <2> QED BY <2>2, <2>3
<1>7. Selected(c) = c.pending
  BY <1>5 DEF Selected
<1>8. ASSUME NEW f \in Files, NEW m \in Modes, flag'[f][m] = InProgress
      PROVE  f \in c.pending /\ m \in M
  BY <1>2, <1>3, <1>7, <1>8 DEF MarkInProgress
<1>9. \A f \in Files : loop'.left[f] = IF f \in c.pending THEN 1 ELSE 0
  <2>1. loop'.left = [f \in Files |-> Listed(c, f)]
    BY <1>3 DEF TypeOK, LoopStates
  <2>2. \A f \in Files : Listed(c, f) = IF f \in c.pending THEN 1 ELSE 0
    BY <1>5 DEF Listed
  <2> QED BY <2>1, <2>2
<1>10. ClaimedModes'
  BY <1>8 DEF ClaimedModes
<1>11. InProgressHeld'
  BY <1>8, <1>9 DEF InProgressHeld, Holds
<1>12. ListedOnce'
  BY <1>9 DEF ListedOnce
<1>13. BatchBounded'
  <2>1. Busy' \subseteq c.pending
    BY <1>8 DEF Busy
  <2>2. IsFiniteSet(c.pending)
    BY <1>6, FS_Subset
  <2>3. Cardinality(Busy') <= Cardinality(c.pending)
    BY <2>1, <2>2, FS_Subset
  <2>4. IsFiniteSet(Busy') /\ Cardinality(Busy') \in Nat /\ Cardinality(c.pending) \in Nat
    BY <2>1, <2>2, FS_Subset, FS_CardinalityType
  <2>5. Cardinality(Busy') <= BatchSize
    BY <1>6, <2>3, <2>4
  <2> QED BY <2>5 DEF BatchBounded, Busy
<1> QED BY <1>10, <1>11, <1>12, <1>13

(* Every other step keeps a claim with the loop until its flag has moved on. *)
LEMMA HeldStep ==
  ASSUME TypeOK, TypeOK', Frozen, PipelineInv, NoNewClaims, [Next]_vars, ~LoopClaim
  PROVE  InProgressHeld' /\ ListedOnce'
<1>0. /\ LoopShape /\ ConfigKept /\ ClaimedModes /\ InProgressHeld /\ ListedOnce
      /\ config = InitialConfig /\ observed = InitialConfig
  BY DEF PipelineInv, ConfigKept
<1>1. ASSUME UNCHANGED <<loop, up>> PROVE InProgressHeld' /\ ListedOnce'
  BY <1>0, <1>1 DEF InProgressHeld, Holds, ListedOnce, NoNewClaims
<1>2. CASE Crash
  BY <1>2 DEF Crash, InProgressHeld, ListedOnce, IdleLoop
<1>3. CASE Restart
  <2>1. flag' = ResetInProgress(flag)
    BY <1>3 DEF Restart, Attempt, Frozen
  <2>2. \A f \in Files, m \in Modes : flag'[f][m] # InProgress
    <3>1. ASSUME NEW f \in Files, NEW m \in Modes
          PROVE  flag'[f][m] = IF flag[f][m] = InProgress THEN Todo ELSE flag[f][m]
      BY <2>1 DEF ResetInProgress
    <3> QED BY <3>1, FlagConstants
  <2>3. \A f \in Files : loop'.left[f] = 0
    BY <1>3 DEF Restart, IdleLoop
  <2>4. InProgressHeld'
    BY <2>2 DEF InProgressHeld
  <2>5. ListedOnce'
    BY <2>3 DEF ListedOnce
  <2> QED BY <2>4, <2>5
<1>4. CASE LoopSnapshot
  <2>1. loop'.left = loop.left /\ loop'.file = loop.file /\ loop'.marks = loop.marks /\ up' = up
    BY <1>4 DEF LoopSnapshot, TypeOK, LoopStates
  <2> QED BY <1>0, <2>1 DEF InProgressHeld, Holds, ListedOnce, NoNewClaims
<1>5. ASSUME NEW f \in Files, LoopNextFile(f) PROVE InProgressHeld' /\ ListedOnce'
  <2>1. /\ loop.marks = {} /\ loop'.file = f /\ up' = up
        /\ loop'.marks = SelectedModes(InitialConfig.stack, InitialConfig.mode)
        /\ \A g \in Files : loop'.left[g] = IF g = f THEN loop.left[g] - 1 ELSE loop.left[g]
    BY <1>0, <1>5 DEF LoopNextFile, LoopShape, TypeOK, LoopStates
  <2>2. ASSUME up, NEW g \in Files, NEW m \in Modes, flag'[g][m] = InProgress PROVE Holds(g, m)'
    <3>1. flag[g][m] = InProgress
      BY <2>2 DEF NoNewClaims
    <3>2. m \in SelectedModes(InitialConfig.stack, InitialConfig.mode)
      BY <1>0, <3>1 DEF ClaimedModes
    <3>3. Holds(g, m)
      BY <1>0, <2>2, <3>1 DEF InProgressHeld
    <3> QED BY <2>1, <3>2, <3>3 DEF Holds
  <2>3. \A g \in Files : loop.left[g] \in 0 .. 2
    BY DEF TypeOK, LoopStates
  <2>4. InProgressHeld'
    BY <2>2, <2>1 DEF InProgressHeld
  <2>5. ListedOnce'
    BY <1>0, <2>1, <2>3 DEF ListedOnce
  <2> QED BY <2>4, <2>5
<1>6. ASSUME NEW m \in Modes, LoopMark(m) PROVE InProgressHeld' /\ ListedOnce'
  <2>1. /\ loop.file \in Files /\ up' = up /\ loop'.left = loop.left
        /\ loop'.marks = loop.marks \ {m}
        /\ loop'.marks # {} => loop'.file = loop.file
    BY <1>0, <1>6 DEF LoopMark, LoopShape, TypeOK, LoopStates
  <2>2. flag' = SetProcessingFlag(flag, loop.file, m)
    BY <1>6 DEF LoopMark, Attempt, Frozen
  <2>3. flag \in [Files -> [Modes -> FlagValues]]
    BY DEF TypeOK
  <2>4. flag'[loop.file][m] # InProgress
    BY <2>1, <2>2, <2>3, MarkingOne, FlagConstants
  <2>5. ASSUME up, NEW g \in Files, NEW n \in Modes, flag'[g][n] = InProgress PROVE Holds(g, n)'
    <3>1. flag[g][n] = InProgress
      BY <2>5 DEF NoNewClaims
    <3>2. Holds(g, n)
      BY <1>0, <2>5, <3>1 DEF InProgressHeld
    <3>3. ~(g = loop.file /\ n = m)
      BY <2>4, <2>5
    <3> QED BY <2>1, <3>2, <3>3 DEF Holds
  <2> QED BY <1>0, <2>1, <2>5 DEF InProgressHeld, ListedOnce
<1>7. CASE LoopBatchDone
  <2>1. loop.marks = {} /\ up' = up /\ \A f \in Files : loop.left[f] = 0 /\ loop'.left[f] = 0
    BY <1>0, <1>7 DEF LoopBatchDone, LoopShape, IdleLoop
  <2>2. up => \A f \in Files, m \in Modes : flag[f][m] # InProgress
    BY <1>0, <2>1 DEF InProgressHeld, Holds
  <2> QED BY <2>1, <2>2 DEF InProgressHeld, ListedOnce, NoNewClaims
<1>8. CASE (\E f \in Files : EditFile(f)) \/ Reconfigure \/ Observe \/ UNCHANGED vars
  BY <1>8, <1>1 DEF EditFile, Reconfigure, Observe, vars
<1>9. ASSUME NEW s \in Scanners, ScanStep(s) PROVE InProgressHeld' /\ ListedOnce'
  BY <1>9, <1>1 DEF ScanStep, ScanStat, ScanStore
<1>10. ASSUME NEW r \in Requests, RequestStep(r) PROVE InProgressHeld' /\ ListedOnce'
  BY <1>10, <1>1 DEF RequestStep, ReqBegin, ReqProcess, ReqThrow, ReqStore, ReqMarkDone, ReqMarkFailed
<1> QED BY <1>2, <1>3, <1>4, <1>5, <1>6, <1>7, <1>8, <1>9, <1>10 DEF Next, LoopStep

(* The invariant is inductive. *)
LEMMA PipelineStep == TypeOK /\ TypeOK' /\ PipelineInv /\ [Next]_vars => PipelineInv'
<1> SUFFICES ASSUME TypeOK, TypeOK', PipelineInv, [Next]_vars PROVE PipelineInv'
  OBVIOUS
<1>1. LoopShape'
  BY ShapeStep DEF PipelineInv
<1>2. CASE ~Frozen
  BY <1>1, <1>2 DEF PipelineInv, Frozen, ConfigKept, ClaimedModes, InProgressHeld, ListedOnce, BatchBounded
<1>3. CASE Frozen /\ LoopClaim
  BY <1>1, <1>3, ConfigStep, ClaimStep DEF PipelineInv
<1>4. CASE Frozen /\ ~LoopClaim
  <2>1. NoNewClaims
    BY <1>4, OnlyClaimsClaim DEF PipelineInv
  <2>2. ClaimedModes'
    BY <2>1 DEF PipelineInv, ClaimedModes, NoNewClaims
  <2>3. BatchBounded'
    <3>1. Cardinality(Busy) <= BatchSize
      BY <1>4 DEF PipelineInv, BatchBounded, Busy
    <3>2. Cardinality(Busy') <= Cardinality(Busy)
      BY <2>1, FewerBusy
    <3>3. Cardinality(Busy) \in Nat /\ Cardinality(Busy') \in Nat
      <4>1. Busy' \subseteq Files /\ IsFiniteSet(Busy')
        BY FS_Subset DEF Busy
      <4> QED BY <4>1, BusyFinite, FS_CardinalityType
    <3>4. Cardinality(Busy') <= BatchSize
      BY <3>1, <3>2, <3>3
    <3> QED BY <3>4 DEF BatchBounded, Busy
  <2> QED BY <1>1, <1>4, <2>1, <2>2, <2>3, ConfigStep, HeldStep DEF PipelineInv
<1> QED BY <1>2, <1>3, <1>4

(* The invariant holds of an empty database. *)
LEMMA PipelineStart == Init => PipelineInv
<1> SUFFICES ASSUME Init PROVE PipelineInv
  OBVIOUS
<1>1. \A f \in Files, m \in Modes : flag[f][m] # InProgress
  BY FlagConstants DEF Init, FreshFlags
<1>2. Busy = {}
  BY <1>1 DEF Busy
<1>3. BatchBounded
  BY <1>2, FS_EmptySet DEF BatchBounded, Busy
<1> QED BY <1>1, <1>3
    DEF Init, IdleLoop, PipelineInv, LoopShape, ConfigKept, ClaimedModes, InProgressHeld, ListedOnce

(* The inductive invariant: the loop's shape, the configuration it claimed
   under, and the three properties below hold together in every state. *)
THEOREM PipelineInvariant == Spec => []PipelineInv
<1>1. Init => PipelineInv
  BY PipelineStart
<1>2. TypeOK /\ TypeOK' /\ PipelineInv /\ [Next]_vars => PipelineInv'
  BY PipelineStep
<1> QED BY <1>1, <1>2, TypeCorrect, PTL DEF Spec

(* For every number of files, modes, scanners, requests and crashes: with a
   frozen configuration and a database that does not fail, a flag at -1
   belongs to the batch of the running loop. *)
THEOREM InProgressIsHeld == Spec => []InProgressHeld
<1>1. PipelineInv => InProgressHeld
  BY DEF PipelineInv
<1> QED BY <1>1, PipelineInvariant, PTL

(* Under the same conditions at most one batch is in progress, also while the
   process is down. *)
THEOREM AtMostOneBatch == Spec => []BatchBounded
<1>1. PipelineInv => BatchBounded
  BY DEF PipelineInv
<1> QED BY <1>1, PipelineInvariant, PTL

(* Under the same conditions no batch lists a file twice. *)
THEOREM EachFileListedOnce == Spec => []ListedOnce
<1>1. PipelineInv => ListedOnce
  BY DEF PipelineInv
<1> QED BY <1>1, PipelineInvariant, PTL

-----------------------------------------------------------------------------
(* ServerPipeline implements FlagLedger *)

Bar == [f \in Files |-> [m \in Modes |-> StateName(flag[f][m])]]

(* How the flag values read in the ledger. *)
LEMMA StateNames ==
  /\ StateName(InProgress) = "busy"
  /\ StateName(Todo) = "todo"
  /\ StateName(Done) = "done"
  /\ StateName(Error) = "failed"
BY DEF StateName, InProgress, Todo, Done, Error

(* An entry of the ledger, now and after the step. *)
LEMMA BarEntry ==
  ASSUME NEW f \in Files, NEW m \in Modes
  PROVE  Bar[f][m] = StateName(flag[f][m]) /\ Bar'[f][m] = StateName(flag'[f][m])
BY DEF Bar

(* The ledger is a function of file and mode. *)
LEMMA BarTyped ==
  /\ Bar = [f \in Files |-> [m \in Modes |-> Bar[f][m]]]
  /\ Bar' = [f \in Files |-> [m \in Modes |-> Bar'[f][m]]]
BY DEF Bar

(* Two ledgers with the same entries are the same. *)
LEMMA SameEntries ==
  ASSUME NEW F, NEW G,
         F = [f \in Files |-> [m \in Modes |-> F[f][m]]],
         G = [f \in Files |-> [m \in Modes |-> G[f][m]]],
         \A f \in Files, m \in Modes : F[f][m] = G[f][m]
  PROVE  F = G
<1>1. [f \in Files |-> [m \in Modes |-> F[f][m]]] = [f \in Files |-> [m \in Modes |-> G[f][m]]]
  OBVIOUS
<1> QED BY <1>1

(* Every flag is one of the four values. *)
LEMMA FlagEntry ==
  ASSUME TypeOK, NEW f \in Files, NEW m \in Modes
  PROVE  flag[f][m] \in FlagValues
BY DEF TypeOK

(* setProcessingFlag is the ledger's Finish, or nothing. *)
LEMMA MarkRefines ==
  ASSUME TypeOK, NEW f \in Files, NEW m \in Modes,
         flag' \in Attempt(flag, SetProcessingFlag(flag, f, m))
  PROVE  Bar' = Bar \/ Ledger!Finish(f, m)
<1>1. flag \in [Files -> [Modes -> FlagValues]]
  BY DEF TypeOK
<1>2. CASE flag' = flag
  BY <1>2 DEF Bar
<1>3. CASE flag' = SetProcessingFlag(flag, f, m) /\ flag[f][m] \notin {InProgress, Todo}
  BY <1>3 DEF SetProcessingFlag, Bar
<1>4. CASE flag' = SetProcessingFlag(flag, f, m) /\ flag[f][m] \in {InProgress, Todo}
  <2>1. Bar[f][m] \in {"todo", "busy"}
    BY <1>4, StateNames, BarEntry
  <2>2. ASSUME NEW g \in Files, NEW n \in Modes
        PROVE  Bar'[g][n] = [Bar EXCEPT ![f][m] = "done"][g][n]
    <3>1. flag'[g][n] = IF g = f /\ n = m THEN Done ELSE flag[g][n]
      BY <1>1, <1>4, MarkingOne
    <3>2. Bar'[g][n] = IF g = f /\ n = m THEN "done" ELSE Bar[g][n]
      BY <3>1, StateNames, BarEntry
    <3>3. [Bar EXCEPT ![f][m] = "done"][g][n] = IF g = f /\ n = m THEN "done" ELSE Bar[g][n]
      BY DEF Bar
    <3> QED BY <3>2, <3>3
  <2>3. [Bar EXCEPT ![f][m] = "done"] =
          [g \in Files |-> [n \in Modes |-> [Bar EXCEPT ![f][m] = "done"][g][n]]]
    BY DEF Bar
  <2>4. Bar' = [Bar EXCEPT ![f][m] = "done"]
    BY <2>2, <2>3, BarTyped, SameEntries
  <2> QED BY <2>1, <2>4 DEF Ledger!Finish, Bar
<1> QED BY <1>2, <1>3, <1>4, AttemptIsOneOf

(* setProcessingFlagError is the ledger's Fail, or nothing. *)
LEMMA FailRefines ==
  ASSUME TypeOK, NEW f \in Files, NEW m \in Modes,
         flag' \in Attempt(flag, SetProcessingFlagError(flag, f, m))
  PROVE  Bar' = Bar \/ Ledger!Fail(f, m)
<1>1. flag \in [Files -> [Modes -> FlagValues]]
  BY DEF TypeOK
<1>2. CASE flag' = flag
  BY <1>2 DEF Bar
<1>3. CASE flag' = SetProcessingFlagError(flag, f, m)
  <2>2. ASSUME NEW g \in Files, NEW n \in Modes
        PROVE  Bar'[g][n] = [Bar EXCEPT ![f][m] = "failed"][g][n]
    <3>1. flag'[g][n] = IF g = f /\ n = m THEN Error ELSE flag[g][n]
      BY <1>1, <1>3, MarkingOne
    <3>2. Bar'[g][n] = IF g = f /\ n = m THEN "failed" ELSE Bar[g][n]
      BY <3>1, StateNames, BarEntry
    <3>3. [Bar EXCEPT ![f][m] = "failed"][g][n] = IF g = f /\ n = m THEN "failed" ELSE Bar[g][n]
      BY DEF Bar
    <3> QED BY <3>2, <3>3
  <2>3. [Bar EXCEPT ![f][m] = "failed"] =
          [g \in Files |-> [n \in Modes |-> [Bar EXCEPT ![f][m] = "failed"][g][n]]]
    BY DEF Bar
  <2>4. Bar' = [Bar EXCEPT ![f][m] = "failed"]
    BY <2>2, <2>3, BarTyped, SameEntries
  <2> QED BY <2>4 DEF Ledger!Fail, Bar
<1> QED BY <1>2, <1>3, AttemptIsOneOf

(* storeScannedFile is the ledger's Reopen, or nothing. *)
LEMMA ScanRefines ==
  ASSUME TypeOK, NEW s \in Scanners, ScanStore(s)
  PROVE  Bar' = Bar \/ \E f \in Files : Ledger!Reopen(f)
<1>1. PICK f \in Files : flag' = flag \/ flag' = [flag EXCEPT ![f] = FreshFlags]
  <2>1. scanner[s].file \in Files
    BY DEF ScanStore, TypeOK, ScannerStates
  <2> QED BY <2>1 DEF ScanStore, FlagsAfterScan
<1>2. CASE flag' = flag
  BY <1>2 DEF Bar
<1>3. CASE flag' = [flag EXCEPT ![f] = FreshFlags]
  <2>1. ASSUME NEW g \in Files, NEW n \in Modes
        PROVE  Bar'[g][n] = [Bar EXCEPT ![f] = [m \in Modes |-> "todo"]][g][n]
    <3>1. flag'[g][n] = IF g = f THEN Todo ELSE flag[g][n]
      BY <1>3 DEF FreshFlags, TypeOK
    <3>2. Bar'[g][n] = IF g = f THEN "todo" ELSE Bar[g][n]
      BY <3>1, StateNames, BarEntry
    <3> QED BY <3>2 DEF Bar
  <2>2. [Bar EXCEPT ![f] = [m \in Modes |-> "todo"]] =
          [g \in Files |-> [n \in Modes |-> [Bar EXCEPT ![f] = [m \in Modes |-> "todo"]][g][n]]]
    BY DEF Bar
  <2>3. Bar' = [Bar EXCEPT ![f] = [m \in Modes |-> "todo"]]
    BY <2>1, <2>2, BarTyped, SameEntries
  <2> QED BY <2>3 DEF Ledger!Reopen, Bar
<1> QED BY <1>1, <1>2, <1>3

(* The reset at startup is the ledger's Recover, or nothing. *)
LEMMA RestartRefines ==
  ASSUME TypeOK, Restart
  PROVE  Bar' = Bar \/ Ledger!Recover
<1>1. CASE flag' = flag
  BY <1>1 DEF Bar
<1>2. CASE flag' = ResetInProgress(flag)
  <2>1. ASSUME NEW f \in Files, NEW m \in Modes
        PROVE  Bar'[f][m] = IF Bar[f][m] = "busy" THEN "todo" ELSE Bar[f][m]
    <3>1. flag'[f][m] = IF flag[f][m] = InProgress THEN Todo ELSE flag[f][m]
      BY <1>2 DEF ResetInProgress
    <3>2. flag[f][m] \in {InProgress, Todo, Done, Error}
      BY FlagEntry, FlagConstants
    <3> QED BY <3>1, <3>2, StateNames, BarEntry, FlagConstants
  <2>2. Bar' = [f \in Files |-> [m \in Modes |->
                 IF Bar[f][m] = "busy" THEN "todo" ELSE Bar[f][m]]]
    BY <2>1, BarTyped
  <2> QED BY <2>2 DEF Ledger!Recover, Bar
<1> QED BY <1>1, <1>2, AttemptIsOneOf DEF Restart

(* A claim is at most a batch of files, whatever the split between stuck and
   pending ones. *)
LEMMA SelectionSize ==
  ASSUME NEW sc \in SUBSET Files, NEW fl, NEW M, NEW c \in Selections(sc, fl, M),
         NEW S \in SUBSET Selected(c)
  PROVE  S \subseteq Files /\ Cardinality(S) <= BatchSize
<1>1. CASE ~HasStatusColumn
  <2>1. S = {}
    BY <1>1 DEF Selections, NoClaim, Selected
  <2> QED BY <2>1, FS_EmptySet
<1>2. CASE HasStatusColumn
  <2>1. /\ c.stuck \subseteq Files /\ c.pending \subseteq Files
        /\ c.pending \in Limit(Pending(sc, fl, M), BatchSize - Cardinality(c.stuck))
    BY <1>2 DEF Selections, Stuck, Pending
  <2>2. Cardinality(c.pending) <= BatchSize - Cardinality(c.stuck)
    BY <2>1 DEF Limit
  <2>3. IsFiniteSet(c.stuck) /\ IsFiniteSet(c.pending)
    BY <2>1, FS_Subset
  <2>4. Cardinality(c.stuck) \in Nat /\ Cardinality(c.pending) \in Nat
        /\ Cardinality(c.stuck \cap c.pending) \in Nat
    BY <2>3, FS_CardinalityType, FS_Intersection
  <2>5. /\ IsFiniteSet(Selected(c))
        /\ Cardinality(Selected(c)) =
             Cardinality(c.stuck) + Cardinality(c.pending) - Cardinality(c.stuck \cap c.pending)
    BY <2>3, FS_Union DEF Selected
  <2>6. IsFiniteSet(S) /\ Cardinality(S) <= Cardinality(Selected(c)) /\ Cardinality(S) \in Nat
    BY <2>5, FS_Subset, FS_CardinalityType
  <2>7. Cardinality(Selected(c)) <= BatchSize
    BY <2>2, <2>4, <2>5
  <2>8. Cardinality(Selected(c)) \in Nat
    BY <2>5, FS_CardinalityType
  <2> QED BY <2>1, <2>6, <2>7, <2>8 DEF Selected
<1> QED BY <1>1, <1>2

(* A claim is the ledger's Claim of the to-do pairs whose statements took
   effect, any of them. *)
LEMMA ClaimRefines ==
  ASSUME TypeOK, LoopClaim
  PROVE  \E P \in SUBSET (Files \X Modes) : Ledger!Claim(P)
<1> DEFINE M == SelectedModes(loop.stack, loop.mode)
<1>1. M \in SUBSET Modes /\ scanned \in SUBSET Files
  BY DEF SelectedModes, TypeOK, LoopStates
<1>2. PICK c \in Selections(scanned, flag, M) :
        \E P \in MarkedPairs(c, M) : flag' = MarkInProgress(flag, P)
  BY DEF LoopClaim, ClaimForAnyMode, ClaimForMode, SelectedModes
<1> HIDE DEF M
<1>3. PICK P \in SUBSET (Selected(c) \X M) : flag' = MarkInProgress(flag, P)
  BY <1>2 DEF MarkedPairs
<1> DEFINE Q == {x \in P : flag[x[1]][x[2]] = Todo}
           S == {x[1] : x \in Q}
<1>4. S \in SUBSET Selected(c)
  BY <1>3
<1>5. S \subseteq Files /\ Cardinality(S) <= BatchSize
  <2> HIDE DEF S
  <2> QED BY <1>1, <1>2, <1>4, SelectionSize
<1>6. Q \in SUBSET (Files \X Modes)
  BY <1>1, <1>3, <1>5
<1>7. ASSUME NEW f \in Files, NEW m \in Modes
      PROVE  /\ Bar'[f][m] = IF <<f, m>> \in Q THEN "busy" ELSE Bar[f][m]
             /\ <<f, m>> \in Q => Bar[f][m] = "todo"
  <2>1. flag'[f][m] = IF <<f, m>> \in P /\ flag[f][m] = Todo THEN InProgress ELSE flag[f][m]
    BY <1>3 DEF MarkInProgress
  <2>2. <<f, m>> \in Q <=> <<f, m>> \in P /\ flag[f][m] = Todo
    OBVIOUS
  <2>3. flag[f][m] \in {InProgress, Todo, Done, Error}
    BY FlagEntry, FlagConstants
  <2> QED BY <2>1, <2>2, <2>3, StateNames, BarEntry, FlagConstants
<1>8. \A x \in Q : Bar[x[1]][x[2]] = "todo"
  <2> SUFFICES ASSUME NEW x \in Q PROVE Bar[x[1]][x[2]] = "todo"
    OBVIOUS
  <2>1. x[1] \in Files /\ x[2] \in Modes /\ x = <<x[1], x[2]>>
    BY <1>6
  <2> HIDE DEF Q
  <2> QED BY <1>7, <2>1
<1>9. Bar' = [f \in Files |-> [m \in Modes |-> IF <<f, m>> \in Q THEN "busy" ELSE Bar[f][m]]]
  BY <1>7, BarTyped
<1>10. Ledger!Cardinality(S) = Cardinality(S)
  BY DEF Ledger!Cardinality, Cardinality
<1> HIDE DEF Q
<1>11. Ledger!Claim(Q)
  BY <1>5, <1>8, <1>9, <1>10 DEF Ledger!Claim, Bar
<1> QED BY <1>6, <1>11

(* Every step of the pipeline is one of the ledger, or leaves it alone. *)
LEMMA StepRefines == TypeOK /\ LoopShape /\ [Next]_vars => [Ledger!Next]_Bar
<1> SUFFICES ASSUME TypeOK, LoopShape, [Next]_vars PROVE Bar' = Bar \/ Ledger!Next
  OBVIOUS
<1>1. ASSUME flag' = flag PROVE Bar' = Bar
  BY <1>1 DEF Bar
<1>2. CASE (\E f \in Files : EditFile(f)) \/ Reconfigure \/ Observe \/ Crash \/ UNCHANGED vars
  BY <1>1, <1>2 DEF EditFile, Reconfigure, Observe, Crash, vars, tables
<1>3. CASE Restart
  BY <1>3, RestartRefines DEF Ledger!Next
<1>4. ASSUME NEW s \in Scanners, ScanStep(s) PROVE Bar' = Bar \/ Ledger!Next
  <2>1. CASE ScanStore(s)
    BY <2>1, ScanRefines DEF Ledger!Next
  <2>2. CASE ~ScanStore(s)
    BY <1>1, <1>4, <2>2 DEF ScanStep, ScanStat, tables
  <2> QED BY <2>1, <2>2
<1>5. CASE LoopClaim
  BY <1>5, ClaimRefines DEF Ledger!Next
<1>6. ASSUME NEW m \in Modes, LoopMark(m) PROVE Bar' = Bar \/ Ledger!Next
  <2>1. loop.file \in Files /\ flag' \in Attempt(flag, SetProcessingFlag(flag, loop.file, m))
    BY <1>6 DEF LoopMark, LoopShape
  <2> QED BY <2>1, MarkRefines DEF Ledger!Next
<1>7. CASE LoopSnapshot \/ (\E f \in Files : LoopNextFile(f)) \/ LoopBatchDone
  BY <1>1, <1>7 DEF LoopSnapshot, LoopNextFile, LoopBatchDone, tables
<1>8. ASSUME NEW r \in Requests, RequestStep(r) PROVE Bar' = Bar \/ Ledger!Next
  <2>1. CASE ReqMarkDone(r)
    <3>1. /\ request[r].file \in Files /\ request[r].mode \in Modes
          /\ flag' \in Attempt(flag, SetProcessingFlag(flag, request[r].file, request[r].mode))
      BY <2>1 DEF ReqMarkDone, TypeOK, RequestStates
    <3> QED BY <3>1, MarkRefines DEF Ledger!Next
  <2>2. CASE ReqMarkFailed(r)
    <3>1. /\ request[r].file \in Files /\ request[r].mode \in Modes
          /\ flag' \in Attempt(flag, SetProcessingFlagError(flag, request[r].file, request[r].mode))
      BY <2>2 DEF ReqMarkFailed, TypeOK, RequestStates
    <3> QED BY <3>1, FailRefines DEF Ledger!Next
  <2>3. CASE ~ReqMarkDone(r) /\ ~ReqMarkFailed(r)
    BY <1>1, <1>8, <2>3 DEF RequestStep, ReqBegin, ReqProcess, ReqThrow, ReqStore, tables
  <2> QED BY <2>1, <2>2, <2>3
<1> QED BY <1>2, <1>3, <1>4, <1>5, <1>6, <1>7, <1>8 DEF Next, LoopStep

(* The pipeline implements the ledger for every value of the constants, with
   reconfiguration, database faults and crashes: work is claimed from to-do
   pairs only, in batches, a failure is never overwritten by a success, and a
   rescan or a restart puts back everything it should at once. *)
THEOREM ImplementsLedger == Spec => KeepsLedger
<1>1. Init => Ledger!Init
  BY StateNames DEF Init, FreshFlags, Ledger!Init
<1>2. TypeOK /\ PipelineInv /\ [Next]_vars => [Ledger!Next]_Bar
  BY StepRefines DEF PipelineInv
<1>3. Bar = [f \in Files |-> [m \in Modes |-> StateName(flag[f][m])]]
  BY DEF Bar
<1>4. TypeOK /\ PipelineInv /\ [Next]_vars =>
        [Ledger!Next]_([f \in Files |-> [m \in Modes |-> StateName(flag[f][m])]])
  BY <1>2 DEF Bar
<1> QED BY <1>1, <1>4, TypeCorrect, PipelineInvariant, PTL DEF Spec, KeepsLedger, Ledger!Spec

-----------------------------------------------------------------------------
(* What reopens a settled mode *)

Settled(v) == v \in {Done, Error}

(* A file without a row has no metadata to compare. *)
Unseen == \A f \in Files : f \notin scanned => meta[f] = Unreadable

Reopened(f, m) == Settled(flag[f][m]) /\ ~Settled(flag'[f][m])

LEMMA UnseenStep == TypeOK /\ Unseen /\ [Next]_vars => Unseen'
<1> SUFFICES ASSUME TypeOK, Unseen, [Next]_vars PROVE Unseen'
  OBVIOUS
<1>1. ASSUME UNCHANGED <<scanned, meta>> PROVE Unseen'
  BY <1>1 DEF Unseen
<1>2. ASSUME NEW s \in Scanners, ScanStore(s) PROVE Unseen'
  <2>1. scanner[s].file \in Files
    BY <1>2 DEF ScanStore, TypeOK, ScannerStates
  <2>2. CASE scanned' = scanned \cup {scanner[s].file}
             /\ meta' = [meta EXCEPT ![scanner[s].file] = scanner[s].stat]
    BY <2>1, <2>2 DEF Unseen, TypeOK
  <2> QED BY <1>1, <1>2, <2>2 DEF ScanStore
<1>3. \/ UNCHANGED <<scanned, meta>>
      \/ \E s \in Scanners : ScanStore(s)
  BY DEF Next, vars, tables, EditFile, Reconfigure, Observe, Crash, Restart, ScanStep, ScanStat,
         LoopStep, LoopSnapshot, LoopClaim, LoopNextFile, LoopMark, LoopBatchDone,
         RequestStep, ReqBegin, ReqProcess, ReqThrow, ReqStore, ReqMarkDone, ReqMarkFailed
<1> QED BY <1>1, <1>2, <1>3

(* No step but storing a scanned file takes a mode out of "done" or
   "failed". *)
LEMMA OnlyScansReopen ==
  ASSUME TypeOK, LoopShape, [Next]_vars, NEW f \in Files, NEW m \in Modes, Reopened(f, m)
  PROVE  \E s \in Scanners : ScanStore(s)
<1>0. flag \in [Files -> [Modes -> FlagValues]]
  BY DEF TypeOK
<1>1. flag' # flag
  BY DEF Reopened
<1>2. ASSUME NEW g \in Files, NEW n \in Modes,
             \/ flag' \in Attempt(flag, SetProcessingFlag(flag, g, n))
             \/ flag' \in Attempt(flag, SetProcessingFlagError(flag, g, n))
      PROVE  FALSE
  <2>1. flag' = SetProcessingFlag(flag, g, n) \/ flag' = SetProcessingFlagError(flag, g, n)
    BY <1>1, <1>2, AttemptIsOneOf
  <2>2. flag'[f][m] \in {flag[f][m], Done, Error}
    BY <1>0, <2>1, MarkingOne
  <2> QED BY <2>2 DEF Reopened, Settled
<1>3. ~Restart
  <2>1. ResetInProgress(flag)[f][m] = IF flag[f][m] = InProgress THEN Todo ELSE flag[f][m]
    BY DEF ResetInProgress
  <2> QED BY <1>1, <2>1, AttemptIsOneOf, FlagConstants DEF Restart, Reopened, Settled
<1>4. ~LoopClaim
  <2> SUFFICES ASSUME LoopClaim PROVE FALSE
    OBVIOUS
  <2>1. PICK P : flag' = MarkInProgress(flag, P)
    BY DEF LoopClaim
  <2>2. MarkInProgress(flag, P)[f][m] =
          IF <<f, m>> \in P /\ flag[f][m] = Todo THEN InProgress ELSE flag[f][m]
    BY DEF MarkInProgress
  <2> QED BY <2>1, <2>2, FlagConstants DEF Reopened, Settled
<1>5. \A n \in Modes : ~LoopMark(n)
  BY <1>2 DEF LoopMark, LoopShape
<1>6. \A r \in Requests : ~ReqMarkDone(r) /\ ~ReqMarkFailed(r)
  BY <1>2 DEF ReqMarkDone, ReqMarkFailed, TypeOK, RequestStates
<1>7. \/ UNCHANGED flag \/ Restart \/ LoopClaim
      \/ \E n \in Modes : LoopMark(n)
      \/ \E r \in Requests : ReqMarkDone(r) \/ ReqMarkFailed(r)
      \/ \E s \in Scanners : ScanStore(s)
  BY DEF Next, vars, tables, EditFile, Reconfigure, Observe, Crash, ScanStep, ScanStat,
         LoopStep, LoopSnapshot, LoopNextFile, LoopBatchDone,
         RequestStep, ReqBegin, ReqProcess, ReqThrow, ReqStore
<1> QED BY <1>1, <1>3, <1>4, <1>5, <1>6, <1>7

LEMMA ReopeningStep ==
  ASSUME TypeOK, LoopShape, Unseen, [Next]_vars, NEW f \in Files, NEW m \in Modes,
         Reopened(f, m)
  PROVE  flag'[f] = FreshFlags /\ ~SameContent(meta[f], meta'[f])
<1>1. PICK s \in Scanners : ScanStore(s)
  BY OnlyScansReopen
<1>2. scanner[s].file \in Files /\ flag' # flag
  BY <1>1 DEF ScanStore, TypeOK, ScannerStates, Reopened
<1>3. /\ meta' = [meta EXCEPT ![scanner[s].file] = scanner[s].stat]
      /\ flag' = FlagsAfterScan(scanned, meta, flag, scanner[s].file, scanner[s].stat)
  BY <1>1, <1>2 DEF ScanStore
<1>4. /\ flag' = [flag EXCEPT ![scanner[s].file] = FreshFlags]
      /\ ~(scanner[s].file \in scanned /\ SameContent(meta[scanner[s].file], scanner[s].stat))
  BY <1>2, <1>3 DEF FlagsAfterScan
<1>5. f = scanner[s].file
  BY <1>2, <1>4 DEF Reopened, TypeOK
<1>6. flag'[f] = FreshFlags /\ meta'[f] = scanner[s].stat
  BY <1>2, <1>3, <1>4, <1>5 DEF TypeOK
<1>7. ~SameContent(meta[f], scanner[s].stat)
  BY <1>4, <1>5 DEF Unseen, SameContent, Unreadable
<1> QED BY <1>6, <1>7

(* A settled mode is reopened only by a scan that recorded other metadata,
   and then with all modes of the file: never by a claim, a restart, a
   request or a failing statement. *)
THEOREM SettledStays == Spec => SettledReopens
<1>1. Init => Unseen
  BY DEF Init, Unseen
<1>2. Spec => []Unseen
  BY <1>1, UnseenStep, TypeCorrect, PTL DEF Spec
<1>3. TypeOK /\ PipelineInv /\ Unseen /\ [Next]_vars =>
        [\A f \in Files, m \in Modes :
           flag[f][m] \in {Done, Error} /\ flag'[f][m] \notin {Done, Error} =>
             /\ flag'[f] = FreshFlags
             /\ ~SameContent(meta[f], meta'[f])]_vars
  BY ReopeningStep DEF PipelineInv, Reopened, Settled
<1> QED BY <1>2, <1>3, TypeCorrect, PipelineInvariant, PTL DEF Spec, SettledReopens
=============================================================================
