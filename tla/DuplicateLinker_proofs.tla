----------------------- MODULE DuplicateLinker_proofs -----------------------
(***************************************************************************)
(* Theorems about DuplicateLinker, for every set of files, modes and       *)
(* hashes and every number of results, failures and crashes.               *)
(***************************************************************************)
EXTENDS DuplicateLinker, TLAPS

USE LinkerAssumption, NothingAssumption

-----------------------------------------------------------------------------
(* Lemmas *)

(* A thread between two passes is well typed and has nothing in hand. *)
LEMMA IdleTyped ==
  ASSUME NEW pc \in {"off", "wait"}
  PROVE  /\ IdleLinker(pc) \in LinkerStates
         /\ IdleLinker(pc).pc = pc
         /\ IdleLinker(pc).hash = Nothing
BY DEF IdleLinker, LinkerStates, Artifacts

(* The hash of the tables is the hash of a snapshot. *)
LEMMA DataTyped ==
  ASSUME TypeOK
  PROVE  Data \in Snapshots /\ Data # Nothing /\ Data.results = results
BY DEF TypeOK, Data, Snapshots

(* The links a pass computes are sets of files. *)
LEMMA DuplicatesTyped ==
  ASSUME NEW found \in [Files -> Artifacts]
  PROVE  /\ Grouped(found) \subseteq Files
         /\ \A f \in Files : Duplicates(found, f) \subseteq Files
BY DEF Duplicates, Grouped

(* What a pass reads is an artifact hash, or none, for each file. *)
LEMMA SuccessfulTyped ==
  ASSUME TypeOK, NEW m \in Modes
  PROVE  Successful(m) \in [Files -> Artifacts]
BY DEF TypeOK, Successful, Rows

(* Writing the links of one file in one mode leaves the others alone. *)
LEMMA LinksWritten ==
  ASSUME TypeOK, NEW f \in Files, NEW m \in Modes, NEW some \in SUBSET Files,
         links' = [links EXCEPT ![f][m] = some]
  PROVE  /\ links' \in [Files -> [Modes -> SUBSET Files]]
         /\ links'[f][m] = some
         /\ \A g \in Files, n \in Modes : g # f => links'[g][n] = links[g][n]
BY DEF TypeOK

(* The count of failed statements stays in its bound. *)
LEMMA FailuresTyped ==
  ASSUME TypeOK, Fails \/ UNCHANGED failures
  PROVE  failures' \in 0 .. MaxFailures
BY DEF TypeOK, Fails

(* What a pass has read, and whether that is everything *)
LEMMA RowsRead ==
  ASSUME TypeOK, ReadRows
  PROVE  \E found \in [Files -> Artifacts], lost \in BOOLEAN :
           /\ linker' = [linker EXCEPT !.pc = "link", !.found = found,
                                       !.todo = Grouped(found), !.lost = lost]
           /\ unseen' = (unseen \/ lost)
           /\ ~lost => found = Successful(linker.mode)
<1>1. Successful(linker.mode) \in [Files -> Artifacts]
  BY SuccessfulTyped DEF TypeOK, LinkerStates
<1>2. \A left \in SUBSET Files :
        [f \in Files |-> IF f \in left THEN NoHash ELSE Successful(linker.mode)[f]]
          \in [Files -> Artifacts]
  BY <1>1 DEF Artifacts
<1> QED BY <1>1, <1>2 DEF ReadRows

-----------------------------------------------------------------------------
(* Type correctness.  That the counter of incremental passes stays within
   FULL_RESCAN_INTERVAL needs CountInv: it is compared when a pass begins and
   incremented when the pass has read its rows. *)
TypeInv == TypeOK /\ CountInv

LEMMA InitType == Init => TypeInv
<1> SUFFICES ASSUME Init PROVE TypeInv
  OBVIOUS
<1>1. NoRow \in Rows
  BY DEF NoRow, Rows, Artifacts
<1>2. results \in [Files -> [Modes -> Rows]] /\ links \in [Files -> [Modes -> SUBSET Files]]
  BY <1>1 DEF Init
<1>3. linker \in LinkerStates /\ linker.pc = "wait"
  BY IdleTyped DEF Init
<1>4. /\ stored \in Snapshots \cup {Nothing} /\ config \in Modes
      /\ lastId \in 0 .. MaxResults /\ writes \in 0 .. MaxWrites
      /\ incrementalRuns \in 0 .. FullRescanInterval
      /\ failures \in 0 .. MaxFailures /\ crashes \in 0 .. MaxCrashes
  BY DEF Init
<1>5. needsFullRescan \in BOOLEAN /\ unseen \in BOOLEAN
  BY DEF Init
<1> QED BY <1>2, <1>3, <1>4, <1>5 DEF TypeInv, TypeOK, CountInv

LEMMA StepType == TypeInv /\ [Next]_vars => TypeInv'
<1> SUFFICES ASSUME TypeInv, [Next]_vars PROVE TypeInv'
  OBVIOUS
<1> USE DEF TypeInv
<1>1. CASE Reconfigure
  BY <1>1 DEF Reconfigure, TypeOK, CountInv, tables
<1>2. ASSUME NEW f \in Files, NEW m \in Modes, NEW h \in Artifacts, StoreResult(f, m, h)
      PROVE  TypeInv'
  <2>1. lastId' \in 0 .. MaxResults
    BY <1>2 DEF StoreResult, TypeOK
  <2>2. [id |-> lastId + 1, hash |-> h] \in Rows
    BY <1>2, <2>1 DEF StoreResult, TypeOK, Rows
  <2>3. results' \in [Files -> [Modes -> Rows]]
    BY <1>2, <2>2 DEF StoreResult, TypeOK
  <2>4. UNCHANGED <<config, links, writes, stored, needsFullRescan, incrementalRuns, linker,
                    failures, crashes, unseen>>
    BY <1>2 DEF StoreResult
  <2> QED BY <2>1, <2>3, <2>4 DEF TypeOK, CountInv
<1>3. CASE ScanChange \/ OtherChange
  <2>1. writes' \in 0 .. MaxWrites
    BY <1>3 DEF ScanChange, OtherChange, TypeOK
  <2>2. needsFullRescan' \in BOOLEAN
    BY <1>3 DEF ScanChange, OtherChange, TypeOK
  <2>3. UNCHANGED <<config, results, lastId, links, stored, incrementalRuns, linker, failures,
                    crashes, unseen>>
    BY <1>3 DEF ScanChange, OtherChange
  <2> QED BY <2>1, <2>2, <2>3 DEF TypeOK, CountInv
<1>4. CASE Crash
  BY <1>4, IdleTyped DEF Crash, TypeOK, CountInv, tables
<1>5. CASE Start
  BY <1>5, IdleTyped DEF Start, TypeOK, CountInv, tables
<1>6. CASE Wake
  <2>1. /\ linker' \in LinkerStates
        /\ linker'.full = (needsFullRescan \/ (~needsFullRescan /\ PeriodOver))
    BY <1>6 DEF Wake, TypeOK, LinkerStates
  <2>2. incrementalRuns' \in 0 .. FullRescanInterval
    BY <1>6 DEF Wake, TypeOK
  <2>3. ASSUME ~linker'.full PROVE incrementalRuns' < FullRescanInterval
    <3>1. ~needsFullRescan /\ ~PeriodOver
      BY <2>1, <2>3
    <3>2. UNCHANGED incrementalRuns
      BY <1>6, <3>1 DEF Wake
    <3> QED BY <3>1, <3>2 DEF PeriodOver, TypeOK
  <2>4. CountInv'
    BY <2>3 DEF CountInv
  <2> QED BY <1>6, <2>1, <2>2, <2>4 DEF Wake, TypeOK, tables
<1>7. CASE TakeHash
  <2>1. Data \in Snapshots
    BY DataTyped
  <2>2. linker' = IdleLinker("wait") \/
          \E hash \in Snapshots \cup {Nothing} :
            linker' = [linker EXCEPT !.pc = "read", !.hash = hash]
    BY <1>7, <2>1 DEF TakeHash
  <2>3. failures' \in 0 .. MaxFailures
    <3>1. Fails \/ UNCHANGED failures
      BY <1>7, Zenon DEF TakeHash
    <3> QED BY <3>1, FailuresTyped
  <2>4. linker' \in LinkerStates
    BY <2>2, IdleTyped DEF TypeOK, LinkerStates
  <2>5. linker'.pc = "wait" \/ (linker.pc = "hash" /\ linker'.full = linker.full)
    BY <1>7, <2>2, IdleTyped DEF TakeHash, TypeOK, LinkerStates
  <2> QED BY <1>7, <2>3, <2>4, <2>5 DEF TakeHash, TypeOK, CountInv, tables
<1>8. CASE ReadRows
  <2>1. linker.mode \in Modes /\ linker.pc = "read"
    BY <1>8 DEF ReadRows, TypeOK, LinkerStates
  <2>2. PICK found \in [Files -> Artifacts], lost \in BOOLEAN :
          /\ linker' = [linker EXCEPT !.pc = "link", !.found = found,
                                      !.todo = Grouped(found), !.lost = lost]
          /\ unseen' = (unseen \/ lost)
    BY <1>8, RowsRead
  <2>3. linker' \in LinkerStates
    <3>1. Grouped(found) \in SUBSET Files
      BY DuplicatesTyped
    <3> QED BY <2>2, <3>1 DEF TypeOK, LinkerStates
  <2>4. linker'.pc = "link"
    BY <2>2 DEF TypeOK, LinkerStates
  <2>5. failures' \in 0 .. MaxFailures
    <3>1. Fails \/ UNCHANGED failures
      BY <1>8, Zenon DEF ReadRows
    <3> QED BY <3>1, FailuresTyped
  <2>6. incrementalRuns' \in 0 .. FullRescanInterval
    <3>1. incrementalRuns' = IF linker.full THEN incrementalRuns ELSE incrementalRuns + 1
      BY <1>8 DEF ReadRows
    <3>2. ~linker.full => incrementalRuns < FullRescanInterval
      BY <2>1 DEF CountInv
    <3> QED BY <3>1, <3>2 DEF TypeOK
  <2> QED BY <1>8, <2>2, <2>3, <2>4, <2>5, <2>6 DEF ReadRows, TypeOK, CountInv, tables
<1>9. ASSUME NEW f \in Files, LinkFile(f) PROVE TypeInv'
  <2>1. /\ linker.mode \in Modes
        /\ Duplicates(linker.found, f) \subseteq Files
    BY DuplicatesTyped DEF TypeOK, LinkerStates
  <2>2. links[f][linker.mode] \in SUBSET Files
    BY <2>1 DEF TypeOK
  <2>3. PICK some \in SUBSET Files : links' = [links EXCEPT ![f][linker.mode] = some]
    BY <1>9, <2>1, <2>2 DEF LinkFile
  <2>4. links' \in [Files -> [Modes -> SUBSET Files]]
    BY <2>1, <2>3, LinksWritten
  <2>5. linker' \in LinkerStates /\ linker'.pc = "link"
    BY <1>9 DEF LinkFile, TypeOK, LinkerStates
  <2>6. failures' \in 0 .. MaxFailures /\ unseen' \in BOOLEAN
    <3>1. (Fails /\ unseen' = TRUE) \/ (UNCHANGED failures /\ unseen' = unseen)
      BY <1>9, Zenon DEF LinkFile
    <3> QED BY <3>1, FailuresTyped DEF TypeOK
  <2> QED BY <1>9, <2>4, <2>5, <2>6 DEF LinkFile, TypeOK, CountInv
<1>10. CASE PassDone
  <2>1. linker' \in LinkerStates /\ linker'.pc = "store"
    BY <1>10 DEF PassDone, TypeOK, LinkerStates
  <2>2. needsFullRescan' \in BOOLEAN /\ unseen' \in BOOLEAN
    BY <1>10 DEF PassDone, RequestLeft, TypeOK, LinkerStates
  <2> QED BY <1>10, <2>1, <2>2 DEF PassDone, TypeOK, CountInv, tables
<1>11. CASE StoreHash
  <2>1. linker.hash \in Snapshots \cup {Nothing}
    BY DEF TypeOK, LinkerStates
  <2>2. stored' \in Snapshots \cup {Nothing} /\ failures' \in 0 .. MaxFailures
    BY <1>11, <2>1 DEF StoreHash, HashToStore, Fails, TypeOK
  <2> QED BY <1>11, <2>2, IdleTyped DEF StoreHash, TypeOK, CountInv, tables
<1>12. CASE UNCHANGED vars
  BY <1>12 DEF vars, TypeOK, CountInv
<1> QED BY <1>1, <1>2, <1>3, <1>4, <1>5, <1>6, <1>7, <1>8, <1>9, <1>10, <1>11, <1>12
        DEF Next, LinkerStep

(* The tables, the flag and the thread are well typed in every reachable
   state, and the linker never makes more than FULL_RESCAN_INTERVAL
   incremental passes in a row. *)
THEOREM TypeCorrect == Spec => []TypeOK
<1>1. TypeInv => TypeOK
  BY DEF TypeInv
<1> QED BY InitType, StepType, <1>1, PTL DEF Spec

-----------------------------------------------------------------------------
(* Lemmas about LinkerInv *)

(* A row stored after a snapshot has an id the snapshot has not, so that the
   snapshot's results are not those of the table any more. *)
LEMMA NewRowUnknown ==
  ASSUME TypeOK, NEW f \in Files, NEW m \in Modes, NEW h \in Artifacts, StoreResult(f, m, h),
         NEW snapshot \in Snapshots \cup {Nothing}, IdsKnown(snapshot)
  PROVE  IdsKnown(snapshot)' /\ (snapshot # Nothing => snapshot.results # results')
<1>1. lastId \in Nat /\ lastId' = lastId + 1 /\ results'[f][m].id = lastId + 1
  BY DEF StoreResult, TypeOK
<1>2. ASSUME snapshot # Nothing
      PROVE  /\ \A g \in Files, n \in Modes : snapshot.results[g][n].id <= lastId'
             /\ snapshot.results # results'
  <2>1. \A g \in Files, n \in Modes :
          snapshot.results[g][n].id \in Nat /\ snapshot.results[g][n].id <= lastId
    BY <1>2 DEF IdsKnown, Snapshots, Rows
  <2> QED BY <1>1, <2>1
<1> QED BY <1>2 DEF IdsKnown

(* While the tables and the mode stay as they are, so does what is linked. *)
LEMMA SameLinked ==
  ASSUME UNCHANGED <<config, results, links>>
  PROVE  Linked(config)' <=> Linked(config)
BY DEF Linked, Grouped, Duplicates, Successful

(* When a pass has done all its files, without a loss and from results that
   are still those of the table, everything is linked in its mode. *)
LEMMA DoneLinked ==
  ASSUME LinkerInv, InPass, ~linker.lost, linker.todo = {},
         linker.found = Successful(linker.mode), linker.mode = config
  PROVE  Linked(config)
BY DEF LinkerInv, Linked

(* A pass that is over, or has not begun, has nothing to be kept. *)
LEMMA IdlePreserves ==
  ASSUME LinkerInv, UNCHANGED <<config, results, lastId, links, stored, unseen>>,
         NEW pc \in {"off", "wait"}, linker' = IdleLinker(pc)
  PROVE  LinkerInv'
<1>1. linker'.pc \in {"off", "wait"} /\ linker'.hash = Nothing
  BY IdleTyped
<1>2. Linked(config)' <=> Linked(config)
  BY SameLinked
<1> QED BY <1>1, <1>2 DEF LinkerInv, InPass, IdsKnown, FoundCurrent

-----------------------------------------------------------------------------
(* The inductive step *)

LEMMA InitLinker == Init => LinkerInv
<1> SUFFICES ASSUME Init PROVE LinkerInv
  OBVIOUS
<1>1. linker.pc = "wait" /\ linker.hash = Nothing /\ stored = Nothing
  BY IdleTyped DEF Init
<1>2. \A f \in Files, m \in Modes : results[f][m].id <= lastId
  BY DEF Init, NoRow
<1> QED BY <1>1, <1>2 DEF LinkerInv, InPass, IdsKnown, FoundCurrent

(* The steps of the other threads *)
LEMMA OthersStep ==
  ASSUME TypeOK, LinkerInv,
         \/ Reconfigure
         \/ \E f \in Files, m \in Modes, h \in Artifacts : StoreResult(f, m, h)
         \/ ScanChange
         \/ OtherChange
         \/ Crash
         \/ Start
         \/ UNCHANGED vars
  PROVE  LinkerInv'
<1>1. CASE Reconfigure
  <2>1. unseen' /\ UNCHANGED <<results, lastId, links, stored, linker>>
    BY <1>1 DEF Reconfigure, tables
  <2> QED BY <2>1 DEF LinkerInv, InPass, IdsKnown, FoundCurrent, Successful
<1>2. ASSUME NEW f \in Files, NEW m \in Modes, NEW h \in Artifacts, StoreResult(f, m, h)
      PROVE  LinkerInv'
  <2>1. UNCHANGED <<config, links, stored, linker, unseen>>
    BY <1>2 DEF StoreResult
  <2>2. stored \in Snapshots \cup {Nothing} /\ linker.hash \in Snapshots \cup {Nothing}
    BY DEF TypeOK, LinkerStates
  <2>3. /\ IdsKnown(stored)' /\ (stored # Nothing => stored.results # results')
        /\ IdsKnown(linker.hash)' /\ (linker.hash # Nothing => linker.hash.results # results')
    <3>1. IdsKnown(stored) /\ IdsKnown(linker.hash)
      BY DEF LinkerInv
    <3>2. \A snapshot \in Snapshots \cup {Nothing} : IdsKnown(snapshot) =>
            /\ (snapshot # Nothing =>
                  \A g \in Files, n \in Modes : snapshot.results[g][n].id <= lastId')
            /\ (snapshot # Nothing => snapshot.results # results')
      BY <1>2, NewRowUnknown DEF IdsKnown
    <3> QED BY <2>1, <2>2, <3>1, <3>2 DEF IdsKnown
  <2>4. \A g \in Files, n \in Modes : results'[g][n].id <= lastId'
    BY <1>2 DEF LinkerInv, StoreResult, TypeOK, Rows
  <2> QED BY <2>1, <2>3, <2>4 DEF LinkerInv, InPass, FoundCurrent
<1>3. CASE ScanChange \/ OtherChange \/ UNCHANGED vars
  <2>1. UNCHANGED <<config, results, lastId, links, stored, linker, unseen>>
    BY <1>3 DEF ScanChange, OtherChange, vars
  <2>2. Linked(config)' <=> Linked(config)
    BY <2>1, SameLinked
  <2> QED BY <2>1, <2>2 DEF LinkerInv, InPass, IdsKnown, FoundCurrent, Successful
<1>4. CASE Crash
  BY <1>4, IdlePreserves DEF Crash, tables
<1>5. CASE Start
  BY <1>5, IdlePreserves DEF Start, tables
<1> QED BY <1>1, <1>2, <1>3, <1>4, <1>5

(* A pass begins, in the configured mode, and takes its hash. *)
LEMMA BeginStep ==
  ASSUME TypeOK, LinkerInv, Wake \/ TakeHash
  PROVE  LinkerInv'
<1>0. UNCHANGED <<config, results, lastId, links, stored, unseen>>
  BY DEF Wake, TakeHash, tables
<1>1. Linked(config)' <=> Linked(config)
  BY <1>0, SameLinked
<1>2. CASE Wake
  <2>1. linker'.pc = "hash" /\ linker'.mode = config /\ linker'.hash = linker.hash
    BY <1>2 DEF Wake, TypeOK, LinkerStates
  <2> QED BY <1>0, <1>1, <2>1 DEF LinkerInv, InPass, IdsKnown, FoundCurrent
<1>3. CASE TakeHash
  <2>1. CASE linker' = IdleLinker("wait")
    BY <1>0, <2>1, IdlePreserves
  <2>2. ASSUME NEW hash \in {Data, Nothing},
               linker' = [linker EXCEPT !.pc = "read", !.hash = hash]
        PROVE  LinkerInv'
    <3>1. linker'.pc = "read" /\ linker'.mode = linker.mode /\ linker'.hash = hash
      BY <2>2 DEF TypeOK, LinkerStates
    <3>2. linker.pc = "hash"
      BY <1>3 DEF TakeHash
    <3>3. IdsKnown(hash)
      BY DataTyped DEF IdsKnown, LinkerInv
    <3> QED BY <1>0, <1>1, <3>1, <3>2, <3>3 DEF LinkerInv, InPass, IdsKnown, FoundCurrent
  <2> QED BY <1>3, <2>1, <2>2 DEF TakeHash
<1> QED BY <1>2, <1>3

(* The rows are read: nothing is linked yet, all is to do. *)
LEMMA ReadStep ==
  ASSUME TypeOK, LinkerInv, ReadRows
  PROVE  LinkerInv'
<1>1. UNCHANGED <<config, results, lastId, links, stored>> /\ linker.pc = "read"
  BY DEF ReadRows, tables
<1>2. Linked(config)' <=> Linked(config)
  BY <1>1, SameLinked
<1>3. PICK found \in [Files -> Artifacts], lost \in BOOLEAN :
        /\ linker' = [linker EXCEPT !.pc = "link", !.found = found,
                                    !.todo = Grouped(found), !.lost = lost]
        /\ unseen' = (unseen \/ lost)
        /\ ~lost => found = Successful(linker.mode)
  BY RowsRead
<1>4. /\ linker'.pc = "link" /\ linker'.mode = linker.mode /\ linker'.hash = linker.hash
      /\ linker'.found = found /\ linker'.todo = Grouped(found) /\ linker'.lost = lost
  BY <1>3 DEF TypeOK, LinkerStates
<1>5. ~unseen' => ~unseen /\ ~lost
  BY <1>3
<1>6. ~lost => linker'.found = Successful(linker.mode)'
  BY <1>1, <1>3, <1>4 DEF Successful
<1> QED BY <1>1, <1>2, <1>4, <1>5, <1>6 DEF LinkerInv, InPass, IdsKnown, FoundCurrent

(* A file is linked, to all its duplicates or with a loss that is noted. *)
LEMMA LinkStep ==
  ASSUME TypeOK, LinkerInv, NEW f \in Files, LinkFile(f)
  PROVE  LinkerInv'
<1>1. /\ UNCHANGED <<config, results, lastId, stored>>
      /\ linker.pc = "link" /\ linker.mode \in Modes /\ linker.found \in [Files -> Artifacts]
  BY DEF LinkFile, TypeOK, LinkerStates
<1>2. /\ linker'.pc = "link" /\ linker'.mode = linker.mode /\ linker'.hash = linker.hash
      /\ linker'.found = linker.found /\ linker'.todo = linker.todo \ {f}
  BY DEF LinkFile, TypeOK, LinkerStates
<1>3. IdsKnown(stored)' /\ IdsKnown(linker.hash)'
  BY <1>1, <1>2 DEF LinkerInv, IdsKnown
<1>4. CASE unseen' /\ linker'.lost
  BY <1>1, <1>2, <1>3, <1>4 DEF LinkerInv, InPass, FoundCurrent
<1>5. CASE /\ links' = [links EXCEPT ![f][linker.mode] = Duplicates(linker.found, f)]
           /\ linker'.lost = linker.lost
           /\ UNCHANGED unseen
  <2>1. Duplicates(linker.found, f) \in SUBSET Files
    BY <1>1, DuplicatesTyped
  <2>2. /\ links'[f][linker.mode] = Duplicates(linker.found, f)
        /\ \A g \in Files, m \in Modes : g # f => links'[g][m] = links[g][m]
    <3>1. /\ linker.mode \in Modes
          /\ links' = [links EXCEPT ![f][linker.mode] = Duplicates(linker.found, f)]
      BY <1>1, <1>5
    <3> QED BY <2>1, <3>1, LinksWritten, Zenon
  <2>3. ~linker.lost => \A g \in Grouped(linker.found) \ (linker.todo \ {f}) :
          links'[g][linker.mode] = Duplicates(linker.found, g)
    <3>1. Grouped(linker.found) \subseteq Files
      BY <1>1, DuplicatesTyped
    <3> QED BY <1>1, <2>2, <3>1 DEF LinkerInv, InPass
  <2>4. ASSUME stored # Nothing, ~unseen, stored.results = results PROVE Linked(config)'
    <3>1. linker.mode = config /\ linker.found = Successful(config) /\ Linked(config)
      BY <1>1, <2>4 DEF LinkerInv, InPass, FoundCurrent
    <3>2. \A g \in Grouped(Successful(config)) :
            links'[g][config] = Duplicates(Successful(config), g)
      BY <1>1, <2>2, <3>1 DEF Linked, Grouped, TypeOK
    <3>3. Successful(config)' = Successful(config)
      BY <1>1 DEF Successful
    <3> QED BY <1>1, <3>2, <3>3 DEF Linked
  <2>5. FoundCurrent(stored)' /\ FoundCurrent(linker.hash)'
    BY <1>1, <1>2, <1>5 DEF LinkerInv, InPass, FoundCurrent, Successful
  <2> QED BY <1>1, <1>2, <1>3, <1>5, <2>3, <2>4, <2>5 DEF LinkerInv, InPass
<1> QED BY <1>4, <1>5 DEF LinkFile, TypeOK, LinkerStates

(* The pass is over.  If it did all it set out to do in the configured mode,
   the links agree with every hash that agrees with the table. *)
LEMMA DoneStep ==
  ASSUME TypeOK, LinkerInv, PassDone
  PROVE  LinkerInv'
<1>1. /\ UNCHANGED <<config, results, lastId, links, stored>>
      /\ linker.pc = "link" /\ linker.todo = {}
      /\ unseen' = (unseen /\ (linker.lost \/ linker.mode # config))
  BY DEF PassDone, tables
<1>2. /\ linker'.pc = "store" /\ linker'.mode = linker.mode /\ linker'.hash = linker.hash
      /\ linker'.found = linker.found /\ linker'.todo = {} /\ linker'.lost = linker.lost
  BY <1>1 DEF PassDone, TypeOK, LinkerStates
<1>3. ~unseen' => ~linker.lost /\ linker.mode = config
  BY <1>1 DEF LinkerInv, InPass
<1>4. ASSUME stored # Nothing, ~unseen', stored.results = results PROVE Linked(config)'
  <2>1. linker.found = Successful(linker.mode)
    BY <1>1, <1>3, <1>4 DEF LinkerInv, InPass, FoundCurrent
  <2>2. Linked(config)
    BY <1>1, <1>3, <1>4, <2>1, DoneLinked DEF InPass
  <2> QED BY <1>1, <2>2, SameLinked
<1> QED BY <1>1, <1>2, <1>3, <1>4 DEF LinkerInv, InPass, IdsKnown, FoundCurrent, Successful

(* The hash is stored: if the table still has the results it was taken of,
   they are the ones the pass has linked. *)
LEMMA StoreStep ==
  ASSUME TypeOK, LinkerInv, StoreHash
  PROVE  LinkerInv'
<1>1. /\ UNCHANGED <<config, results, lastId, links, unseen>>
      /\ linker.pc = "store" /\ linker' = IdleLinker("wait")
      /\ stored' = linker.hash \/ stored' = stored
  BY DEF StoreHash, HashToStore, tables
<1>2. CASE stored' = stored
  BY <1>1, <1>2, IdlePreserves
<1>3. CASE stored' = linker.hash
  <2>1. linker'.pc = "wait" /\ linker'.hash = Nothing
    BY <1>1, IdleTyped
  <2>2. ASSUME linker.hash # Nothing, ~unseen, linker.hash.results = results
        PROVE  Linked(config)'
    <3>1. /\ ~linker.lost /\ linker.mode = config /\ linker.todo = {}
          /\ linker.found = Successful(linker.mode)
      BY <1>1, <2>2 DEF LinkerInv, InPass, FoundCurrent
    <3>2. Linked(config)
      BY <1>1, <3>1, DoneLinked DEF InPass
    <3> QED BY <1>1, <3>2, SameLinked
  <2>3. IdsKnown(linker.hash)
    BY DEF LinkerInv
  <2> QED BY <1>1, <1>3, <2>1, <2>2, <2>3 DEF LinkerInv, InPass, IdsKnown, FoundCurrent
<1> QED BY <1>1, <1>2, <1>3

(* A pass is skipped only if there is nothing to link: whatever results,
   requests, failures and crashes come in between, when the stored hash is
   the hash of the tables every file that has duplicates in the configured
   mode is linked to them, unless the mode changed or a loss was noted since
   the last pass without one. *)
THEOREM SkipsAreSafe == Spec => []SkippedOnlyIfLinked
<1>1. TypeOK /\ LinkerInv /\ [Next]_vars => LinkerInv'
  BY OthersStep, BeginStep, ReadStep, LinkStep, DoneStep, StoreStep, Zenon
  DEF Next, LinkerStep
<1>2. TypeOK /\ LinkerInv => SkippedOnlyIfLinked
  BY DataTyped DEF LinkerInv, SkippedOnlyIfLinked
<1> QED BY InitLinker, TypeCorrect, <1>1, <1>2, PTL DEF Spec
=============================================================================
