----------------------------- MODULE MediaStore -----------------------------
(***************************************************************************)
(* The scanned_files and media_processing_results tables as the server's   *)
(* threads see them, and the DatabaseManager operations on their columns.  *)
(* Every operation of DatabaseManager runs inline under one access mutex,  *)
(* so each one is a single step of the modules that use these operators.   *)
(*                                                                         *)
(* The module has no variables: a table column is an argument.  A row's    *)
(* processed_fast, processed_balanced and processed_quality columns are    *)
(* the function flag[f], from modes to flag values; file_metadata is the   *)
(* version of the content that was stat'ed, 0 when stat failed and the     *)
(* column holds the empty string.                                          *)
(***************************************************************************)
EXTENDS Integers, FiniteSets

CONSTANTS
  Files,            \* files of supported types under the scan directories
  Modes,            \* processing modes, as the integers of dedup_mode_
  MaxVersion,       \* bound: how many contents a file takes on
  BatchSize,        \* processing_batch_size
  Transcoded,       \* files with a finished row (status 2) in cache_map
  HasStatusColumn,  \* cache_map has the status column of scripts/create_tables.sql
  DbMayFail         \* a statement may fail (I/O error, busy)

ASSUME StoreAssumption ==
  /\ IsFiniteSet(Files)
  /\ Modes \subseteq Nat /\ Modes # {} /\ IsFiniteSet(Modes)
  /\ MaxVersion \in Nat \ {0}
  /\ BatchSize \in Nat
  /\ Transcoded \subseteq Files
  /\ HasStatusColumn \in BOOLEAN
  /\ DbMayFail \in BOOLEAN

-----------------------------------------------------------------------------
(* Column values *)

InProgress == -1
Todo == 0
Done == 1
Error == 2
FlagValues == {InProgress, Todo, Done, Error}

Unreadable == 0
Versions == 1 .. MaxVersion
Metadata == Versions \cup {Unreadable}

(* A row of media_processing_results: did processing succeed, and on which
   content.  NoResult: there is no row. *)
Results == [ok : BOOLEAN, ver : Versions \cup {0}]
NoResult == [ok |-> FALSE, ver |-> 0]

(* A column after a statement that writes new over old: unchanged when the
   statement fails. *)
Attempt(old, new) == IF DbMayFail THEN {old, new} ELSE {new}

-----------------------------------------------------------------------------
(* storeScannedFile *)

FreshFlags == [m \in Modes |-> Todo]

(* Metadata that cannot be parsed (the empty string) never matches. *)
SameContent(recorded, stat) == recorded = stat /\ stat # Unreadable

(* Fault: metadata is never compared. *)
FaultyFlagsAfterScan(scanned, meta, flag, f, stat) == [flag EXCEPT ![f] = FreshFlags]

(* The flags after storing the stat of f: a new row or one whose metadata
   differs has every mode to do; a matching one is left alone. *)
FlagsAfterScan(scanned, meta, flag, f, stat) ==
  IF f \in scanned /\ SameContent(meta[f], stat)
    THEN flag
    ELSE [flag EXCEPT ![f] = FreshFlags]

-----------------------------------------------------------------------------
(* Marking one file in one mode *)

SetProcessingFlag(flag, f, m) ==
  IF flag[f][m] \in {InProgress, Todo} THEN [flag EXCEPT ![f][m] = Done] ELSE flag

SetProcessingFlagError(flag, f, m) == [flag EXCEPT ![f][m] = Error]

(* Fault: a CASE for the first column only. *)
FaultyResetFirstMode(flag) ==
  [f \in Files |-> [m \in Modes |->
     IF flag[f][m] = InProgress /\ \A n \in Modes : m <= n THEN Todo ELSE flag[f][m]]]

(* resetAllProcessingFlagsOnStartup *)
ResetInProgress(flag) ==
  [f \in Files |-> [m \in Modes |-> IF flag[f][m] = InProgress THEN Todo ELSE flag[f][m]]]

StoreProcessingResult(result, f, m, r) == [result EXCEPT ![f][m] = r]

-----------------------------------------------------------------------------
(* Claims: getAndMarkFilesForProcessing(AnyMode)WithPriority *)

(* Fault: one row too many. *)
FaultyLimit(S, n) ==
  {T \in SUBSET S : /\ Cardinality(T) <= n + 1
                    /\ T # S => Cardinality(T) = n + 1}

(* Rows of S that a query with LIMIT n may return: ORDER BY created_at is
   abstracted to any choice, the number of rows is not.  A query that fails
   on the way leaves the rows it has read in the result. *)
Limit(S, n) ==
  {T \in SUBSET S : /\ Cardinality(T) <= n
                    /\ T # S => Cardinality(T) = n \/ DbMayFail}

(* Priority 1: rows already in progress whose transcoding has finished. *)
Stuck(scanned, flag, M) ==
  {f \in scanned \cap Transcoded : \E m \in M : flag[f][m] = InProgress}

(* Priority 2: rows nobody has processed. *)
Pending(scanned, flag, M) == {f \in scanned : \E m \in M : flag[f][m] = Todo}

NoClaim == [stuck |-> {}, pending |-> {}]

(* What a claim for the modes M may select.  Half the batch is offered to
   stuck rows and the rest of the whole batch to pending ones.  Without the
   status column the first query does not prepare, the transaction is rolled
   back and nothing is returned. *)
Selections(scanned, flag, M) ==
  IF ~HasStatusColumn
    THEN {NoClaim}
    ELSE {c \in [stuck : SUBSET Stuck(scanned, flag, M),
                 pending : SUBSET Pending(scanned, flag, M)] :
            /\ c.stuck \in Limit(Stuck(scanned, flag, M), BatchSize \div 2)
            /\ c.pending \in Limit(Pending(scanned, flag, M),
                                   BatchSize - Cardinality(c.stuck))}

(* One mode when the quality stack is off, any mode when it is on. *)
ClaimForMode(scanned, flag, m) == Selections(scanned, flag, {m})
ClaimForAnyMode(scanned, flag) == Selections(scanned, flag, Modes)

Selected(c) == c.stuck \cup c.pending

(* How often the claim's result lists f: the any-mode queries may both
   return it. *)
Listed(c, f) == (IF f \in c.stuck THEN 1 ELSE 0) + (IF f \in c.pending THEN 1 ELSE 0)

(* The pairs whose UPDATE took effect: there is one UPDATE for each mode and
   selected row, and one that fails is logged and leaves the row in the claim.
   A mode's UPDATE that does not prepare rolls all of them back. *)
MarkedPairs(c, M) ==
  IF DbMayFail THEN SUBSET (Selected(c) \X M) ELSE {Selected(c) \X M}

(* Fault: the any-mode UPDATE has lost "AND processed_<mode> = 0". *)
FaultyMarkInProgress(flag, P) ==
  [f \in Files |-> [m \in Modes |-> IF <<f, m>> \in P THEN InProgress ELSE flag[f][m]]]

MarkInProgress(flag, P) ==
  [f \in Files |-> [m \in Modes |->
     IF <<f, m>> \in P /\ flag[f][m] = Todo THEN InProgress ELSE flag[f][m]]]
=============================================================================
