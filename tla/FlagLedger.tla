----------------------------- MODULE FlagLedger -----------------------------
(***************************************************************************)
(* What the processing flags promise to whoever reads them, without saying *)
(* which thread moves them: every (file, mode) pair is to do, busy, done   *)
(* or failed, work is claimed only from the to-do pairs and in batches, a  *)
(* failure is final until the file's content changes, and a content change *)
(* or a restart puts back every mode of the file, or every busy pair, at   *)
(* once.  ServerPipeline is shown to implement it.                         *)
(***************************************************************************)
EXTENDS Integers, FiniteSets

CONSTANTS Files, Modes, BatchSize

VARIABLE ledger

States == {"todo", "busy", "done", "failed"}

LedgerTypeOK == ledger \in [Files -> [Modes -> States]]

Init == ledger = [f \in Files |-> [m \in Modes |-> "todo"]]

(* A claim takes to-do pairs of at most a batch of files.  Nothing is said of
   the other modes of these files: the statement that takes one pair may fail
   while those for the others succeed. *)
Claim(P) ==
  /\ Cardinality({x[1] : x \in P}) <= BatchSize
  /\ \A x \in P : ledger[x[1]][x[2]] = "todo"
  /\ ledger' = [f \in Files |-> [m \in Modes |->
       IF <<f, m>> \in P THEN "busy" ELSE ledger[f][m]]]

(* A failed pair is never finished, and a done one need not be. *)
Finish(f, m) ==
  /\ ledger[f][m] \in {"todo", "busy"}
  /\ ledger' = [ledger EXCEPT ![f][m] = "done"]

Fail(f, m) == ledger' = [ledger EXCEPT ![f][m] = "failed"]

(* The content of f changed. *)
Reopen(f) == ledger' = [ledger EXCEPT ![f] = [m \in Modes |-> "todo"]]

(* A restart gives up every claim, and nothing else. *)
Recover ==
  ledger' = [f \in Files |-> [m \in Modes |->
    IF ledger[f][m] = "busy" THEN "todo" ELSE ledger[f][m]]]

Next ==
  \/ \E P \in SUBSET (Files \X Modes) : Claim(P)
  \/ \E f \in Files, m \in Modes : Finish(f, m) \/ Fail(f, m)
  \/ \E f \in Files : Reopen(f)
  \/ Recover

Spec == Init /\ [][Next]_ledger
=============================================================================
