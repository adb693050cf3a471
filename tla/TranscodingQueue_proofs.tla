----------------------- MODULE TranscodingQueue_proofs -----------------------
(***************************************************************************)
(* Theorems about TranscodingQueue, for every value of its constants.      *)
(***************************************************************************)
EXTENDS TranscodingQueue, FiniteSetTheorems, TLAPS

USE QueueAssumption

-----------------------------------------------------------------------------
(* Lemmas about the operators on cache_map *)

(* The statuses are different, and so are the contents of an output. *)
LEMMA Constants ==
  /\ Statuses = {NoRow, Queued, InProgress, Completed, Failed}
  /\ NoRow # Queued /\ NoRow # InProgress /\ NoRow # Completed /\ NoRow # Failed
  /\ Queued # InProgress /\ Queued # Completed /\ Queued # Failed
  /\ InProgress # Completed /\ InProgress # Failed /\ Completed # Failed
  /\ Torn # NoOutput /\ Torn \notin Versions /\ NoOutput \notin Versions
BY DEF Statuses, NoRow, Queued, InProgress, Completed, Failed, Torn, NoOutput, Versions

(* main() restores the queue before the thread runs: nothing changes. *)
LEMMA RestoreChangesNothing ==
  ASSUME NEW rows \in [Sources -> Statuses] PROVE RestoreQueue(rows, FALSE) = rows
BY DEF RestoreQueue

(* What the statements do to one row. *)
LEMMA RowAfter ==
  ASSUME NEW rows \in [Sources -> Statuses], NEW f \in Sources, NEW s \in Statuses
  PROVE  /\ InsertJob(rows, f) \in [Sources -> Statuses]
         /\ SetStatus(rows, f, s) \in [Sources -> Statuses]
         /\ \A g \in Sources :
              /\ InsertJob(rows, f)[g] = IF g = f /\ rows[f] = NoRow THEN Queued ELSE rows[g]
              /\ SetStatus(rows, f, s)[g] = IF g = f /\ rows[f] # NoRow THEN s ELSE rows[g]
BY Constants DEF InsertJob, SetStatus

LEMMA RowAfterReset ==
  ASSUME NEW rows \in [Sources -> Statuses]
  PROVE  /\ ResetInProgress(rows) \in [Sources -> Statuses]
         /\ \A g \in Sources :
              ResetInProgress(rows)[g] = IF rows[g] = InProgress THEN Queued ELSE rows[g]
BY Constants DEF ResetInProgress

(* What a start makes of the rows. *)
LEMMA RowAtStart ==
  ASSUME row \in [Sources -> Statuses], Start
  PROVE  /\ row' \in [Sources -> Statuses]
         /\ \/ row' = ResetInProgress(row) /\ failures' = failures
            \/ row' = row /\ Fails
<1>1. RestoreQueue(row, FALSE) = row
  BY RestoreChangesNothing
<1>2. RestoreQueue(ResetInProgress(row), FALSE) = ResetInProgress(row)
  BY RowAfterReset, RestoreChangesNothing
<1> QED BY <1>1, <1>2, RowAfterReset DEF Start

(* The thread between two jobs is well typed. *)
LEMMA IdleTyped == Idle("top") \in Workers /\ Idle("off") \in Workers
BY DEF Idle, Workers, Working, Gone

(* A thread with a job that moves on to another step of the same job. *)
LEMMA MoveTyped ==
  ASSUME NEW w \in Workers, w.pc \notin {"off", "top"}, NEW p \in Working \ {"write"}
  PROVE  [w EXCEPT !.pc = p] \in Workers /\ w.file \in Sources
BY DEF Workers, Working

-----------------------------------------------------------------------------
(* Type correctness: the rows, the outputs, the mutex and the threads keep
   their ranges; in particular the thread has a job in hand exactly while it
   is between claiming one and recording its outcome. *)
THEOREM TypeCorrect == Spec => []TypeOK
<1>1. Init => TypeOK
  <2> SUFFICES ASSUME Init PROVE TypeOK
    OBVIOUS
  <2>1. row \in [Sources -> Statuses] /\ output \in [Sources -> Versions \cup {NoOutput, Torn}]
    BY Constants DEF Init
  <2>2. disk \in [Sources -> Versions \cup {Gone}]
    BY DEF Init, Versions
  <2>3. failures \in 0 .. MaxFailures /\ crashes \in 0 .. MaxEnds /\ stops \in 0 .. MaxEnds
    BY DEF Init
  <2> QED BY <2>1, <2>2, <2>3, IdleTyped DEF Init, TypeOK
<1>2. TypeOK /\ [Next]_vars => TypeOK'
  <2> SUFFICES ASSUME TypeOK, [Next]_vars PROVE TypeOK'
    OBVIOUS
  <2>0. ASSUME Fails PROVE failures' \in 0 .. MaxFailures
    BY <2>0 DEF Fails, TypeOK
  <2>1. ASSUME NEW f \in Sources, EditSource(f) \/ RemoveSource(f) PROVE TypeOK'
    BY <2>1 DEF EditSource, RemoveSource, TypeOK, process, counters, Versions, Gone
  <2>2. ASSUME NEW n \in Limits, SetLimit(n) PROVE TypeOK'
    BY <2>2 DEF SetLimit, TypeOK, counters
  <2>3. CASE Crash
    <3>1. crashes' \in 0 .. MaxEnds
      BY <2>3 DEF Crash, TypeOK
    <3> QED BY <2>3, <3>1, IdleTyped DEF Crash, TypeOK
  <2>4. CASE Start
    <3>1. row' \in [Sources -> Statuses]
      BY <2>4, RowAtStart DEF TypeOK
    <3>2. failures' \in 0 .. MaxFailures
      BY <2>4, <2>0 DEF Start, TypeOK
    <3> QED BY <2>4, <3>1, <3>2, IdleTyped DEF Start, TypeOK
  <2>5. CASE Stop
    <3>1. stops' \in 0 .. MaxEnds
      BY <2>5 DEF Stop, TypeOK
    <3> QED BY <2>5, <3>1 DEF Stop, TypeOK
  <2>6. ASSUME NEW r \in Requests, RequestStep(r) PROVE TypeOK'
    <3>1. ASSUME NEW f \in Sources, Ask(r, f) PROVE TypeOK'
      BY <3>1 DEF Ask, TypeOK, process, counters
    <3>2. CASE AskInsert(r)
      <4>1. request[r] \in Sources
        BY <3>2 DEF AskInsert, TypeOK
      <4>2. row' \in [Sources -> Statuses]
        BY <3>2, <4>1, RowAfter, Constants DEF AskInsert, TypeOK
      <4>3. failures' \in 0 .. MaxFailures
        BY <3>2, <2>0 DEF AskInsert, TypeOK
      <4> QED BY <3>2, <4>2, <4>3 DEF AskInsert, TypeOK, process
    <3> QED BY <2>6, <3>1, <3>2 DEF RequestStep
  <2>7. CASE Cleanup
    BY <2>7 DEF Cleanup, TypeOK, counters
  <2>8. CASE WorkerStep
    <3>1. CASE WorkerExit
      BY <3>1, IdleTyped DEF WorkerExit, TypeOK, counters
    <3>2. CASE WorkerClaim
      <4>1. worker' \in Workers
        <5>1. ASSUME NEW f \in Sources PROVE [Idle("claimed") EXCEPT !.file = f] \in Workers
          BY DEF Idle, Workers, Working, Gone
        <5> QED BY <3>2, <5>1 DEF WorkerClaim, TypeOK, Claimable
      <4>2. failures' \in 0 .. MaxFailures
        BY <3>2, <2>0 DEF WorkerClaim, TypeOK
      <4> QED BY <3>2, <4>1, <4>2 DEF WorkerClaim, TypeOK, process
    <3>3. CASE WorkerMark
      <4>1. [worker EXCEPT !.pc = "look"] \in Workers /\ worker.file \in Sources
        BY <3>3, MoveTyped DEF WorkerMark, TypeOK, Working
      <4>2. row' \in [Sources -> Statuses]
        BY <3>3, <4>1, RowAfter, Constants DEF WorkerMark, TypeOK
      <4>3. failures' \in 0 .. MaxFailures
        BY <3>3, <2>0 DEF WorkerMark, TypeOK
      <4> QED BY <3>3, <4>1, <4>2, <4>3, IdleTyped DEF WorkerMark, TypeOK, process
    <3>4. CASE WorkerLook
      <4>1. /\ [worker EXCEPT !.pc = "complete"] \in Workers
            /\ [worker EXCEPT !.pc = "limit"] \in Workers
        BY <3>4, MoveTyped DEF WorkerLook, TypeOK, Working
      <4>2. failures' \in 0 .. MaxFailures
        BY <3>4, <2>0 DEF WorkerLook, TypeOK
      <4> QED BY <3>4, <4>1, <4>2, IdleTyped DEF WorkerLook, TypeOK, Goto, process
    <3>5. CASE WorkerLimit
      <4>1. /\ [worker EXCEPT !.pc = "read"] \in Workers
            /\ [worker EXCEPT !.pc = "hung"] \in Workers
        BY <3>5, MoveTyped DEF WorkerLimit, TypeOK, Working
      <4> QED BY <3>5, <4>1 DEF WorkerLimit, TypeOK, Goto, counters
    <3>6. CASE WorkerRead
      <4>1. [worker EXCEPT !.pc = "fail"] \in Workers /\ worker.file \in Sources
        BY <3>6, MoveTyped DEF WorkerRead, TypeOK, Working
      <4>2. disk[worker.file] # Gone =>
              [worker EXCEPT !.pc = "write", !.ver = disk[worker.file]] \in Workers
        BY <3>6, <4>1 DEF WorkerRead, TypeOK, Workers, Working, Versions, Gone
      <4> QED BY <3>6, <4>1, <4>2 DEF WorkerRead, TypeOK, Goto, process, counters
    <3>7. CASE WorkerWrite
      <4>1. /\ [worker EXCEPT !.pc = "complete"] \in Workers
            /\ [worker EXCEPT !.pc = "fail"] \in Workers
            /\ worker.ver \in Versions
        BY <3>7, MoveTyped DEF WorkerWrite, TypeOK, Working, Workers
      <4> QED BY <3>7, <4>1 DEF WorkerWrite, TypeOK, Goto, process, counters
    <3>8. CASE WorkerRecord
      <4>1. worker.file \in Sources
        BY <3>8, MoveTyped DEF WorkerRecord, TypeOK, Working
      <4>2. row' \in [Sources -> Statuses]
        BY <3>8, <4>1, RowAfter, Constants DEF WorkerRecord, TypeOK
      <4>3. failures' \in 0 .. MaxFailures
        BY <3>8, <2>0 DEF WorkerRecord, TypeOK
      <4> QED BY <3>8, <4>2, <4>3, IdleTyped DEF WorkerRecord, NextJob, TypeOK, process
    <3> QED BY <2>8, <3>1, <3>2, <3>3, <3>4, <3>5, <3>6, <3>7, <3>8 DEF WorkerStep
  <2>9. CASE UNCHANGED vars
    BY <2>9 DEF vars, TypeOK, process, counters
  <2> QED BY <2>1, <2>2, <2>3, <2>4, <2>5, <2>6, <2>7, <2>8, <2>9 DEF Next
<1> QED BY <1>1, <1>2, PTL DEF Spec

-----------------------------------------------------------------------------
(* What makes the properties inductive: the job in hand is queued until it is
   marked and in progress afterwards, *)
JobMarked ==
  /\ worker.pc = "claimed" => row[worker.file] = Queued
  /\ worker.pc \in Working => row[worker.file] = InProgress

(* and a job that is done, or about to be, has an output. *)
OutputsThere ==
  /\ \A f \in Sources : row[f] = Completed => output[f] # NoOutput
  /\ worker.pc = "complete" => output[worker.file] # NoOutput

(* Without deaths, lost statements and exceptions half a file belongs to the
   job being written or to a failed one. *)
TornExplained ==
  crashes = 0 /\ failures = 0 =>
    \A f \in Sources : output[f] = Torn =>
      row[f] = Failed \/ (worker.file = f /\ worker.pc \in {"write", "fail"})

QueueInv == JobMarked /\ OutputsThere

(* Everything that the steps outside the thread leave alone. *)
LEMMA JobUntouched ==
  ASSUME TypeOK, JobMarked,
         UNCHANGED worker,
         \A g \in Sources : row[g] \in {Queued, InProgress} => row'[g] = row[g]
  PROVE  JobMarked'
<1>1. worker.pc \notin {"off", "top"} => worker.file \in Sources
  BY DEF TypeOK, Workers
<1> QED BY <1>1 DEF JobMarked, Working

LEMMA JobMarkedInductive == TypeOK /\ JobMarked /\ [Next]_vars => JobMarked'
<1> SUFFICES ASSUME TypeOK, JobMarked, [Next]_vars PROVE JobMarked'
  OBVIOUS
<1>0. worker.pc \notin {"off", "top"} => worker.file \in Sources
  BY DEF TypeOK, Workers
<1>1. ASSUME worker' \in {Idle("top"), Idle("off")} PROVE JobMarked'
  BY <1>1 DEF JobMarked, Idle, Working
<1>2. CASE UNCHANGED <<row, worker>>
  BY <1>2, JobUntouched
<1>3. ASSUME NEW r \in Requests, RequestStep(r) PROVE JobMarked'
  <2>1. CASE AskInsert(r)
    <3>1. request[r] \in Sources
      BY <2>1 DEF AskInsert, TypeOK
    <3>2. \A g \in Sources : row[g] \in {Queued, InProgress} => row'[g] = row[g]
      BY <2>1, <3>1, RowAfter, Constants DEF AskInsert, TypeOK
    <3>3. UNCHANGED worker
      BY <2>1 DEF AskInsert
    <3> QED BY <3>2, <3>3, JobUntouched
  <2>2. CASE \E f \in Sources : Ask(r, f)
    BY <1>2, <2>2 DEF Ask
  <2> QED BY <1>3, <2>1, <2>2 DEF RequestStep
<1>4. CASE WorkerClaim
  <2>1. CASE UNCHANGED <<row, worker>>
    BY <1>2, <2>1
  <2>2. ASSUME NEW f \in Claimable(row), worker' = [Idle("claimed") EXCEPT !.file = f]
        PROVE  JobMarked'
    <3>1. row' = row /\ row[f] = Queued
      BY <1>4 DEF WorkerClaim, Claimable
    <3>2. worker'.pc = "claimed" /\ worker'.file = f
      BY <2>2 DEF Idle
    <3> QED BY <3>1, <3>2 DEF JobMarked, Working
  <2> QED BY <1>4, <2>1, <2>2 DEF WorkerClaim
<1>5. CASE WorkerMark
  <2>1. CASE worker' = Idle("top")
    BY <1>1, <2>1
  <2>2. CASE worker' # Idle("top")
    <3>1. row' = SetStatus(row, worker.file, InProgress) /\ worker' = [worker EXCEPT !.pc = "look"]
      BY <1>5, <2>2 DEF WorkerMark
    <3>2. worker.file \in Sources /\ row[worker.file] = Queued
      BY <1>0, <1>5 DEF WorkerMark, JobMarked
    <3>3. row'[worker.file] = InProgress
      BY <3>1, <3>2, RowAfter, Constants DEF TypeOK
    <3>4. worker'.pc = "look" /\ worker'.file = worker.file
      BY <3>1 DEF TypeOK, Workers
    <3> QED BY <3>3, <3>4 DEF JobMarked, Working
  <2> QED BY <2>1, <2>2
<1>6. CASE WorkerLook \/ WorkerLimit \/ WorkerRead \/ WorkerWrite
  <2>1. CASE worker' = Idle("top")
    BY <1>1, <2>1
  <2>2. CASE worker' # Idle("top")
    <3>1. /\ row' = row /\ worker'.file = worker.file
          /\ worker.pc \in Working /\ worker'.pc \in Working
      BY <1>6, <2>2 DEF WorkerLook, WorkerLimit, WorkerRead, WorkerWrite, Goto, Working, TypeOK,
                        Workers, process
    <3> QED BY <3>1 DEF JobMarked, Working
  <2> QED BY <2>1, <2>2
<1>7. CASE WorkerExit \/ WorkerRecord \/ Crash \/ Start
  BY <1>1, <1>7 DEF WorkerExit, WorkerRecord, NextJob, Crash, Start
<1>8. CASE \/ \E f \in Sources : EditSource(f) \/ RemoveSource(f)
           \/ \E n \in Limits : SetLimit(n)
           \/ Stop \/ Cleanup \/ UNCHANGED vars
  BY <1>2, <1>8 DEF EditSource, RemoveSource, SetLimit, Stop, Cleanup, vars
<1> QED BY <1>3, <1>4, <1>5, <1>6, <1>7, <1>8 DEF Next, WorkerStep

(* A row that is done stays so. *)
LEMMA DoneStays ==
  ASSUME TypeOK, JobMarked, [Next]_vars, NEW f \in Sources, row[f] = Completed
  PROVE  row'[f] = Completed
<1>0. worker.pc \notin {"off", "top"} => worker.file \in Sources /\ worker.file # f
  BY Constants DEF TypeOK, Workers, JobMarked, Working
<1>1. CASE row' = row
  BY <1>1
<1>2. CASE \E r \in Requests : AskInsert(r)
  BY <1>2, RowAfter, Constants DEF AskInsert, TypeOK
<1>3. CASE WorkerMark \/ WorkerRecord
  <2>1. worker.file \in Sources /\ worker.file # f
    BY <1>0, <1>3 DEF WorkerMark, WorkerRecord
  <2>2. \A s \in {InProgress, Completed, Failed} : SetStatus(row, worker.file, s)[f] = row[f]
    BY <2>1, RowAfter, Constants DEF TypeOK
  <2> QED BY <1>3, <2>2 DEF WorkerMark, WorkerRecord
<1>4. CASE Start
  BY <1>4, RowAtStart, RowAfterReset, Constants DEF TypeOK
<1> QED BY <1>1, <1>2, <1>3, <1>4
        DEF Next, vars, EditSource, RemoveSource, SetLimit, Crash, Stop, Cleanup, RequestStep,
            Ask, WorkerStep, WorkerExit, WorkerClaim, WorkerLook, WorkerLimit, WorkerRead,
            WorkerWrite, process

(* Only the output of a job in progress is touched. *)
LEMMA OutputKept ==
  ASSUME TypeOK, JobMarked, [Next]_vars, NEW f \in Sources, row[f] # InProgress
  PROVE  output'[f] = output[f]
<1>1. CASE output' = output
  BY <1>1
<1>2. CASE WorkerLook \/ WorkerRead \/ WorkerWrite
  <2>1. worker.file \in Sources /\ worker.file # f
    BY <1>2 DEF WorkerLook, WorkerRead, WorkerWrite, JobMarked, Working, TypeOK, Workers
  <2> QED BY <1>2, <2>1 DEF WorkerLook, WorkerRead, WorkerWrite, TypeOK
<1> QED BY <1>1, <1>2
        DEF Next, vars, EditSource, RemoveSource, SetLimit, Crash, Start, Stop, Cleanup,
            RequestStep, Ask, AskInsert, WorkerStep, WorkerExit, WorkerClaim, WorkerMark,
            WorkerLimit, WorkerRecord, process

(* When a row becomes done the thread has just seen its output. *)
LEMMA BecomesDone ==
  ASSUME TypeOK, JobMarked, [Next]_vars, NEW f \in Sources,
         row[f] # Completed, row'[f] = Completed
  PROVE  /\ worker.pc = "complete" /\ worker.file = f /\ worker' = Idle("top")
         /\ output' = output
<1>1. CASE row' = row
  BY <1>1
<1>2. CASE \E r \in Requests : AskInsert(r)
  BY <1>2, RowAfter, Constants DEF AskInsert, TypeOK
<1>3. CASE WorkerMark
  <2>1. worker.file \in Sources
    BY <1>3 DEF WorkerMark, TypeOK, Workers
  <2> QED BY <1>3, <2>1, RowAfter, Constants DEF WorkerMark, TypeOK
<1>4. CASE WorkerRecord
  <2>1. worker.file \in Sources
    BY <1>4 DEF WorkerRecord, TypeOK, Workers
  <2> QED BY <1>4, <2>1, RowAfter, Constants DEF WorkerRecord, NextJob, TypeOK
<1>5. CASE Start
  BY <1>5, RowAtStart, RowAfterReset, Constants DEF TypeOK
<1> QED BY <1>1, <1>2, <1>3, <1>4, <1>5
        DEF Next, vars, EditSource, RemoveSource, SetLimit, Crash, Stop, Cleanup, RequestStep,
            Ask, WorkerStep, WorkerExit, WorkerClaim, WorkerLook, WorkerLimit, WorkerRead,
            WorkerWrite, process

(* The thread comes to record a success only past an output: one it found, or
   one it wrote to the end. *)
LEMMA BecomesComplete ==
  ASSUME TypeOK, [Next]_vars, worker' # worker, worker'.pc = "complete"
  PROVE  LET f == worker.file
         IN /\ f \in Sources /\ worker'.file = f /\ row' = row
            /\ \/ worker.pc = "look" /\ output[f] # NoOutput /\ output'[f] = output[f]
               \/ worker.pc = "write" /\ output'[f] \in Versions
<1>1. Idle("top").pc # "complete" /\ Idle("off").pc # "complete"
  BY DEF Idle
<1>2. ASSUME NEW f \in Sources PROVE [Idle("claimed") EXCEPT !.file = f].pc # "complete"
  BY DEF Idle
<1>3. CASE WorkerLook
  <2>1. worker.file \in Sources
    BY <1>3 DEF WorkerLook, TypeOK, Workers
  <2>2. CASE output[worker.file] # NoOutput /\ disk[worker.file] # Gone
    BY <1>1, <1>3, <2>1, <2>2 DEF WorkerLook, Goto, TypeOK, Workers
  <2>3. CASE ~(output[worker.file] # NoOutput /\ disk[worker.file] # Gone)
    BY <1>1, <1>3, <2>3 DEF WorkerLook, Goto, TypeOK, Workers
  <2> QED BY <2>2, <2>3
<1>4. CASE WorkerWrite
  <2>1. worker.file \in Sources /\ worker.ver \in Versions
    BY <1>4 DEF WorkerWrite, TypeOK, Workers
  <2> QED BY <1>4, <2>1 DEF WorkerWrite, Goto, TypeOK, Workers, process
<1>5. CASE WorkerMark \/ WorkerLimit \/ WorkerRead
  BY <1>1, <1>5 DEF WorkerMark, WorkerLimit, WorkerRead, Goto, TypeOK, Workers
<1>6. CASE WorkerExit \/ WorkerClaim \/ WorkerRecord \/ Crash \/ Start
  BY <1>1, <1>2, <1>6 DEF WorkerExit, WorkerClaim, WorkerRecord, NextJob, Crash, Start, Claimable
<1> QED BY <1>3, <1>4, <1>5, <1>6
        DEF Next, vars, EditSource, RemoveSource, SetLimit, Stop, Cleanup, RequestStep, Ask,
            AskInsert, WorkerStep

LEMMA OutputsThereInductive ==
  TypeOK /\ JobMarked /\ OutputsThere /\ [Next]_vars => OutputsThere'
<1> SUFFICES ASSUME TypeOK, JobMarked, OutputsThere, [Next]_vars PROVE OutputsThere'
  OBVIOUS
<1>1. ASSUME NEW f \in Sources, row'[f] = Completed PROVE output'[f] # NoOutput
  <2>1. CASE row[f] = Completed
    BY <2>1, OutputKept, Constants DEF OutputsThere
  <2>2. CASE row[f] # Completed
    BY <1>1, <2>2, BecomesDone DEF OutputsThere
  <2> QED BY <2>1, <2>2
<1>2. ASSUME worker'.pc = "complete" PROVE output'[worker'.file] # NoOutput
  <2>1. CASE worker' = worker
    <3>1. ~(WorkerLook \/ WorkerRead \/ WorkerWrite)
      BY <1>2, <2>1 DEF WorkerLook, WorkerRead, WorkerWrite
    <3>2. output' = output
      BY <3>1 DEF Next, vars, EditSource, RemoveSource, SetLimit, Crash, Start, Stop, Cleanup,
            RequestStep, Ask, AskInsert, WorkerStep, WorkerExit, WorkerClaim, WorkerMark,
            WorkerLimit, WorkerRecord, process
    <3> QED BY <1>2, <2>1, <3>2 DEF OutputsThere
  <2>2. CASE worker' # worker
    BY <1>2, <2>2, BecomesComplete, Constants
  <2> QED BY <2>1, <2>2
<1> QED BY <1>1, <1>2 DEF OutputsThere

(* The invariant behind the properties of single jobs. *)
THEOREM QueueInvariant == Spec => []QueueInv
<1>1. Init => QueueInv
  BY Constants DEF Init, QueueInv, JobMarked, OutputsThere, Idle, Working
<1>2. TypeOK /\ QueueInv /\ [Next]_vars => QueueInv'
  BY JobMarkedInductive, OutputsThereInductive DEF QueueInv
<1> QED BY <1>1, <1>2, TypeCorrect, PTL DEF Spec

(* A finished job is never touched again: not by a job queued twice, by the
   removal of outputs without a source, by a restart or by a death at any
   step. *)
THEOREM FinishedStays == Spec => SettledKept
<1>1. TypeOK /\ QueueInv /\ [Next]_vars => [KeepSettled]_vars
  BY DoneStays, OutputKept, Constants DEF QueueInv, OutputsThere, KeepSettled
<1> QED BY <1>1, TypeCorrect, QueueInvariant, PTL DEF Spec, SettledKept

-----------------------------------------------------------------------------
(* What a step does to the rows and to the job in hand *)

(* A dead or stopped process has no thread. *)
WorkerOff == ~up => worker.pc = "off"

LEMMA WorkerOffInductive == TypeOK /\ WorkerOff /\ [Next]_vars => WorkerOff'
<1> SUFFICES ASSUME TypeOK, WorkerOff, [Next]_vars PROVE WorkerOff'
  OBVIOUS
<1>1. Idle("off").pc = "off"
  BY DEF Idle
<1>2. CASE Crash \/ Start \/ WorkerExit
  BY <1>1, <1>2 DEF Crash, Start, WorkerExit, WorkerOff
<1>3. CASE WorkerClaim \/ WorkerMark \/ WorkerLook \/ WorkerLimit \/ WorkerRead \/ WorkerWrite
           \/ WorkerRecord
  <2>1. worker.pc # "off"
    BY <1>3 DEF WorkerClaim, WorkerMark, WorkerLook, WorkerLimit, WorkerRead, WorkerWrite,
                WorkerRecord
  <2>2. up' = up
    BY <1>3 DEF WorkerClaim, WorkerMark, WorkerLook, WorkerLimit, WorkerRead, WorkerWrite,
                WorkerRecord, process
  <2> QED BY <2>1, <2>2 DEF WorkerOff
<1>4. CASE up' = up /\ worker' = worker
  BY <1>4 DEF WorkerOff
<1> QED BY <1>2, <1>3, <1>4
        DEF Next, vars, EditSource, RemoveSource, SetLimit, Stop, Cleanup, RequestStep, Ask,
            AskInsert, WorkerStep, process

THEOREM WorkerOffAlways == Spec => []WorkerOff
<1>1. Init => WorkerOff
  BY DEF Init, WorkerOff
<1> QED BY <1>1, WorkerOffInductive, TypeCorrect, PTL DEF Spec

Submits(f) ==
  /\ row[f] = NoRow /\ row' = [row EXCEPT ![f] = Queued]
  /\ Held' = Held

Takes(f) ==
  /\ row[f] = Queued /\ row' = [row EXCEPT ![f] = InProgress]
  /\ Held = NoFile /\ Held' = f

Leaves(f) ==
  /\ Held = f /\ Held' = NoFile
  /\ row' = row
  /\ Crash \/ Fails

Settles(f, s) ==
  /\ Held = f /\ Held' = NoFile
  /\ row[f] = InProgress /\ row' = [row EXCEPT ![f] = s]

Recovers ==
  /\ Held = NoFile /\ Held' = NoFile
  /\ row' = ResetInProgress(row)
  /\ Start

(* The job in hand by where the thread is. *)
LEMMA HeldIs ==
  ASSUME TypeOK, JobMarked
  PROVE  /\ worker.pc \in Working =>
              Held = worker.file /\ Held \in Sources /\ row[Held] = InProgress
         /\ worker.pc \notin Working => Held = NoFile
         /\ worker.pc = "claimed" => worker.file \in Sources /\ row[worker.file] = Queued
BY DEF Held, JobMarked, TypeOK, Workers, Working

(* Every step is one of the five, or leaves the rows and the job in hand as
   they are. *)
LEMMA StepSummary ==
  ASSUME TypeOK, JobMarked, WorkerOff, [Next]_vars
  PROVE  \/ row' = row /\ Held' = Held
         \/ \E f \in Sources :
              Submits(f) \/ Takes(f) \/ Leaves(f) \/ \E s \in {Completed, Failed} : Settles(f, s)
         \/ Recovers
<1>1. \A p : Idle(p).pc = p
  BY DEF Idle
<1>2. "off" \notin Working /\ "top" \notin Working /\ "claimed" \notin Working
  BY DEF Working
<1>3. CASE row' = row /\ worker' = worker
  BY <1>3 DEF Held
<1>4. ASSUME NEW r \in Requests, AskInsert(r)
      PROVE  (row' = row /\ Held' = Held) \/ \E f \in Sources : Submits(f)
  <2>1. request[r] \in Sources /\ Held' = Held
    BY <1>4 DEF AskInsert, TypeOK, process, Held
  <2>2. row' = row \/ row' = InsertJob(row, request[r])
    BY <1>4 DEF AskInsert
  <2> QED BY <2>1, <2>2 DEF InsertJob, Submits
<1>5. CASE WorkerMark
  <2>1. Held = NoFile /\ worker.file \in Sources /\ row[worker.file] = Queued
    BY <1>2, <1>5, HeldIs DEF WorkerMark
  <2>2. CASE row' = row /\ worker' = Idle("top")
    BY <1>1, <1>2, <2>1, <2>2 DEF Held
  <2>3. CASE row' = SetStatus(row, worker.file, InProgress) /\ worker' = [worker EXCEPT !.pc = "look"]
    <3>1. worker'.pc = "look" /\ worker'.file = worker.file
      BY <2>3 DEF TypeOK, Workers
    <3>2. Held' = worker.file
      BY <3>1 DEF Held, Working
    <3>3. row' = [row EXCEPT ![worker.file] = InProgress]
      BY <2>1, <2>3, Constants DEF SetStatus
    <3> QED BY <2>1, <3>2, <3>3 DEF Takes
  <2> QED BY <1>5, <2>2, <2>3 DEF WorkerMark
<1>6. CASE WorkerClaim
  BY <1>1, <1>2, <1>6 DEF WorkerClaim, Claimable, Held, Idle
<1>7. CASE WorkerLook \/ WorkerLimit \/ WorkerRead \/ WorkerWrite
  <2>1. CASE WorkerLook /\ Fails /\ worker' = Idle("top")
    <3>1. Held = worker.file /\ Held \in Sources /\ Held' = NoFile /\ row' = row
      BY <1>1, <1>2, <2>1, HeldIs DEF WorkerLook, Working, Held
    <3> QED BY <2>1, <3>1 DEF Leaves
  <2>2. CASE ~(WorkerLook /\ Fails /\ worker' = Idle("top"))
    <3>1. /\ row' = row /\ worker'.file = worker.file
          /\ worker.pc \in Working /\ worker'.pc \in Working
      BY <1>7, <2>2 DEF WorkerLook, WorkerLimit, WorkerRead, WorkerWrite, Goto, Working, TypeOK,
                        Workers, process
    <3> QED BY <3>1 DEF Held
  <2> QED BY <2>1, <2>2
<1>8. CASE WorkerRecord
  <2>1. Held = worker.file /\ Held \in Sources /\ row[Held] = InProgress
    BY <1>8, HeldIs DEF WorkerRecord, Working
  <2>2. Held' = NoFile
    BY <1>1, <1>2, <1>8 DEF WorkerRecord, NextJob, Held
  <2>3. CASE row' = row /\ Fails
    BY <2>1, <2>2, <2>3 DEF Leaves
  <2>4. ASSUME NEW s \in {Completed, Failed}, row' = SetStatus(row, worker.file, s)
        PROVE  Settles(worker.file, s)
    <3>1. row' = [row EXCEPT ![worker.file] = s]
      BY <2>1, <2>4, Constants DEF SetStatus
    <3> QED BY <2>1, <2>2, <3>1 DEF Settles
  <2> QED BY <1>8, <2>1, <2>3, <2>4 DEF WorkerRecord
<1>9. CASE Crash
  <2>1. row' = row /\ Held' = NoFile
    BY <1>1, <1>2, <1>9 DEF Crash, Held
  <2>2. CASE worker.pc \in Working
    BY <1>9, <2>1, <2>2, HeldIs DEF Leaves
  <2>3. CASE worker.pc \notin Working
    BY <2>1, <2>3, HeldIs
  <2> QED BY <2>2, <2>3
<1>10. CASE WorkerExit
  BY <1>1, <1>2, <1>10 DEF WorkerExit, Held
<1>11. CASE Start
  <2>1. Held = NoFile /\ Held' = NoFile
    BY <1>1, <1>2, <1>11, HeldIs DEF Start, WorkerOff, Held
  <2>2. row' = row \/ row' = ResetInProgress(row)
    BY <1>11, RowAtStart DEF TypeOK
  <2> QED BY <1>11, <2>1, <2>2 DEF Recovers
<1> QED BY <1>3, <1>4, <1>5, <1>6, <1>7, <1>8, <1>9, <1>10, <1>11
        DEF Next, vars, EditSource, RemoveSource, SetLimit, Stop, Cleanup, RequestStep, Ask,
            WorkerStep, process

-----------------------------------------------------------------------------
(* Orphans: an inductive bound.  A death leaves one job behind that
   failures does not count; it is given back by the start that follows. *)
Abandoned == IF up \/ cancelled THEN 0 ELSE 1
OrphanBound == IsFiniteSet(Orphans) /\ Cardinality(Orphans) <= failures + Abandoned

LEMMA OrphansFinite == IsFiniteSet(Orphans) /\ Cardinality(Orphans) \in Nat
BY FS_Subset, FS_CardinalityType DEF Orphans

(* No step makes more than one orphan, and one that does is a failed
   statement, a look that threw or a death. *)
LEMMA OrphansAfter ==
  ASSUME TypeOK, TypeOK', JobMarked, WorkerOff, [Next]_vars
  PROVE  \/ Orphans' \subseteq Orphans
         \/ \E f \in Sources : Orphans' \subseteq Orphans \cup {f} /\ (Crash \/ Fails)
<1>1. CASE row' = row /\ Held' = Held
  BY <1>1 DEF Orphans
<1>2. ASSUME NEW f \in Sources, Submits(f) PROVE Orphans' \subseteq Orphans
  BY <1>2, Constants DEF Submits, Orphans, TypeOK
<1>3. ASSUME NEW f \in Sources, Takes(f) PROVE Orphans' \subseteq Orphans
  BY <1>3, Constants DEF Takes, Orphans, TypeOK
<1>4. ASSUME NEW f \in Sources, Leaves(f)
      PROVE  Orphans' \subseteq Orphans \cup {f} /\ (Crash \/ Fails)
  BY <1>4 DEF Leaves, Orphans
<1>5. ASSUME NEW f \in Sources, NEW t \in {Completed, Failed}, Settles(f, t)
      PROVE  Orphans' \subseteq Orphans
  BY <1>5, Constants DEF Settles, Orphans, TypeOK
<1>6. CASE Recovers
  <2>1. \A g \in Sources : row'[g] # InProgress
    BY <1>6, RowAfterReset, Constants DEF Recovers, TypeOK
  <2> QED BY <2>1 DEF Orphans
<1> QED BY <1>1, <1>2, <1>3, <1>4, <1>5, <1>6, StepSummary

(* A start that succeeds leaves no orphan; one that fails is a failure. *)
LEMMA StartClears ==
  ASSUME TypeOK, Start
  PROVE  \/ Orphans' = {} /\ failures' = failures
         \/ Fails
<1>1. CASE row' = ResetInProgress(row) /\ failures' = failures
  <2>1. \A g \in Sources : row'[g] # InProgress
    BY <1>1, RowAfterReset, Constants DEF TypeOK
  <2> QED BY <1>1, <2>1 DEF Orphans
<1> QED BY <1>1, RowAtStart DEF TypeOK

LEMMA OrphanBoundInductive ==
  TypeOK /\ TypeOK' /\ JobMarked /\ WorkerOff /\ OrphanBound /\ [Next]_vars => OrphanBound'
<1> SUFFICES ASSUME TypeOK, TypeOK', JobMarked, WorkerOff, OrphanBound, [Next]_vars
             PROVE  OrphanBound'
  OBVIOUS
<1>1. IsFiniteSet(Orphans') /\ Cardinality(Orphans') \in Nat
  BY FS_Subset, FS_CardinalityType DEF Orphans
<1>2. IsFiniteSet(Orphans) /\ Cardinality(Orphans) \in Nat
  BY OrphansFinite
<1>3. failures \in Nat /\ failures' \in Nat /\ up \in BOOLEAN /\ cancelled \in BOOLEAN
      /\ up' \in BOOLEAN /\ cancelled' \in BOOLEAN
  BY DEF TypeOK
<1>4. Abandoned \in {0, 1} /\ Abandoned' \in {0, 1}
  BY DEF Abandoned
<1>5. ASSUME Orphans' \subseteq Orphans
      PROVE  Cardinality(Orphans') <= Cardinality(Orphans)
  BY <1>2, <1>5, FS_Subset
<1>6. ASSUME NEW f \in Sources, Orphans' \subseteq Orphans \cup {f}
      PROVE  Cardinality(Orphans') <= Cardinality(Orphans) + 1
  <2>1. IsFiniteSet(Orphans \cup {f})
    BY <1>2, FS_AddElement
  <2>2. \/ Cardinality(Orphans \cup {f}) = Cardinality(Orphans)
        \/ Cardinality(Orphans \cup {f}) = Cardinality(Orphans) + 1
    BY <1>2, FS_AddElement
  <2>3. Cardinality(Orphans') <= Cardinality(Orphans \cup {f})
    BY <1>6, <2>1, FS_Subset
  <2> QED BY <1>1, <1>2, <2>2, <2>3
<1>7. failures' = failures \/ failures' = failures + 1
  BY DEF Next, vars, EditSource, RemoveSource, SetLimit, Crash, Start, Stop, Cleanup, RequestStep,
         Ask, AskInsert, WorkerStep, WorkerExit, WorkerClaim, WorkerMark, WorkerLook, WorkerLimit,
         WorkerRead, WorkerWrite, WorkerRecord, Fails, counters
<1>8. CASE Crash
  <2>1. Abandoned = 0 /\ Abandoned' = 1 /\ failures' = failures
    BY <1>8 DEF Crash, Abandoned
  <2>2. ~Fails
    BY <1>3, <2>1 DEF Fails
  <2>3. Cardinality(Orphans') <= Cardinality(Orphans) + 1
    BY <1>1, <1>2, <1>5, <1>6, OrphansAfter
  <2> QED BY <1>1, <1>2, <1>3, <2>1, <2>3 DEF OrphanBound
<1>9. CASE Start
  <2>1. Abandoned' = 0
    BY <1>9 DEF Start, Abandoned
  <2>2. CASE Orphans' = {} /\ failures' = failures
    <3>1. Cardinality(Orphans') = 0
      BY <2>2, FS_EmptySet
    <3>2. Cardinality(Orphans') <= failures' + Abandoned'
      <4>1. failures' \in Nat
        BY <1>3
      <4>2. failures' + Abandoned' = failures'
        BY <2>1, <4>1, \A n \in Nat : n + 0 = n
      <4>3. 0 <= failures'
        BY <4>1
      <4> QED BY <3>1, <4>2, <4>3
    <3> QED BY <1>1, <3>2 DEF OrphanBound
  <2>3. CASE Fails
    <3>1. row' = row /\ Held' = Held
      <4>1. row' = row
        BY <1>9, <2>3, <1>3, RowAtStart DEF TypeOK, Fails
      <4>2. Held = NoFile /\ Held' = NoFile
        BY <1>9 DEF Start, WorkerOff, Held, Idle, Working
      <4> QED BY <4>1, <4>2
    <3>2. Orphans' = Orphans
      BY <3>1 DEF Orphans
    <3>3. failures' = failures + 1
      BY <2>3 DEF Fails
    <3> QED BY <1>2, <1>3, <1>4, <2>1, <3>2, <3>3 DEF OrphanBound
  <2> QED BY <1>9, <2>2, <2>3, StartClears
<1>10. CASE ~Crash /\ ~Start
  <2>1. Abandoned' = Abandoned
    <3>1. CASE WorkerExit
      BY <3>1 DEF WorkerExit, Abandoned
    <3>2. CASE Stop
      BY <3>2 DEF Stop, Abandoned
    <3>3. CASE UNCHANGED <<up, cancelled>>
      BY <3>3 DEF Abandoned
    <3> QED BY <1>10, <3>1, <3>2, <3>3
            DEF Next, vars, EditSource, RemoveSource, SetLimit, Cleanup, RequestStep, Ask,
                AskInsert, WorkerStep, WorkerClaim, WorkerMark, WorkerLook, WorkerLimit,
                WorkerRead, WorkerWrite, WorkerRecord, process
  <2>2. CASE Orphans' \subseteq Orphans
    BY <1>1, <1>2, <1>3, <1>4, <1>5, <1>7, <2>1, <2>2 DEF OrphanBound
  <2>3. CASE \E f \in Sources : Orphans' \subseteq Orphans \cup {f} /\ Fails
    BY <1>1, <1>2, <1>3, <1>4, <1>6, <2>1, <2>3 DEF OrphanBound, Fails
  <2> QED BY <1>10, <2>2, <2>3, OrphansAfter
<1> QED BY <1>8, <1>9, <1>10

(* A row "in progress" that nobody works on is owed to a failed statement, to
   a look at the file system that threw, or to a death since which nothing has
   been started; at most one per failure, and none of them outlives a start
   that succeeds. *)
THEOREM OrphansAreExplained == Spec => []OrphansExplained
<1>1. Init => OrphanBound
  <2>1. ASSUME Init PROVE Orphans = {}
    BY <2>1, Constants DEF Init, Orphans
  <2>2. ASSUME Init PROVE Cardinality(Orphans) = 0 /\ IsFiniteSet(Orphans)
    BY <2>1, <2>2, FS_EmptySet
  <2>3. ASSUME Init PROVE failures = 0 /\ Abandoned = 0
    BY <2>3 DEF Init, Abandoned
  <2> QED BY <2>2, <2>3 DEF OrphanBound
<1>2. TypeOK /\ OrphanBound => OrphansExplained
  BY OrphansFinite DEF OrphanBound, OrphansExplained, Abandoned, TypeOK
<1>3. QueueInv => JobMarked
  BY DEF QueueInv
<1> QED BY <1>1, <1>2, <1>3, OrphanBoundInductive, TypeCorrect, QueueInvariant, WorkerOffAlways,
        PTL DEF Spec

-----------------------------------------------------------------------------
(* Half-written outputs *)

(* Neither does a failed job change. *)
LEMMA FailedStays ==
  ASSUME TypeOK, JobMarked, WorkerOff, [Next]_vars, NEW f \in Sources, row[f] = Failed
  PROVE  row'[f] = Failed
<1>1. ASSUME NEW g \in Sources, Submits(g) \/ Takes(g) PROVE row'[f] = row[f]
  BY <1>1, Constants DEF Submits, Takes, TypeOK
<1>2. ASSUME NEW g \in Sources, NEW s \in {Completed, Failed}, Settles(g, s)
      PROVE  row'[f] = row[f]
  BY <1>2, Constants DEF Settles, TypeOK
<1>3. CASE Recovers
  BY <1>3, RowAfterReset, Constants DEF Recovers, TypeOK
<1> QED BY <1>1, <1>2, <1>3, StepSummary DEF Leaves

LEMMA TornExplainedInductive ==
  TypeOK /\ JobMarked /\ WorkerOff /\ TornExplained /\ [Next]_vars => TornExplained'
<1> SUFFICES ASSUME TypeOK, JobMarked, WorkerOff, TornExplained, [Next]_vars,
                    crashes' = 0, failures' = 0,
                    NEW f \in Sources, output'[f] = Torn
             PROVE  row'[f] = Failed \/ (worker'.file = f /\ worker'.pc \in {"write", "fail"})
  BY DEF TornExplained
<1>0. failures \in Nat /\ crashes \in Nat
  BY DEF TypeOK
<1>1. ~Fails /\ ~Crash
  BY <1>0 DEF Fails, Crash
<1>2. crashes = 0 /\ failures = 0
  BY <1>1 DEF Next, vars, EditSource, RemoveSource, SetLimit, Crash, Start, Stop, Cleanup,
         RequestStep, Ask, AskInsert, WorkerStep, WorkerExit, WorkerClaim, WorkerMark, WorkerLook,
         WorkerLimit, WorkerRead, WorkerWrite, WorkerRecord, counters
<1>3. CASE output[f] # Torn
  <2>1. ~(output' = output)
    BY <1>3
  <2>2. WorkerLook \/ WorkerRead \/ WorkerWrite
    BY <2>1
       DEF Next, vars, EditSource, RemoveSource, SetLimit, Crash, Start, Stop, Cleanup,
           RequestStep, Ask, AskInsert, WorkerStep, WorkerExit, WorkerClaim, WorkerMark,
           WorkerLimit, WorkerRecord, process
  <2>3. worker.file \in Sources
    BY <2>2 DEF WorkerLook, WorkerRead, WorkerWrite, TypeOK, Workers
  <2>4. ~WorkerLook
    BY <1>3, <2>3, Constants DEF WorkerLook, TypeOK
  <2>5. ~WorkerWrite
    <3>1. ASSUME WorkerWrite PROVE worker.ver \in Versions
      BY <3>1 DEF WorkerWrite, TypeOK, Workers
    <3> QED BY <1>3, <2>3, <3>1, Constants DEF WorkerWrite, TypeOK
  <2>6. WorkerRead
    BY <2>2, <2>4, <2>5
  <2>7. worker' = [worker EXCEPT !.pc = "write", !.ver = disk[worker.file]] /\ worker.file = f
    BY <1>3, <2>3, <2>6 DEF WorkerRead, TypeOK
  <2> QED BY <2>7 DEF TypeOK, Workers
<1>4. CASE row[f] = Failed
  BY <1>4, FailedStays
<1>5. CASE worker.file = f /\ worker.pc \in {"write", "fail"}
  <2>1. CASE worker' = worker
    BY <1>5, <2>1
  <2>2. CASE WorkerWrite
    <3>1. worker.ver \in Versions
      BY <2>2 DEF WorkerWrite, TypeOK, Workers
    <3>2. Goto("fail")
      BY <1>5, <2>2, <3>1, Constants DEF WorkerWrite, TypeOK
    <3> QED BY <1>5, <3>2 DEF Goto, TypeOK, Workers
  <2>3. CASE WorkerRecord
    <3>1. row' = SetStatus(row, f, Failed)
      BY <1>1, <1>5, <2>3 DEF WorkerRecord
    <3>2. row[f] = InProgress
      BY <1>5 DEF JobMarked, Working
    <3> QED BY <3>1, <3>2, RowAfter, Constants DEF TypeOK
  <2>4. ~Start
    BY <1>5 DEF Start, WorkerOff
  <2>5. CASE WorkerExit \/ WorkerClaim \/ WorkerMark \/ WorkerLook \/ WorkerLimit \/ WorkerRead
    BY <1>5, <2>5 DEF WorkerExit, WorkerClaim, WorkerMark, WorkerLook, WorkerLimit, WorkerRead
  <2> QED BY <1>1, <2>1, <2>2, <2>3, <2>4, <2>5
          DEF Next, vars, EditSource, RemoveSource, SetLimit, Stop, Cleanup, RequestStep, Ask,
              AskInsert, WorkerStep, process
<1> QED BY <1>2, <1>3, <1>4, <1>5 DEF TornExplained

(* Without deaths, lost statements and exceptions a finished job has a whole
   output: half a file can only belong to the job being written or to a failed one. *)
THEOREM FinishedIsWhole == Spec => []DoneIsWhole
<1>1. Init => TornExplained
  BY Constants DEF Init, TornExplained
<1>2. TypeOK /\ QueueInv /\ TornExplained => DoneIsWhole
  BY Constants DEF QueueInv, JobMarked, OutputsThere, TornExplained, DoneIsWhole, TypeOK, Working
<1>3. QueueInv => JobMarked
  BY DEF QueueInv
<1> QED BY <1>1, <1>2, <1>3, TornExplainedInductive, TypeCorrect, QueueInvariant,
        WorkerOffAlways, PTL DEF Spec

-----------------------------------------------------------------------------
(* TranscodingQueue implements JobQueue *)

(* The names of the statuses are told apart as the statuses are. *)
LEMMA StageNames ==
  /\ StageName(NoRow) = "new" /\ StageName(Queued) = "waiting"
  /\ StageName(InProgress) = "running" /\ StageName(Completed) = "done"
  /\ StageName(Failed) = "failed"
  /\ \A s \in Statuses : StageName(s) = "running" <=> s = InProgress
BY Constants DEF StageName

Bar == [f \in Sources |-> StageName(row[f])]

(* One row that changes is one job that changes. *)
LEMMA BarAfter ==
  ASSUME TypeOK, NEW f \in Sources, NEW s, row' = [row EXCEPT ![f] = s]
  PROVE  Bar' = [Bar EXCEPT ![f] = StageName(s)]
BY DEF Bar, TypeOK

LEMMA StepRefines ==
  ASSUME TypeOK, TypeOK', JobMarked, WorkerOff, [Next]_vars
  PROVE  \/ Bar' = Bar /\ Held' = Held
         \/ Queue!Next
<1>1. CASE row' = row /\ Held' = Held
  BY <1>1 DEF Bar
<1>2. ASSUME NEW f \in Sources, Submits(f) PROVE Queue!Submit(f)
  <2>0. row' = [row EXCEPT ![f] = Queued]
    BY <1>2 DEF Submits
  <2>1. Bar' = [Bar EXCEPT ![f] = StageName(Queued)]
    BY <2>0, BarAfter
  <2>2. Bar[f] = "new"
    BY <1>2, StageNames DEF Submits, Bar
  <2> QED BY <1>2, <2>1, <2>2, StageNames DEF Submits, Queue!Submit, Bar
<1>3. ASSUME NEW f \in Sources, Takes(f) PROVE Queue!Take(f)
  <2>0. row' = [row EXCEPT ![f] = InProgress]
    BY <1>3 DEF Takes
  <2>1. Bar' = [Bar EXCEPT ![f] = StageName(InProgress)]
    BY <2>0, BarAfter
  <2>2. Bar[f] = "waiting"
    BY <1>3, StageNames DEF Takes, Bar
  <2> QED BY <1>3, <2>1, <2>2, StageNames DEF Takes, Queue!Take, Bar
<1>4. ASSUME NEW f \in Sources, Leaves(f) PROVE Queue!Finish
  <2>1. Bar[f] = "running" /\ Held = f /\ Held' = NoFile /\ Bar' = Bar
    BY <1>4, HeldIs, StageNames DEF Leaves, Bar
  <2>2. Bar' = [Bar EXCEPT ![f] = "running"]
    BY <2>1 DEF Bar
  <2> QED BY <2>1, <2>2 DEF Queue!Finish, Bar
<1>5. ASSUME NEW f \in Sources, NEW s \in {Completed, Failed}, Settles(f, s) PROVE Queue!Finish
  <2>1. Bar' = [Bar EXCEPT ![f] = StageName(s)] /\ StageName(s) \in {"done", "failed"}
    BY <1>5, BarAfter, StageNames DEF Settles
  <2>2. Held = f /\ Held' = NoFile /\ Held # NoFile
    BY <1>5 DEF Settles
  <2> QED BY <2>1, <2>2 DEF Queue!Finish, Bar
<1>6. CASE Recovers
  <2>1. ASSUME NEW g \in Sources
        PROVE  StageName(row'[g]) = IF StageName(row[g]) = "running" THEN "waiting"
                                                                     ELSE StageName(row[g])
    <3>1. row[g] \in Statuses
      BY DEF TypeOK
    <3>2. row'[g] = IF row[g] = InProgress THEN Queued ELSE row[g]
      BY <1>6, RowAfterReset DEF Recovers, TypeOK
    <3> QED BY <3>1, <3>2, StageNames
  <2>2. Bar' = [g \in Sources |-> IF Bar[g] = "running" THEN "waiting" ELSE Bar[g]]
    BY <2>1 DEF Bar
  <2>3. Queue!Recover
    BY <1>6, <2>2 DEF Recovers, Queue!Recover, Bar
  <2> QED BY <2>3 DEF Queue!Next
<1> QED BY <1>1, <1>2, <1>3, <1>4, <1>5, <1>6, StepSummary DEF Queue!Next

(* The table, the thread and their callers implement the queue for every
   number of files and callers, with statements that fail, exceptions,
   deaths at any step and shutdowns. *)
THEOREM ImplementsJobQueue == Spec => KeepsJobQueue
<1>1. Init => Queue!Init
  BY StageNames DEF Init, Queue!Init, Held, Idle, Working
<1>2. QueueInv => JobMarked
  BY DEF QueueInv
<1>3. TypeOK /\ TypeOK' /\ JobMarked /\ WorkerOff /\ [Next]_vars =>
        [Queue!Next]_(<<[f \in Sources |-> StageName(row[f])], Held>>)
  BY StepRefines DEF Bar
<1> QED BY <1>1, <1>2, <1>3, TypeCorrect, QueueInvariant, WorkerOffAlways, PTL
        DEF Spec, KeepsJobQueue, Queue!Spec, Queue!vars
=============================================================================
