------------------------------ MODULE JobQueue ------------------------------
(***************************************************************************)
(* What the transcoding queue promises, without its database, threads and  *)
(* files: a job is submitted once, taken by the only worker, finished or   *)
(* failed for good, and taken again only after a recovery in which nobody  *)
(* works.  A job whose outcome could not be recorded stays running until   *)
(* the next recovery.                                                      *)
(***************************************************************************)
CONSTANTS
  Jobs,
  NoJob   \* not a job: an idle worker

VARIABLES
  job,     \* how far each job has come
  active   \* the job the worker has in hand

vars == <<job, active>>

Stages == {"new", "waiting", "running", "done", "failed"}

Init ==
  /\ job = [j \in Jobs |-> "new"]
  /\ active = NoJob

Submit(j) ==
  /\ job[j] = "new"
  /\ job' = [job EXCEPT ![j] = "waiting"]
  /\ UNCHANGED active

Take(j) ==
  /\ active = NoJob
  /\ job[j] = "waiting"
  /\ job' = [job EXCEPT ![j] = "running"]
  /\ active' = j

Finish ==
  /\ active # NoJob
  /\ active' = NoJob
  /\ job' \in {[job EXCEPT ![active] = s] : s \in {"running", "done", "failed"}}

Recover ==
  /\ active = NoJob
  /\ job' = [j \in Jobs |-> IF job[j] = "running" THEN "waiting" ELSE job[j]]
  /\ UNCHANGED active

Next ==
  \/ \E j \in Jobs : Submit(j) \/ Take(j)
  \/ Finish
  \/ Recover

Spec == Init /\ [][Next]_vars
=============================================================================
