------------------------------ MODULE JobState ------------------------------
(***************************************************************************)
(* The aggregate state of the Jobs of one custom resource and the gates    *)
(* that decide whether another Job may be created (src/jobs/job_state.rs). *)
(*                                                                         *)
(* A Job is abstracted to what the operator reads of its status:           *)
(*   pending    no terminal condition, status.active = 0 (just created, or *)
(*              between two pod attempts of its backoffLimit)              *)
(*   active     no terminal condition, status.active > 0                   *)
(*   succeeded  status.succeeded > 0 or condition Complete=True            *)
(*   failed     condition Failed=True                                      *)
(* and "absent" stands for a name no Job has.                              *)
(***************************************************************************)

Phases == {"pending", "active", "succeeded", "failed"}

Absent == "absent"

JobsStates == {"NoJobs", "InProgress", "Succeeded", "Failed"}

job_succeeded(phase) == phase = "succeeded"

job_failed(phase) == phase = "failed"

\* Mutant: only running Jobs count (the behaviour of issue #29).
ClassifyByActive(phases) ==
  IF \E p \in phases : p \in {"pending", "active"} THEN "InProgress" ELSE "NoJobs"

\* The precedence Succeeded > InProgress > Failed over the phases of the listed
\* Jobs; a Job still pending or between two attempts counts as in progress.
classify_jobs(phases) ==
  IF \E p \in phases : job_succeeded(p) THEN "Succeeded"
  ELSE IF \E p \in phases : ~ job_failed(p) THEN "InProgress"
  ELSE IF phases # {} THEN "Failed"
  ELSE "NoJobs"

should_create_restore_job(state) == state = "NoJobs"

should_create_backup_job(state, manually_triggered) ==
  \/ state = "NoJobs"
  \/ state \in {"Succeeded", "Failed"} /\ manually_triggered
=============================================================================
