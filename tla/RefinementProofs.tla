-------------------------- MODULE RefinementProofs --------------------------
(***************************************************************************)
(* The restore controller implements OneShotRestore: with one replica, no  *)
(* Jobs deleted from outside, cleanups that succeed and no name reused     *)
(* unnoticed, every step of RestoreReconciler is a step of OneShotRestore, *)
(* or none, under the mapping of RestoreRefinement.                        *)
(***************************************************************************)
EXTENDS RestoreRefinement, RestoreProofs

\* What each list of conditions says of a restore.
LEMMA WhatConditionsSay ==
  /\ \A c \in {{}, Running, Completed, Unresolved, Paused} :
       ~ has_condition_reason(c, "Error", "RestoreFailed")
  /\ has_condition_reason(Failed, "Error", "RestoreFailed")
  /\ has_condition_reason(Running, "Ready", "RestoreRunning")
  /\ \A c \in {{}, Unresolved, Paused} :
       ~ has_condition_reason(c, "Ready", "RestoreRunning")
  /\ is_condition_true(Completed, "RestoreComplete")
  /\ \A c \in {{}, Running, Failed, Unresolved, Paused} :
       ~ is_condition_true(c, "RestoreComplete")
<1>1. /\ \A c \in {{}, Running, Completed, Unresolved, Paused} :
           ~ has_condition_reason(c, "Error", "RestoreFailed")
      /\ has_condition_reason(Failed, "Error", "RestoreFailed")
  BY DEF Running, Completed, Failed, Unresolved, Paused, error_conditions, not_ready,
         ready, new_condition, reconciliation_paused, has_condition_reason
<1>2. /\ has_condition_reason(Running, "Ready", "RestoreRunning")
      /\ \A c \in {{}, Unresolved, Paused} :
           ~ has_condition_reason(c, "Ready", "RestoreRunning")
  BY DEF Running, Unresolved, Paused, error_conditions, not_ready, new_condition,
         reconciliation_paused, has_condition_reason
<1>3. is_condition_true(Completed, "RestoreComplete")
  BY DEF Completed, new_condition, is_condition_true
<1> QED
  BY <1>1, <1>2, <1>3, OnlyCompletedIsComplete

\* A step keeps OneJobAtATime and ReportsAreTrue when it creates neither an object nor a
\* Job, removes no Job of a request that stands and takes back no outcome, and when
\* what it makes the status or the operator say of an outcome is so.
LEMMA ReportFrame ==
  ASSUME NEW op, Replicas = {op}, RestoreInv,
         obj'.uid = obj.uid, Wanted' => Wanted,
         JobNames' \subseteq JobNames, owner' = owner, created' = created,
         Wanted' => \A j \in JobNames :
                      /\ j \in JobNames'
                      /\ jobs[j] \in {"succeeded", "failed"} => jobs'[j] = jobs[j],
         \A u \in succeeded' : u \in succeeded \/ \E j \in JobNames : u = owner[j],
         Wanted' /\ obj.uid \in succeeded' =>
           obj.uid \in succeeded \/ \E j \in JobNames' : jobs'[j] = "succeeded",
         \/ obj'.conditions = obj.conditions
         \/ /\ Wanted' /\ has_condition_reason(obj'.conditions, "Error", "RestoreFailed")
                 => OwnFailed
            /\ pc'[op] = "idle",
         Wanted' /\ pc'[op] = "update_status_failed" =>
           pc[op] = "update_status_failed" \/ OwnFailed,
         Wanted' /\ pc'[op] = "update_status_running" =>
           \/ pc[op] = "update_status_running"
           \/ created[obj.uid] > 0 /\ Report \in {"nothing", "running"}
  PROVE  OneJobAtATime' /\ ReportsAreTrue'
<1>1. OneJobAtATime'
  BY DEF RestoreInv, OneJobAtATime
<1>2. Wanted' /\ OwnFailed => OwnFailed'
  BY DEF OwnFailed
<1>3. obj'.conditions = obj.conditions => Report' = Report
  BY DEF Report, IsComplete
<1>4. ASSUME Wanted' PROVE ReportsAreTrue'
  <2>1. /\ obj.uid \in succeeded => \E j \in JobNames : jobs[j] = "succeeded"
        /\ has_condition_reason(obj.conditions, "Error", "RestoreFailed") => OwnFailed
        /\ pc[op] = "update_status_failed" => OwnFailed
        /\ pc[op] = "update_status_running" =>
             created[obj.uid] > 0 /\ Report \in {"nothing", "running"}
    BY <1>4 DEF RestoreInv, ReportsAreTrue
  <2>2. obj'.uid \in succeeded' => \E j \in JobNames' : jobs'[j] = "succeeded"
    BY <1>4, <2>1
  <2>3. has_condition_reason(obj'.conditions, "Error", "RestoreFailed") => OwnFailed'
    BY <1>2, <1>4, <2>1
  <2>4. pc'[op] = "update_status_failed" => OwnFailed'
    BY <1>2, <1>4, <2>1
  <2>5. pc'[op] = "update_status_running" =>
          created'[obj'.uid] > 0 /\ Report' \in {"nothing", "running"}
    BY <1>3, <1>4, <2>1
  <2> QED
    BY <2>2, <2>3, <2>4, <2>5 DEF ReportsAreTrue
<1> QED
  BY <1>1, <1>4 DEF ReportsAreTrue

\* A reconciliation goes on without touching object or Jobs.
LEMMA GotoReports ==
  ASSUME NEW op, Replicas = {op}, RestoreInv, NEW call, Goto(op, call),
         UNCHANGED <<obj, jobs, owner, created, succeeded>>,
         Wanted /\ call = "update_status_failed" => OwnFailed,
         Wanted /\ call = "update_status_running" =>
           created[obj.uid] > 0 /\ Report \in {"nothing", "running"}
  PROVE  OneJobAtATime' /\ ReportsAreTrue'
<1>1. pc'[op] = call
  BY GotoMoves DEF RestoreInv, GenuineInv, GuardInv
<1>2. JobNames' = JobNames /\ Wanted' = Wanted
  BY DEF JobNames, Wanted
<1> QED
  BY <1>1, <1>2, ReportFrame

\* What the listed Jobs are reported as is what the one Job there is has come to.
LEMMA ListJobsReports ==
  ASSUME NEW op, Replicas = {op}, RestoreInv, ListJobs(op)
  PROVE  OneJobAtATime' /\ ReportsAreTrue'
<1> DEFINE state == classify_jobs({jobs[j] : j \in JobNames})
           call == CallFor(state, snap[op])
<1>1. /\ Goto(op, call) /\ UNCHANGED <<obj, jobs, owner, created, succeeded>>
  BY DEF ListJobs, kube, history
<1>2. /\ call = "update_status_failed" => state = "Failed"
      /\ call = "update_status_running" => state = "InProgress"
  BY ClassifyType DEF CallFor, JobsStates, should_create_restore_job
<1>3. \A j \in JobNames : owner[j] = obj.uid
  BY DEF RestoreInv, GenuineInv, CleanupIsComplete
<1>4. state = "Failed" => OwnFailed
  <2>1. state = "Failed" =>
          /\ {jobs[j] : j \in JobNames} # {}
          /\ \A p \in {jobs[j] : j \in JobNames} : p = "failed"
    BY DEF classify_jobs, job_failed
  <2> QED
    BY <1>3, <2>1 DEF OwnFailed
<1>5. ASSUME Wanted, state = "InProgress"
      PROVE  created[obj.uid] > 0 /\ Report \in {"nothing", "running"}
  <2>1. /\ \E p \in {jobs[j] : j \in JobNames} : p # "failed"
        /\ \A p \in {jobs[j] : j \in JobNames} : p # "succeeded"
    BY <1>5 DEF classify_jobs, job_failed, job_succeeded
  <2>2. PICK j \in JobNames : jobs[j] # "failed"
    BY <2>1
  <2>3. \A i \in JobNames : i = j /\ jobs[i] # "succeeded"
    BY <2>1 DEF RestoreInv, OneJobAtATime
  <2>4. created[obj.uid] > 0
    BY <1>3, <2>2 DEF RestoreInv, OneJobAtATime
  <2>5. ~ OwnFailed
    BY <2>2, <2>3 DEF OwnFailed
  <2>6. ~ IsComplete(obj)
    <3>1. IsComplete(obj) => obj.uid \in succeeded
      BY <1>5 DEF RestoreInv, GenuineInv, CompletionIsGenuine, Wanted
    <3> QED
      BY <1>5, <2>3, <3>1 DEF RestoreInv, ReportsAreTrue
  <2>7. ~ has_condition_reason(obj.conditions, "Error", "RestoreFailed")
    BY <1>5, <2>5 DEF RestoreInv, ReportsAreTrue
  <2> QED
    BY <2>4, <2>6, <2>7 DEF Report
<1> QED
  BY <1>1, <1>2, <1>4, <1>5, GotoReports

\* A Job is created when there is none: no outcome can have been reported.
LEMMA CreateJobReports ==
  ASSUME NEW op, Replicas = {op}, RestoreInv, CreateJob(op), jobs[clock] = Absent
  PROVE  /\ OneJobAtATime' /\ ReportsAreTrue'
         /\ JobNames = {} /\ JobNames' = {clock} /\ jobs'[clock] = "pending"
         /\ owner'[clock] = obj.uid /\ obj.uid \in Uids
         /\ created[obj.uid] = 0 /\ created'[obj.uid] = 1
         /\ obj.uid \notin succeeded /\ UNCHANGED <<obj, succeeded>>
<1> USE RestoreConstants
<1>1. /\ pc[op] = "create_job" /\ Goto(op, "update_status_running")
      /\ jobs' = [jobs EXCEPT ![clock] = "pending"]
      /\ owner' = [owner EXCEPT ![clock] = snap[op].uid]
      /\ created' = [created EXCEPT ![snap[op].uid] = AtMostTwo(@ + 1)]
      /\ UNCHANGED <<obj, succeeded>>
  BY DEF CreateJob, build_restore_job
<1>2. pc'[op] = "update_status_running"
  BY <1>1, GotoMoves DEF RestoreInv, GenuineInv, GuardInv
<1>3. JobNames = {}
  BY <1>1 DEF RestoreInv, OneJobInv, NoJobWhileCreating, CreateCalls
<1>4. snap[op].uid = obj.uid /\ obj.uid \in Uids /\ obj.live
  BY <1>1, CallSets
  DEF RestoreInv, GenuineInv, GuardInv, OneIdentity, HeldByFinalizer, CreateCalls
<1>5. ~ snap[op].deleting
  BY <1>1 DEF RestoreInv, OneJobInv, CleanupIsForDeleted, CleanupCalls
<1>6. created[obj.uid] = 0
  <2>1. created[obj.uid] \in 0..2
    BY <1>4 DEF RestoreInv, OneJobInv, TypeOK
  <2> QED
    BY <1>1, <1>3, <1>4, <1>5, <2>1 DEF RestoreInv, OneJobInv, JobStays
<1>7. /\ created'[obj.uid] = 1
      /\ \A u \in Uids : created[u] > 0 => created'[u] > 0
  BY <1>1, <1>4, <1>6 DEF RestoreInv, OneJobInv, TypeOK, AtMostTwo
<1>8. JobNames' = {clock} /\ owner'[clock] = obj.uid /\ jobs'[clock] = "pending"
  <2>1. clock \in Seconds /\ owner \in [Seconds -> 0..MaxUid]
        /\ jobs \in [Seconds -> Phases \cup {Absent}]
    BY DEF RestoreInv, OneJobInv, TypeOK
  <2> QED
    BY <1>1, <1>3, <1>4, <2>1 DEF JobNames, Absent
<1>9. obj.uid \notin succeeded
  BY <1>6 DEF RestoreInv, OneJobAtATime
<1>10. OneJobAtATime'
  BY <1>1, <1>4, <1>7, <1>8 DEF RestoreInv, OneJobAtATime
<1>11. ReportsAreTrue'
  <2>1. Wanted' = Wanted /\ Report' = Report
    BY <1>1 DEF Wanted, Report, IsComplete
  <2>2. ASSUME Wanted
        PROVE  /\ ~ has_condition_reason(obj.conditions, "Error", "RestoreFailed")
               /\ Report \in {"nothing", "running"}
    <3>1. ~ OwnFailed
      BY <1>3 DEF OwnFailed
    <3>2. ~ has_condition_reason(obj.conditions, "Error", "RestoreFailed")
      BY <2>2, <3>1 DEF RestoreInv, ReportsAreTrue
    <3>3. ~ IsComplete(obj)
      BY <1>4, <1>9 DEF RestoreInv, GenuineInv, CompletionIsGenuine
    <3> QED
      BY <3>2, <3>3 DEF Report
  <2> QED
    BY <1>1, <1>2, <1>7, <1>9, <2>1, <2>2 DEF ReportsAreTrue
<1> QED
  BY <1>1, <1>3, <1>4, <1>6, <1>7, <1>8, <1>9, <1>10, <1>11

\* A status patch leaves the Jobs alone and says "failed" only of a Job that failed.
LEMMA PatchReports ==
  ASSUME NEW op, Replicas = {op}, RestoreInv, NEW call, NEW conditions, NEW info,
         PatchStatus(op, call, conditions, info),
         Wanted /\ has_condition_reason(conditions, "Error", "RestoreFailed")
           => OwnFailed
  PROVE  OneJobAtATime' /\ ReportsAreTrue'
<1>1. CASE NotFound(op)
  BY <1>1, GotoReports DEF NotFound, kube, history
<1>2. CASE ~ NotFound(op)
  <2>1. /\ Goto(op, "idle")
        /\ obj' = [obj EXCEPT !.conditions = conditions,
                              !.observed = snap[op].generation, !.info = info]
        /\ UNCHANGED <<jobs, owner, created, succeeded>>
    BY <1>2 DEF PatchStatus, history
  <2>2. obj'.uid = obj.uid /\ obj'.conditions = conditions /\ Wanted' = Wanted
    BY <2>1 DEF Wanted, RestoreInv, GenuineInv, GuardInv, TypeOK, Objects
  <2>3. pc'[op] = "idle" /\ JobNames' = JobNames
    BY <2>1, GotoMoves DEF RestoreInv, GenuineInv, GuardInv, JobNames
  <2> QED
    BY <2>1, <2>2, <2>3, ReportFrame
<1> QED
  BY <1>1, <1>2

\* A new object has no Job, and nothing was created for it or is known of it.
LEMMA UserCreatesReports ==
  ASSUME PromptRecreate = FALSE, NEW op, Replicas = {op}, RestoreInv, UserCreates
  PROVE  /\ OneJobAtATime' /\ ReportsAreTrue'
         /\ ~ obj.live /\ obj'.uid \in Uids /\ obj'.conditions = {}
         /\ JobNames = {} /\ UNCHANGED <<jobs, owner, created, succeeded>>
         /\ created[obj'.uid] = 0 /\ obj'.uid \notin succeeded
<1> USE RestoreConstants
<1>1. /\ pc[op] = "idle" /\ ~ cache[op].live /\ ~ obj.live
      /\ UNCHANGED <<jobs, owner, cache, pc, snap, created, succeeded>>
      /\ JobNames' = JobNames
  BY DEF UserCreates, operator, JobNames
<1>2. PICK p \in BOOLEAN :
        obj' = [NoObject EXCEPT !.live = TRUE, !.uid = obj.uid + 1,
                                !.generation = 1, !.paused = p]
  BY DEF UserCreates
<1>3. obj'.uid = obj.uid + 1 /\ obj'.conditions = {} /\ obj.uid < MaxUid
  BY <1>2 DEF NoObject, UserCreates
<1>4. obj.uid \in 0..MaxUid /\ cache[op].uid \in 0..MaxUid /\ cache[op].uid <= obj.uid
  BY DEF RestoreInv, OneJobInv, TypeOK, Objects, SnapshotsAge, NotNewer
<1>5. obj'.uid \in Uids
  BY <1>3, <1>4 DEF Uids
<1>6. created[obj'.uid] = 0
  <2>1. created[obj'.uid] \in 0..2
    BY <1>5 DEF RestoreInv, OneJobInv, TypeOK
  <2> QED
    BY <1>3, <1>4, <1>5, <2>1 DEF RestoreInv, OneJobInv, JobsAge
<1>7. obj'.uid \notin succeeded
  BY <1>6 DEF RestoreInv, OneJobAtATime
<1>8. JobNames = {}
  BY <1>1 DEF RestoreInv, GenuineInv, CleanupIsComplete
<1>9. OneJobAtATime'
  BY <1>1, <1>8 DEF RestoreInv, OneJobAtATime
<1>10. ReportsAreTrue'
  BY <1>1, <1>3, <1>7, WhatConditionsSay DEF ReportsAreTrue
<1> QED
  BY <1>1, <1>3, <1>5, <1>6, <1>7, <1>8, <1>9, <1>10

\* The Job controller moves the one Job there is; a Job that has ended stays as it is.
LEMMA JobRunsEnds ==
  ASSUME JobRuns, TypeOK
  PROVE  \E j \in JobNames, q \in Phases :
           /\ jobs[j] \in {"pending", "active"}
           /\ jobs' = [jobs EXCEPT ![j] = q]
           /\ succeeded' = succeeded \cup (IF q = "succeeded" THEN {owner[j]} ELSE {})
           /\ JobNames' = JobNames
           /\ \A i \in JobNames : jobs'[i] = (IF i = j THEN q ELSE jobs[i])
<1>1. PICK j \in JobNames,
           step \in {<<"pending", "active">>, <<"active", "pending">>,
                     <<"active", "succeeded">>, <<"active", "failed">>} :
         /\ jobs[j] = step[1]
         /\ jobs' = [jobs EXCEPT ![j] = step[2]]
         /\ succeeded' = succeeded \cup
              (IF step[2] = "succeeded" THEN {owner[j]} ELSE {})
  BY DEF JobRuns
<1>2. step[1] \in {"pending", "active"} /\ step[2] \in Phases
  BY <1>1 DEF Phases
<1>3. /\ JobNames' = JobNames
      /\ \A i \in JobNames : jobs'[i] = (IF i = j THEN step[2] ELSE jobs[i])
  BY <1>1, <1>2 DEF JobNames, TypeOK, Phases, Absent
<1> QED
  BY <1>1, <1>2, <1>3

\* Every step keeps RestoreInv.
LEMMA RestoreStep ==
  ASSUME PromptRecreate = FALSE, CleanupErrors = FALSE, MaxDeletedJobs = 0,
         NEW op, Replicas = {op}, RestoreInv, [Next]_vars
  PROVE  RestoreInv'
<1> USE RestoreConstants
<1>0. OneJobInv' /\ GenuineInv' /\ op \in Replicas /\ TypeOK
  BY OneJobStep, GenuineStep DEF RestoreInv, OneJobInv
<1>1. SUFFICES OneJobAtATime' /\ ReportsAreTrue'
  BY <1>0 DEF RestoreInv
<1>2. CASE NotFound(op)
  BY <1>2, GotoReports DEF NotFound, kube, history
<1>3. CASE Reconcile(op)
  <2>1. CASE StartReconcile(op)
    <3>1. /\ pc'[op] = FirstCall(cache[op])
          /\ UNCHANGED <<obj, jobs, owner, created, succeeded>>
      BY <1>0, <2>1 DEF StartReconcile, kube, history, TypeOK
    <3>2. FirstCall(cache[op]) \notin {"update_status_failed", "update_status_running"}
      BY DEF FirstCall, AfterFinalizer
    <3> QED
      BY <3>1, <3>2, ReportFrame DEF JobNames, Wanted
  <2>2. CASE AddFinalizer(op) /\ ~ NotFound(op)
    <3>1. /\ Goto(op, AfterFinalizer(snap[op]))
          /\ obj' = [obj EXCEPT !.finalizer = TRUE]
          /\ UNCHANGED <<jobs, owner, created, succeeded>>
      BY <2>2 DEF AddFinalizer, history
    <3>2. obj'.uid = obj.uid /\ obj'.conditions = obj.conditions /\ Wanted' = Wanted
      BY <1>0, <3>1 DEF Wanted, TypeOK, Objects
    <3>3. pc'[op] \in {"idle", "list_jobs"} /\ JobNames' = JobNames
      BY <1>0, <3>1, GotoMoves, FirstCallType DEF JobNames
    <3> QED
      BY <3>1, <3>2, <3>3, ReportFrame
  <2>3. CASE ListJobs(op)
    BY <2>3, ListJobsReports
  <2>4. CASE \/ GetBackup(op) \/ ResolveCluster(op) \/ BuildConfig(op)
             \/ CreateOrUpdateConfigMap(op) \/ CleanupList(op) \/ CleanupConfigMap(op)
    <3>1. /\ \E call \in {"idle", "resolve_cluster", "update_status_error",
                          "build_config", "apply_config_map", "create_job",
                          "cleanup_jobs", "remove_finalizer"} : Goto(op, call)
          /\ UNCHANGED <<obj, jobs, owner, created, succeeded>>
      BY <2>4
      DEF GetBackup, ResolveCluster, BuildConfig, CreateOrUpdateConfigMap, CleanupList,
          CleanupConfigMap, kube, history
    <3> QED
      BY <3>1, GotoReports
  <2>5. CASE CreateJob(op) /\ jobs[clock] = Absent
    BY <2>5, CreateJobReports
  <2>6. CASE CreateJob(op) /\ jobs[clock] # Absent
    BY <2>6, GotoReports DEF CreateJob
  <2>7. CASE UpdateStatusFailed(op)
    <3>1. Wanted => OwnFailed
      BY <1>0, <2>7 DEF UpdateStatusFailed, PatchStatus, RestoreInv, ReportsAreTrue
    <3> QED
      BY <2>7, <3>1, PatchReports DEF UpdateStatusFailed
  <2>8. CASE \/ UpdateStatusRunning(op) \/ UpdateStatusCompleted(op)
             \/ UpdateStatusError(op) \/ UpdateStatusReconciliationPaused(op)
    BY <2>8, WhatConditionsSay, PatchReports
    DEF UpdateStatusRunning, UpdateStatusCompleted, UpdateStatusError,
        UpdateStatusReconciliationPaused
  <2>9. CASE CleanupJobs(op)
    <3>1. /\ obj.deleting /\ ~ Wanted /\ UNCHANGED <<obj, owner, created, succeeded>>
      BY <1>0, <2>9
      DEF CleanupJobs, CleanupCalls, RestoreInv, GenuineInv, GuardInv, OneIdentity,
          Wanted, history
    <3>2. JobNames' \subseteq JobNames
      BY <1>0, <2>9 DEF CleanupJobs, JobNames, TypeOK
    <3>3. ~ Wanted'
      BY <3>1 DEF Wanted
    <3> QED
      BY <3>1, <3>2, <3>3, ReportFrame
  <2>10. CASE RemoveFinalizer(op) /\ ~ NotFound(op)
    <3>1. /\ Goto(op, "idle")
          /\ obj' = [obj EXCEPT !.finalizer = FALSE, !.live = ~ obj.deleting]
          /\ UNCHANGED <<jobs, owner, created, succeeded>> /\ obj.deleting
      BY <1>0, <2>10
      DEF RemoveFinalizer, history, CleanupCalls, RestoreInv, GenuineInv, GuardInv,
          OneIdentity
    <3>2. obj'.uid = obj.uid /\ obj'.conditions = obj.conditions /\ ~ Wanted'
      BY <1>0, <3>1 DEF Wanted, TypeOK, Objects
    <3>3. pc'[op] = "idle" /\ JobNames' = JobNames
      BY <1>0, <3>1, GotoMoves DEF JobNames
    <3> QED
      BY <3>1, <3>2, <3>3, ReportFrame
  <2> QED
    BY <1>2, <1>3, <2>1, <2>2, <2>3, <2>4, <2>5, <2>6, <2>7, <2>8, <2>9, <2>10
    DEF Reconcile, AddFinalizer, RemoveFinalizer
<1>4. CASE Abort(op)
  BY <1>4, GotoReports DEF Abort, kube, history
<1>5. CASE JobRuns
  <2>1. PICK j \in JobNames, q \in Phases :
          /\ jobs[j] \in {"pending", "active"}
          /\ succeeded' = succeeded \cup (IF q = "succeeded" THEN {owner[j]} ELSE {})
          /\ JobNames' = JobNames
          /\ \A i \in JobNames : jobs'[i] = (IF i = j THEN q ELSE jobs[i])
    BY <1>0, <1>5, JobRunsEnds
  <2>2. UNCHANGED <<obj, owner, created, pc>> /\ Wanted' = Wanted
    BY <1>5 DEF JobRuns, operator, Wanted
  <2> QED
    BY <2>1, <2>2, ReportFrame
<1>6. CASE GarbageCollect
  <2>1. /\ UNCHANGED <<obj, owner, created, succeeded, pc>> /\ Wanted' = Wanted
        /\ JobNames' \subseteq JobNames
    BY <1>0, <1>6 DEF GarbageCollect, operator, history, Wanted, JobNames, TypeOK
  <2>2. Wanted => UNCHANGED jobs
    BY <1>6 DEF GarbageCollect, Dangling, RestoreInv, GenuineInv, CleanupIsComplete, Wanted
  <2> QED
    BY <2>1, <2>2, ReportFrame DEF JobNames
<1>7. CASE JobDeleted
  BY <1>0, <1>7 DEF JobDeleted, TypeOK
<1>8. CASE Tick \/ DependencyChanges \/ SyncCache(op) \/ UNCHANGED vars
  <2>1. UNCHANGED <<obj, jobs, owner, created, succeeded, pc>>
    BY <1>8 DEF Tick, DependencyChanges, SyncCache, vars, operator, history, kube
  <2> QED
    BY <2>1, ReportFrame DEF JobNames, Wanted
<1>9. CASE UserCreates
  BY <1>9, UserCreatesReports
<1>10. CASE UserTogglesPause \/ UserEditsSpec \/ UserDeletes
  <2>1. /\ obj'.uid = obj.uid /\ obj'.conditions = obj.conditions
        /\ Wanted' => Wanted
    BY <1>0, <1>10
    DEF UserTogglesPause, UserEditsSpec, UserDeletes, Wanted, TypeOK, Objects
  <2>2. /\ UNCHANGED <<jobs, owner, created, succeeded, pc>>
        /\ JobNames' = JobNames
    BY <1>10
    DEF UserTogglesPause, UserEditsSpec, UserDeletes, operator, history, JobNames
  <2> QED
    BY <2>1, <2>2, ReportFrame
<1> QED
  BY <1>3, <1>4, <1>5, <1>6, <1>7, <1>8, <1>9, <1>10 DEF Next, Environment

\* Initially there is nothing to report.
LEMMA RestoreInit == Init => RestoreInv
<1> SUFFICES ASSUME Init PROVE RestoreInv
  OBVIOUS
<1>1. OneJobInv /\ GenuineInv
  BY OneJobInit, GenuineInit
<1>2. JobNames = {} /\ ~ obj.live /\ succeeded = {}
  BY DEF Init, JobNames, NoObject
<1>3. OneJobAtATime /\ ReportsAreTrue
  BY <1>2 DEF OneJobAtATime, ReportsAreTrue, Wanted
<1> QED
  BY <1>1, <1>3 DEF RestoreInv

-----------------------------------------------------------------------------
(***************************************************************************)
(* The steps of the controller as steps of OneShotRestore.                 *)
(***************************************************************************)

\* Whatever happens to an object nobody wants restored any more is not seen.
LEMMA UnwantedIsUnseen ==
  ~ Wanted /\ ~ Wanted' => UNCHANGED Promise!vars
  BY DEF Promise!vars

\* Marking the object for deletion, or its end, withdraws the request.
LEMMA DeletionWithdraws ==
  ASSUME TypeOK, OneIdentity, Wanted, ~ Wanted'
  PROVE  Promise!Withdraw
<1>1. obj.uid # 0
  BY DEF OneIdentity, Wanted, Uids
<1> QED
  BY <1>1 DEF Promise!Withdraw, Promise!Fresh

\* A step that leaves Jobs, status and identity of the object alone is not seen.
LEMMA InnerStepIsUnseen ==
  ASSUME Wanted' = Wanted, obj'.uid = obj.uid, obj'.conditions = obj.conditions,
         UNCHANGED <<jobs, owner, created, succeeded>>
  PROVE  UNCHANGED Promise!vars
<1>1. JobNames' = JobNames
  BY DEF JobNames
<1>2. OwnFailed' = OwnFailed
  BY <1>1 DEF OwnFailed
<1>3. Outcome' = Outcome /\ Report' = Report
  BY <1>2 DEF Outcome, Report, IsComplete
<1> QED
  BY <1>3 DEF Promise!vars

\* A status patch for a request that stands is a report.
LEMMA PatchIsReport ==
  ASSUME NEW op, Replicas = {op}, RestoreInv, Wanted,
         \/ UpdateStatusRunning(op) \/ UpdateStatusCompleted(op)
         \/ UpdateStatusFailed(op) \/ UpdateStatusError(op)
         \/ UpdateStatusReconciliationPaused(op)
  PROVE  [Promise!Next]_(Promise!vars)
<1>1. PICK conditions \in {Running, Completed, Failed, Unresolved, Paused},
           call \in Calls, info \in {TRUE, obj.info, obj.info \/ snap[op].info} :
        /\ PatchStatus(op, call, conditions, info)
        /\ conditions = Running => call = "update_status_running"
        /\ conditions = Completed => call = "update_status_completed"
        /\ conditions = Failed => call = "update_status_failed"
  <2>1. /\ Running # Completed /\ Running # Failed /\ Running # Unresolved
        /\ Running # Paused /\ Completed # Failed /\ Completed # Unresolved
        /\ Completed # Paused /\ Failed # Unresolved /\ Failed # Paused
    BY WhatConditionsSay
  <2> QED
    BY <2>1
    DEF UpdateStatusRunning, UpdateStatusCompleted, UpdateStatusFailed,
        UpdateStatusError, UpdateStatusReconciliationPaused, Calls
<1>2. /\ obj' = [obj EXCEPT !.conditions = conditions,
                            !.observed = snap[op].generation, !.info = info]
      /\ pc[op] = call
      /\ UNCHANGED <<jobs, owner, created, succeeded>>
  BY <1>1 DEF PatchStatus, NotFound, Wanted, history
<1>3. obj'.uid = obj.uid /\ obj'.conditions = conditions /\ Wanted'
  BY <1>2 DEF Wanted, RestoreInv, OneJobInv, TypeOK, Objects
<1>4. JobNames' = JobNames
  BY <1>2 DEF JobNames
<1>5. OwnFailed' = OwnFailed
  BY <1>2, <1>3, <1>4 DEF OwnFailed
<1>6. Outcome' = Outcome /\ created'[obj'.uid] = created[obj.uid]
  BY <1>2, <1>3, <1>5 DEF Outcome
<1>7. obj.uid # 0
  BY DEF RestoreInv, GenuineInv, GuardInv, OneIdentity, Wanted, Uids
<1>8. CASE conditions = Running
  <2>1. created[obj.uid] > 0 /\ Report \in {"nothing", "running"}
    BY <1>1, <1>2, <1>8 DEF RestoreInv, ReportsAreTrue
  <2>2. Report' = "running"
    BY <1>3, <1>8, WhatConditionsSay DEF Report, IsComplete
  <2>3. CASE Report = "nothing"
    BY <1>3, <1>6, <2>1, <2>2, <2>3 DEF Promise!ReportRunning, Promise!Next
  <2>4. CASE Report = "running"
    BY <1>3, <1>6, <2>2, <2>4 DEF Promise!vars
  <2> QED BY <2>1, <2>3, <2>4
<1>9. CASE conditions = Completed
  <2>1. obj.uid \in succeeded
    BY <1>1, <1>2, <1>9 DEF RestoreInv, GenuineInv, SuccessIsGenuine
  <2>2. Outcome = "succeeded" /\ Report' = "succeeded"
    BY <1>3, <1>9, <2>1, WhatConditionsSay DEF Outcome, Report, IsComplete
  <2> QED
    BY <1>3, <1>6, <2>2 DEF Promise!ReportOutcome, Promise!Outcomes, Promise!Next
<1>10. CASE conditions = Failed
  <2>1. OwnFailed
    BY <1>1, <1>2, <1>10 DEF RestoreInv, ReportsAreTrue
  <2>2. obj.uid \notin succeeded
    BY <2>1 DEF OwnFailed, RestoreInv, ReportsAreTrue, OneJobAtATime
  <2>3. Outcome = "failed" /\ Report' = "failed"
    BY <1>3, <1>10, <2>1, <2>2, WhatConditionsSay DEF Outcome, Report, IsComplete
  <2> QED
    BY <1>3, <1>6, <2>3 DEF Promise!ReportOutcome, Promise!Outcomes, Promise!Next
<1>11. CASE conditions \in {Unresolved, Paused}
  <2>1. Report' = "nothing"
    BY <1>3, <1>11, WhatConditionsSay DEF Report, IsComplete
  <2> QED
    BY <1>3, <1>6, <1>7, <2>1 DEF Promise!ReportElse, Promise!Next
<1> QED
  BY <1>8, <1>9, <1>10, <1>11

\* A Job that comes to its end finishes the restore.
LEMMA JobEndIsFinish ==
  ASSUME NEW op, Replicas = {op}, RestoreInv, Wanted, JobRuns
  PROVE  [Promise!Next]_(Promise!vars)
<1>1. PICK j \in JobNames, q \in Phases :
        /\ jobs[j] \in {"pending", "active"}
        /\ succeeded' = succeeded \cup (IF q = "succeeded" THEN {owner[j]} ELSE {})
        /\ JobNames' = JobNames
        /\ \A i \in JobNames : jobs'[i] = (IF i = j THEN q ELSE jobs[i])
  BY JobRunsEnds DEF RestoreInv, OneJobInv
<1>2. UNCHANGED <<obj, owner, created>> /\ Wanted' = Wanted /\ Report' = Report
  BY DEF JobRuns, Wanted, Report, IsComplete
<1>3. \A i \in JobNames : i = j /\ owner[i] = obj.uid
  BY DEF RestoreInv, OneJobAtATime, GenuineInv, CleanupIsComplete
<1>4. created[obj.uid] > 0
  BY <1>3 DEF RestoreInv, OneJobAtATime
<1>5. Outcome = "open"
  <2>1. obj.uid \notin succeeded
    BY <1>1, <1>3 DEF RestoreInv, ReportsAreTrue
  <2>2. ~ OwnFailed
    BY <1>1, <1>3 DEF OwnFailed
  <2> QED BY <2>1, <2>2 DEF Outcome
<1>6. Outcome' = IF q \in {"succeeded", "failed"} THEN q ELSE "open"
  <2>1. obj.uid \in succeeded' <=> q = "succeeded"
    BY <1>1, <1>3, <1>5 DEF Outcome
  <2>2. OwnFailed' <=> q = "failed"
    BY <1>1, <1>2, <1>3 DEF OwnFailed
  <2> QED
    BY <1>2, <2>1, <2>2 DEF Outcome
<1>7. CASE q \in {"succeeded", "failed"}
  BY <1>2, <1>4, <1>5, <1>6, <1>7 DEF Promise!Finish, Promise!Outcomes, Promise!Next
<1>8. CASE q \notin {"succeeded", "failed"}
  BY <1>2, <1>5, <1>6, <1>8 DEF Promise!vars
<1> QED BY <1>7, <1>8

\* Creating the Job of a request that stands starts its restore.
LEMMA CreateJobIsStart ==
  ASSUME NEW op, Replicas = {op}, RestoreInv, Wanted, CreateJob(op), jobs[clock] = Absent
  PROVE  Promise!Start
<1>1. /\ JobNames = {} /\ JobNames' = {clock} /\ jobs'[clock] = "pending"
      /\ obj.uid \in Uids /\ created[obj.uid] = 0 /\ created'[obj.uid] = 1
      /\ obj.uid \notin succeeded /\ UNCHANGED <<obj, succeeded>>
  BY CreateJobReports
<1>2. Wanted' = Wanted /\ Report' = Report
  BY <1>1 DEF Wanted, Report, IsComplete
<1>3. ~ OwnFailed /\ ~ OwnFailed'
  BY <1>1 DEF OwnFailed
<1>4. Outcome = "open" /\ Outcome' = "open"
  BY <1>1, <1>3 DEF Outcome
<1> QED
  BY <1>1, <1>2, <1>4 DEF Promise!Start, Uids

\* A new object is a new request, of which nothing is known.
LEMMA UserCreatesIsSubmit ==
  ASSUME PromptRecreate = FALSE, NEW op, Replicas = {op}, RestoreInv, UserCreates, Wanted'
  PROVE  Promise!Submit
<1>1. /\ ~ obj.live /\ obj'.uid \in Uids /\ obj'.conditions = {}
      /\ JobNames = {} /\ UNCHANGED <<jobs, owner, created, succeeded>>
      /\ created[obj'.uid] = 0 /\ obj'.uid \notin succeeded
  BY UserCreatesReports
<1>2. ~ OwnFailed'
  BY <1>1 DEF OwnFailed, JobNames
<1>3. Outcome' = "open" /\ Report' = "nothing" /\ ~ Wanted
  BY <1>1, <1>2, WhatConditionsSay DEF Outcome, Report, IsComplete, Wanted
<1> QED
  BY <1>1, <1>3 DEF Promise!Submit, Promise!Fresh

\* Every step of the controller and its surroundings is a step of OneShotRestore or
\* leaves all it speaks of unchanged.
LEMMA StepIsPromised ==
  ASSUME PromptRecreate = FALSE, CleanupErrors = FALSE, MaxDeletedJobs = 0,
         NEW op, Replicas = {op}, RestoreInv, [Next]_vars
  PROVE  [Promise!Next]_(Promise!vars)
<1> USE RestoreConstants
<1>0. TypeOK /\ OneIdentity /\ op \in Replicas
  BY DEF RestoreInv, GenuineInv, GuardInv
<1>1. CASE Wanted /\ ~ Wanted'
  BY <1>0, <1>1, DeletionWithdraws DEF Promise!Next
<1>2. CASE ~ Wanted /\ ~ Wanted'
  BY <1>2, UnwantedIsUnseen
<1>3. CASE UserCreates /\ Wanted'
  BY <1>3, UserCreatesIsSubmit DEF Promise!Next
<1>4. ASSUME Wanted', ~ UserCreates PROVE Wanted /\ obj'.uid = obj.uid
  <2>1. UNCHANGED obj => Wanted' = Wanted
    BY DEF Wanted
  <2>2. CASE Reconcile(op) /\ ~ UNCHANGED obj
    <3>1. \/ AddFinalizer(op) /\ obj' = [obj EXCEPT !.finalizer = TRUE]
          \/ \E c, g, i : obj' = [obj EXCEPT !.conditions = c, !.observed = g, !.info = i]
          \/ obj' = [obj EXCEPT !.finalizer = FALSE, !.live = ~ obj.deleting]
      BY <2>2
      DEF Reconcile, StartReconcile, AddFinalizer, ListJobs, GetBackup, ResolveCluster,
          BuildConfig, CreateOrUpdateConfigMap, CreateJob, UpdateStatusRunning,
          UpdateStatusCompleted, UpdateStatusFailed, UpdateStatusError,
          UpdateStatusReconciliationPaused, PatchStatus, CleanupList, CleanupJobs,
          CleanupConfigMap, RemoveFinalizer, NotFound, kube
    <3>2. obj'.uid = obj.uid /\ obj'.deleting = obj.deleting
      BY <1>0, <3>1 DEF TypeOK, Objects
    <3>3. obj'.live => obj.live
      BY <1>0, <2>2
      DEF Reconcile, StartReconcile, AddFinalizer, ListJobs, GetBackup, ResolveCluster,
          BuildConfig, CreateOrUpdateConfigMap, CreateJob, UpdateStatusRunning,
          UpdateStatusCompleted, UpdateStatusFailed, UpdateStatusError,
          UpdateStatusReconciliationPaused, PatchStatus, CleanupList, CleanupJobs,
          CleanupConfigMap, RemoveFinalizer, NotFound, kube
    <3> QED
      BY <1>4, <3>2, <3>3 DEF Wanted
  <2>3. CASE UserTogglesPause \/ UserEditsSpec \/ UserDeletes
    BY <1>0, <1>4, <2>3
    DEF UserTogglesPause, UserEditsSpec, UserDeletes, Wanted, TypeOK, Objects
  <2>4. CASE \/ Abort(op) \/ SyncCache(op) \/ JobRuns \/ JobDeleted \/ GarbageCollect
             \/ Tick \/ DependencyChanges \/ UNCHANGED vars
    BY <1>4, <2>1, <2>4
    DEF Abort, SyncCache, JobRuns, JobDeleted, GarbageCollect, Tick, DependencyChanges,
        vars, kube
  <2> QED
    BY <1>4, <2>1, <2>2, <2>3, <2>4 DEF Next, Environment
<1>5. CASE Wanted /\ Wanted' /\ ~ UserCreates
  <2>1. obj'.uid = obj.uid /\ Wanted' = Wanted
    BY <1>4, <1>5 DEF Wanted
  <2>2. CASE \/ UpdateStatusRunning(op) \/ UpdateStatusCompleted(op)
             \/ UpdateStatusFailed(op) \/ UpdateStatusError(op)
             \/ UpdateStatusReconciliationPaused(op)
    BY <1>5, <2>2, PatchIsReport
  <2>3. CASE JobRuns
    BY <1>5, <2>3, JobEndIsFinish
  <2>4. CASE CreateJob(op) /\ jobs[clock] = Absent
    BY <1>5, <2>4, CreateJobIsStart DEF Promise!Next
  <2>5. CASE \/ StartReconcile(op) \/ ListJobs(op) \/ GetBackup(op) \/ ResolveCluster(op)
             \/ BuildConfig(op) \/ CreateOrUpdateConfigMap(op) \/ CleanupList(op)
             \/ CleanupConfigMap(op) \/ Abort(op) \/ SyncCache(op) \/ Tick
             \/ DependencyChanges \/ UNCHANGED vars
             \/ (CreateJob(op) /\ jobs[clock] # Absent)
    <3>1. UNCHANGED <<obj, jobs, owner, created, succeeded>>
      BY <2>5
      DEF StartReconcile, ListJobs, GetBackup, ResolveCluster, BuildConfig,
          CreateOrUpdateConfigMap, CleanupList, CleanupConfigMap, Abort, SyncCache, Tick,
          DependencyChanges, vars, CreateJob, kube, history
    <3> QED
      BY <2>1, <3>1, InnerStepIsUnseen
  <2>6. CASE AddFinalizer(op) \/ UserTogglesPause \/ UserEditsSpec \/ UserDeletes
    <3>1. obj'.conditions = obj.conditions /\ UNCHANGED <<jobs, owner, created, succeeded>>
      BY <1>0, <2>6
      DEF AddFinalizer, NotFound, UserTogglesPause, UserEditsSpec, UserDeletes, kube,
          history, TypeOK, Objects
    <3> QED
      BY <2>1, <3>1, InnerStepIsUnseen
  <2>7. CASE CleanupJobs(op) \/ RemoveFinalizer(op)
    BY <1>0, <1>5, <2>7
    DEF CleanupJobs, RemoveFinalizer, CleanupCalls, OneIdentity, Wanted
  <2>8. CASE GarbageCollect
    <3>1. UNCHANGED <<obj, jobs, owner, created, succeeded>>
      BY <1>5, <2>8
      DEF GarbageCollect, Dangling, history, RestoreInv, GenuineInv, CleanupIsComplete,
          Wanted
    <3> QED
      BY <2>1, <3>1, InnerStepIsUnseen
  <2>9. CASE JobDeleted
    BY <1>0, <2>9 DEF JobDeleted, TypeOK
  <2> QED
    BY <1>5, <2>2, <2>3, <2>4, <2>5, <2>6, <2>7, <2>8, <2>9
    DEF Next, Reconcile, Environment
<1> QED
  BY <1>1, <1>2, <1>3, <1>4, <1>5

\* The invariants the refinement rests on hold of every reachable state.
THEOREM RestoreInvariant ==
  ASSUME PromptRecreate = FALSE, CleanupErrors = FALSE, MaxDeletedJobs = 0,
         NEW CONSTANT op, Replicas = {op}
  PROVE  Spec => []RestoreInv
<1>1. Init => RestoreInv
  BY RestoreInit
<1>2. RestoreInv /\ [Next]_vars => RestoreInv'
  BY RestoreStep
<1> QED
  BY <1>1, <1>2, PTL DEF Spec

\* The restore controller implements OneShotRestore: what the user sees of a
\* KafkaRestore through its status and its Jobs is one start at most, one outcome at
\* most, and reports of what has happened to this very resource, none of which takes an
\* outcome back to "running".
THEOREM RestoreRefines ==
  ASSUME PromptRecreate = FALSE, CleanupErrors = FALSE, MaxDeletedJobs = 0,
         NEW CONSTANT op, Replicas = {op}
  PROVE  Spec => ImplementsOneShotRestore
<1>1. Init => Promise!Init
  <2> SUFFICES ASSUME Init PROVE Promise!Init
    OBVIOUS
  <2>1. ~ Wanted
    BY DEF Init, Wanted, NoObject
  <2> QED
    BY <2>1 DEF Promise!Init
<1>2. RestoreInv /\ [Next]_vars => [Promise!Next]_(Promise!vars)
  BY StepIsPromised
<1>3. Spec => []RestoreInv
  BY RestoreInvariant
<1> QED
  BY <1>1, <1>2, <1>3, PTL DEF Spec, ImplementsOneShotRestore, Promise!Spec
=============================================================================
