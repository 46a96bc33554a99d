-------------------------- MODULE BackupRunProofs --------------------------
(***************************************************************************)
(* The backup controller starts no more runs than were asked for, and does *)
(* not lose what its status records, for every value of the constants when *)
(* the cache is read current and only the CronJob's history limit deletes  *)
(* Jobs (RunsInv, RecordInv).                                              *)
(***************************************************************************)
EXTENDS BackupProofs

\* The names of one-shot Jobs are even.
LEMMA OneShotIsEven == \A c \in Nat : (2 * c) % 2 = 0
  OBVIOUS

-----------------------------------------------------------------------------
(***************************************************************************)
(* The object and its Jobs stay while they are worked on.                  *)
(***************************************************************************)

\* The object stays live while the operator works on it: a deletion only marks it.
LEMMA WorkStep ==
  ASSUME CacheLag = FALSE, GuardInv, WorkIsLive, [Next]_vars
  PROVE  WorkIsLive'
<1> USE BackupConstants
<1>0. TypeInv /\ TypeOK /\ obj \in Objects
  BY DEF GuardInv, TypeInv, TypeOK
<1>1. CASE pc' \notin WorkCalls \cup {"add_finalizer"}
  BY <1>1 DEF WorkIsLive, WorkCalls
<1>2. CASE pc' \in WorkCalls /\ obj'.live
  <2>1. pc' # "add_finalizer"
    BY <1>2, CallSets
  <2> QED
    BY <1>2, <2>1 DEF WorkIsLive, WorkCalls
<1>3. CASE StartReconcile
  <2>1. cache = obj /\ cache.live /\ pc' = FirstCall(cache) /\ UNCHANGED obj
    BY <1>3 DEF StartReconcile, kube
  <2>2. CASE pc' = "add_finalizer"
    <3>1. ~ obj.finalizer /\ ~ obj.deleting
      BY <2>1, <2>2 DEF FirstCall
    <3> QED
      BY <2>1, <2>2, <3>1, CallSets DEF WorkIsLive, WorkCalls
  <2> QED
    BY <1>1, <1>2, <2>1, <2>2
<1>4. CASE NotFound \/ Abort \/ RemoveFinalizer \/ CleanupList \/ CleanupCronJob
           \/ CleanupConfigMap
  <2>1. pc' \in CleanupCalls \cup {"idle"}
    BY <1>4
    DEF NotFound, Abort, RemoveFinalizer, CleanupList, CleanupCronJob, CleanupConfigMap,
        Goto, CleanupCalls
  <2> QED
    BY <1>1, <2>1, CallSets
<1>5. CASE CleanupJobs
  <2>1. pc' \in CleanupCalls
    BY <1>5 DEF CleanupJobs, Goto, CleanupCalls
  <2> QED
    BY <1>1, <2>1, CallSets
<1>6. CASE AddFinalizer \/ RemoveTriggerAnnotation
  <2>1. CASE ~ NotFound
    <3>1. pc' \in WorkCalls /\ obj'.live
      BY <1>0, <1>6, <2>1, CallSets DEF AddFinalizer, RemoveTriggerAnnotation, Goto, Objects
    <3> QED
      BY <1>2, <3>1
  <2> QED
    BY <1>4, <2>1
<1>7. CASE \/ ResolveCluster \/ BuildConfig \/ ListJobs \/ CheckJobCompletion
           \/ CreateOrUpdateConfigMap \/ ApplyCronJob \/ CreateJob
  <2>1. pc \in WorkCalls /\ UNCHANGED obj
    BY <1>7, CallSets
    DEF ResolveCluster, BuildConfig, ListJobs, CheckJobCompletion,
        CreateOrUpdateConfigMap, ApplyCronJob, CreateJob, kube
  <2>2. pc' # "add_finalizer"
    BY <1>7
    DEF ResolveCluster, BuildConfig, ListJobs, CheckJobCompletion, AfterSchedule,
        AfterCreate, CreateOrUpdateConfigMap, ApplyCronJob, CreateJob, Goto
  <2>3. obj'.live
    BY <2>1 DEF WorkIsLive
  <2> QED
    BY <1>1, <1>2, <2>2, <2>3
<1>8. CASE StatusCall /\ ~ NotFound
  <2>1. pc' = AfterStatus /\ AfterStatus # "add_finalizer"
    BY <1>0, <1>8, StatusIsPatch DEF PatchStatus, Goto, AfterStatus, AfterSchedule, AfterCreate
  <2>2. obj'.live
    <3>1. CASE UNCHANGED obj
      BY <1>0, <1>8, <3>1, StatusIsPatch DEF PatchStatus
    <3>2. CASE \E new : Reported(new) /\ PatchStatus(new, AfterStatus)
      BY <1>0, <3>2, ReportedKeeps DEF PatchStatus, Reported, Objects
    <3> QED
      BY <1>0, <1>8, <3>1, <3>2, StatusIsPatch DEF kube
  <2> QED
    BY <1>1, <1>2, <2>1, <2>2
<1>9. CASE UNCHANGED <<pc, obj>>
  BY <1>9 DEF WorkIsLive, WorkCalls
<1>10. CASE \/ SyncCache \/ CronFires \/ JobRuns \/ JobDeleted \/ GarbageCollect \/ Tick
            \/ DependencyChanges \/ UNCHANGED vars
  BY <1>9, <1>10
  DEF SyncCache, CronFires, JobRuns, JobDeleted, GarbageCollect, Tick,
      DependencyChanges, vars, kube, operator
<1>11. CASE UserCreates
  <2>1. pc' = "idle"
    BY <1>11 DEF UserCreates, GuardInv, NothingBefore, NoObject, operator
  <2> QED
    BY <1>1, <2>1, CallSets
<1>12. CASE UserTogglesPause \/ UserTriggers \/ UserEditsSchedule
  <2>1. /\ pc' = pc /\ obj'.live = obj.live /\ obj'.finalizer = obj.finalizer
        /\ obj'.deleting = obj.deleting
    BY <1>0, <1>12 DEF UserTogglesPause, UserTriggers, UserEditsSchedule, Objects, operator
  <2> QED
    BY <2>1 DEF WorkIsLive, WorkCalls
<1>13. CASE UserDeletes
  <2>1. /\ pc' = pc /\ obj.live /\ (obj.finalizer => obj'.live)
        /\ (~ obj.finalizer => ~ obj'.live)
    BY <1>0, <1>13 DEF UserDeletes, Objects, operator
  <2>2. pc \in WorkCalls => obj.finalizer
    BY <2>1 DEF GuardInv, HeldIsEarlier
  <2>3. pc = "add_finalizer" => ~ obj.finalizer
    BY <2>1 DEF WorkIsLive
  <2> QED
    BY <2>1, <2>2, <2>3 DEF WorkIsLive, WorkCalls
<1> QED
  BY <1>3, <1>4, <1>5, <1>6, <1>7, <1>8, <1>10, <1>11, <1>12, <1>13
  DEF Next, Reconcile, Environment, StatusCall

\* Jobs that were cleaned up are not wanted again: no step leaves the deletion.
LEMMA KeptStep ==
  ASSUME CacheLag = FALSE, GuardInv, WorkIsLive, [Next]_vars, obj.generation # 0, Kept'
  PROVE  Kept
<1> USE BackupConstants
<1>0. TypeInv /\ TypeOK /\ obj \in Objects /\ obj'.live
  BY DEF GuardInv, TypeInv, TypeOK, Kept
<1>1. obj.live /\ (obj.deleting => obj'.deleting)
  <2>1. obj # NoObject
    BY DEF NoObject
  <2>2. CASE UNCHANGED obj
    BY <1>0, <2>2
  <2>3. CASE StatusCall /\ ~ NotFound
    <3>1. CASE \E new : Reported(new) /\ PatchStatus(new, AfterStatus)
      BY <1>0, <3>1, ReportedKeeps DEF PatchStatus, Reported, Objects
    <3> QED
      BY <1>0, <2>2, <2>3, <3>1, StatusIsPatch DEF kube
  <2>4. CASE NotFound
    BY <2>2, <2>4 DEF NotFound, kube
  <2>5. CASE (AddFinalizer \/ RemoveTriggerAnnotation \/ RemoveFinalizer) /\ ~ NotFound
    BY <1>0, <2>5 DEF AddFinalizer, RemoveTriggerAnnotation, RemoveFinalizer, Objects
  <2>6. CASE UserTogglesPause \/ UserTriggers \/ UserEditsSchedule \/ UserDeletes
    BY <1>0, <2>6 DEF UserTogglesPause, UserTriggers, UserEditsSchedule, UserDeletes, Objects
  <2>7. CASE \/ StartReconcile \/ ResolveCluster \/ BuildConfig \/ ListJobs
             \/ CheckJobCompletion \/ CreateOrUpdateConfigMap \/ ApplyCronJob \/ CreateJob
             \/ CleanupList \/ CleanupJobs \/ CleanupCronJob \/ CleanupConfigMap \/ Abort
             \/ SyncCache \/ CronFires \/ JobRuns \/ JobDeleted \/ GarbageCollect \/ Tick
             \/ DependencyChanges \/ UNCHANGED vars
    BY <2>2, <2>7
    DEF StartReconcile, ResolveCluster, BuildConfig, ListJobs, CheckJobCompletion,
        CreateOrUpdateConfigMap, ApplyCronJob, CreateJob, CleanupList, CleanupJobs,
        CleanupCronJob, CleanupConfigMap, Abort, SyncCache, CronFires, JobRuns,
        JobDeleted, GarbageCollect, Tick, DependencyChanges, kube, vars
  <2> QED
    BY <2>1, <2>3, <2>4, <2>5, <2>6, <2>7
    DEF Next, Reconcile, Environment, StatusCall, UserCreates
<1>2. CASE ~ obj.deleting
  BY <1>1, <1>2 DEF Kept
<1>3. CASE obj.deleting
  <2>1. pc' \in WorkCalls
    BY <1>1, <1>3 DEF Kept, WorkCalls
  <2>2. CASE pc' = pc
    BY <1>1, <2>1, <2>2 DEF Kept
  <2>3. CASE StartReconcile
    BY <1>3, <2>1, <2>3, CallSets DEF StartReconcile, FirstCall, CleanupCalls
  <2>4. CASE AddFinalizer
    BY <1>1, <1>3, <2>4 DEF AddFinalizer, WorkIsLive
  <2>5. CASE \/ ResolveCluster \/ BuildConfig \/ ListJobs \/ CheckJobCompletion
             \/ CreateOrUpdateConfigMap \/ ApplyCronJob \/ CreateJob
             \/ RemoveTriggerAnnotation
    <3>1. pc \in WorkCalls
      BY <2>5, CallSets
      DEF ResolveCluster, BuildConfig, ListJobs, CheckJobCompletion,
          CreateOrUpdateConfigMap, ApplyCronJob, CreateJob, RemoveTriggerAnnotation
    <3> QED
      BY <1>1, <3>1 DEF Kept
  <2>6. CASE StatusCall
    <3>1. CASE pc = "update_status_paused"
      <4>1. pc' = "idle"
        BY <1>0, <2>6, <3>1, StatusIsPatch DEF NotFound, PatchStatus, Goto, AfterStatus
      <4> QED
        BY <2>1, <4>1, CallSets
    <3>2. CASE pc # "update_status_paused"
      <4>1. pc \in WorkCalls
        BY <1>0, <2>6, <3>2, StatusIsPatch, CallSets
      <4> QED
        BY <1>1, <4>1 DEF Kept
    <3> QED
      BY <3>1, <3>2
  <2>7. CASE Abort \/ RemoveFinalizer \/ CleanupList \/ CleanupJobs \/ CleanupCronJob
             \/ CleanupConfigMap
    <3>1. pc' \in CleanupCalls \cup {"idle"}
      BY <2>7
      DEF Abort, RemoveFinalizer, CleanupList, CleanupJobs, CleanupCronJob,
          CleanupConfigMap, NotFound, Goto, CleanupCalls
    <3> QED
      BY <2>1, <3>1, CallSets
  <2>8. CASE SyncCache \/ Environment \/ UNCHANGED vars
    BY <2>2, <2>8
    DEF SyncCache, Environment, CronFires, JobRuns, JobDeleted, GarbageCollect, Tick,
        DependencyChanges, UserCreates, UserTogglesPause, UserTriggers,
        UserEditsSchedule, UserDeletes, operator, vars
  <2> QED
    BY <2>3, <2>4, <2>5, <2>6, <2>7, <2>8 DEF Next, Reconcile, StatusCall
<1> QED
  BY <1>2, <1>3

\* While the object is kept, the operator's own Jobs stay, and the newest finished Job
\* only gives way to a newer one.
LEMMA JobsStay ==
  ASSUME CacheLag = FALSE, JobDeletion # "anybody", GuardInv, WorkIsLive, [Next]_vars,
         obj.generation # 0, Kept'
  PROVE  /\ \A j \in JobNames : j % 2 = 0 => j \in JobNames'
         /\ \A j \in Terminal : \E k \in Terminal' : j <= k
<1> USE BackupConstants
<1>0. TypeInv /\ TypeOK /\ jobs \in [Names -> Phases \cup {Absent}] /\ Kept
  BY KeptStep DEF GuardInv, TypeInv, TypeOK
<1>1. \A j \in JobNames : j \in Nat
  BY DEF JobNames, Names
<1>a. \A j \in Terminal : j \in Nat /\ j <= j
  BY <1>1 DEF Terminal
<1>2. CASE UNCHANGED jobs
  <2>1. JobNames' = JobNames /\ Terminal' = Terminal
    BY <1>2 DEF JobNames, Terminal
  <2> QED
    BY <1>a, <2>1
<1>3. ASSUME NEW i \in Names, NEW q \in Phases, jobs' = [jobs EXCEPT ![i] = q],
             jobs[i] \notin {"succeeded", "failed"}
      PROVE  JobNames \subseteq JobNames' /\ Terminal \subseteq Terminal'
  <2>1. JobNames \subseteq JobNames'
    BY <1>0, <1>3 DEF JobNames, Phases, Absent
  <2>2. \A j \in Terminal : j # i /\ jobs'[j] = jobs[j]
    BY <1>0, <1>3 DEF Terminal, JobNames, job_succeeded, job_failed
  <2> QED
    BY <2>1, <2>2 DEF Terminal
<1>4. CASE CreateJob \/ CronFires
  <2>1. CASE jobs' # jobs
    <3>1. \E i \in Names : jobs' = [jobs EXCEPT ![i] = "pending"] /\ jobs[i] = Absent
      <4>1. OneShotName \in Names /\ CronName \in Names
        BY <1>0 DEF TypeOK, OneShotName, CronName, Names
      <4> QED
        BY <1>4, <2>1, <4>1 DEF CreateJob, CronFires, build_backup_job
    <3>2. "pending" \in Phases /\ Absent \notin {"succeeded", "failed"}
      BY DEF Phases, Absent
    <3>3. JobNames \subseteq JobNames' /\ Terminal \subseteq Terminal'
      BY <1>3, <3>1, <3>2
    <3> QED
      BY <1>a, <3>3
  <2> QED
    BY <1>2, <2>1
<1>5. CASE JobRuns
  <2>1. \E i \in Names, q \in Phases :
          jobs' = [jobs EXCEPT ![i] = q] /\ jobs[i] \notin {"succeeded", "failed"}
    BY <1>0, <1>5, JobRunsStep DEF JobNames
  <2>2. JobNames \subseteq JobNames' /\ Terminal \subseteq Terminal'
    BY <1>3, <2>1
  <2> QED
    BY <1>a, <2>2
<1>6. CASE JobDeleted
  <2>1. PICK i \in JobNames :
          /\ i \in Terminal /\ i % 2 = 1
          /\ \E k \in Terminal : k % 2 = 1 /\ k > i /\ jobs[k] = jobs[i]
          /\ jobs' = [jobs EXCEPT ![i] = Absent]
    BY <1>6 DEF JobDeleted
  <2>2. \A j \in JobNames : j # i => j \in JobNames' /\ jobs'[j] = jobs[j]
    BY <1>0, <2>1 DEF JobNames
  <2>3. \A j \in Terminal : j # i => j \in Terminal'
    BY <2>2 DEF Terminal
  <2>4. PICK k \in Terminal : k > i
    BY <2>1
  <2>5. k \in Terminal' /\ k \in Nat /\ i \in Nat
    BY <1>1, <2>3, <2>4 DEF Terminal
  <2>6. \A j \in Terminal : \E m \in Terminal' : j <= m
    <3>1. SUFFICES ASSUME NEW j \in Terminal PROVE \E m \in Terminal' : j <= m
      OBVIOUS
    <3>2. j \in Nat
      BY <1>1 DEF Terminal
    <3>3. CASE j = i
      BY <2>4, <2>5, <3>3
    <3>4. CASE j # i
      BY <2>3, <3>2, <3>4
    <3> QED
      BY <3>3, <3>4
  <2> QED
    BY <2>1, <2>2, <2>6
<1>7. CASE GarbageCollect
  BY <1>0, <1>7 DEF GarbageCollect, Kept
<1>8. CASE CleanupJobs
  <2>1. pc \in CleanupCalls /\ obj.deleting
    BY <1>8 DEF CleanupJobs, GuardInv, HeldIsEarlier, CleanupCalls
  <2> QED
    BY <1>0, <2>1, CallSets DEF Kept
<1>9. CASE StatusCall
  <2>1. UNCHANGED jobs
    BY <1>0, <1>9, StatusIsPatch DEF NotFound, PatchStatus, kube
  <2> QED
    BY <1>2, <2>1
<1>10. CASE \/ StartReconcile \/ AddFinalizer \/ ResolveCluster \/ BuildConfig \/ ListJobs
            \/ CheckJobCompletion \/ CreateOrUpdateConfigMap \/ ApplyCronJob
            \/ RemoveTriggerAnnotation \/ CleanupList \/ CleanupCronJob
            \/ CleanupConfigMap \/ RemoveFinalizer \/ Abort \/ SyncCache \/ Tick
            \/ DependencyChanges \/ UserCreates \/ UserTogglesPause \/ UserTriggers
            \/ UserEditsSchedule \/ UserDeletes \/ UNCHANGED vars
  BY <1>2, <1>10
  DEF StartReconcile, AddFinalizer, ResolveCluster, BuildConfig, ListJobs,
      CheckJobCompletion, CreateOrUpdateConfigMap, ApplyCronJob, RemoveTriggerAnnotation,
      CleanupList, CleanupCronJob, CleanupConfigMap, RemoveFinalizer, Abort, SyncCache,
      Tick, DependencyChanges, UserCreates, UserTogglesPause, UserTriggers,
      UserEditsSchedule, UserDeletes, NotFound, kube, vars
<1> QED
  BY <1>4, <1>5, <1>6, <1>7, <1>8, <1>9, <1>10 DEF Next, Reconcile, Environment, StatusCall

-----------------------------------------------------------------------------
(***************************************************************************)
(* Runs and requests.                                                      *)
(***************************************************************************)

\* The calls before a run is started, among the others.
LEMMA BeforeRunCalls ==
  /\ {"update_status_running", "remove_trigger", "check_job_completion", "idle",
      "update_status_completed", "update_status_failed", "update_status_error",
      "update_status_paused"} \cap BeforeRun = {}
  /\ BeforeRun \cap CleanupCalls = {}
  /\ {"update_status_running", "remove_trigger"} \cap CleanupCalls = {}
  /\ BeforeRun \subseteq WorkCalls \cup {"add_finalizer"}
  BY DEF BeforeRun, CleanupCalls, WorkCalls, Calls

\* How a step may move the operator without a run being started.
MovesOn ==
  \/ UNCHANGED <<pc, snap>> /\ (pc \in BeforeRun => obj'.trigger = obj.trigger)
  \/ /\ pc' \notin BeforeRun
     /\ obj'.trigger /\ TriggerServed => TriggerServed'
  \/ /\ pc \in BeforeRun /\ pc' \in BeforeRun /\ snap' = snap
     /\ obj'.trigger = obj.trigger
     /\ pc' \in {"list_jobs", "create_job"} => snap.trigger \/ snap.schedule = "none"
     /\ pc' = "create_job" => snap.trigger \/ runs = 0
  \/ /\ pc = "idle" /\ pc' \notin {"list_jobs", "create_job"}
     /\ UNCHANGED obj /\ snap' = obj

\* A step that starts no run, asks for none and moves the operator on keeps the account
\* of runs.
LEMMA RunsFrame ==
  ASSUME CacheLag = FALSE, JobDeletion # "anybody", RunsInv, [Next]_vars,
         obj.generation # 0,
         UNCHANGED <<requests, triggers, runs, faults>>,
         obj'.schedule = obj.schedule, obj'.trigger => obj.trigger,
         MovesOn
  PROVE  RunsAreAsked' /\ OneRunPerRequest'
<1>0. GuardInv /\ WorkIsLive /\ RunsAreAsked /\ OneRunPerRequest
  BY DEF RunsInv
<1>1. /\ triggers' <= requests'
      /\ obj'.schedule = "none" /\ obj'.generation # 0 => triggers' < requests'
      /\ obj'.trigger => triggers' > 0
  BY <1>0 DEF RunsAreAsked
<1>2. obj'.trigger /\ ~ TriggerServed' => runs' < requests' + faults'
  <2>1. SUFFICES ASSUME obj'.trigger, ~ TriggerServed' PROVE ~ TriggerServed
    BY <1>0 DEF RunsAreAsked
  <2>2. CASE UNCHANGED <<pc, snap>>
    BY <2>1, <2>2 DEF TriggerServed
  <2>3. CASE pc \in BeforeRun \/ pc = "idle"
    BY <2>3, BeforeRunCalls DEF TriggerServed
  <2> QED
    BY <2>1, <2>2, <2>3 DEF MovesOn
<1>3. runs' > 0 /\ Kept' => \E j \in JobNames' : j % 2 = 0
  BY <1>0, KeptStep, JobsStay DEF RunsAreAsked
<1>4. pc' \in BeforeRun =>
        /\ snap'.trigger => obj'.trigger
        /\ snap'.schedule = "none" => triggers' < requests'
  BY <1>0 DEF MovesOn, RunsAreAsked
<1>5. pc' \in {"list_jobs", "create_job"} => snap'.trigger \/ snap'.schedule = "none"
  BY <1>0 DEF MovesOn, RunsAreAsked, BeforeRun
<1>6. pc' = "create_job" => snap'.trigger \/ runs' = 0
  BY <1>0 DEF MovesOn, RunsAreAsked, BeforeRun
<1>7. OneRunPerRequest'
  BY <1>0 DEF OneRunPerRequest
<1>8. RunsAreAsked'
  BY <1>1, <1>2, <1>3, <1>4, <1>5, <1>6 DEF RunsAreAsked, BeforeRun
<1> QED
  BY <1>7, <1>8

\* Creating a Job uses up the trigger of the snapshot, or is the first run of a spec
\* without a schedule, which was asked for on top of the triggers.
LEMMA CreateJobRuns ==
  ASSUME CacheLag = FALSE, JobDeletion # "anybody", RunsInv, [Next]_vars, CreateJob,
         jobs[OneShotName] = Absent
  PROVE  RunsAreAsked' /\ OneRunPerRequest'
<1> USE BackupConstants
<1>0. /\ TypeOK /\ RunsAreAsked /\ OneRunPerRequest
      /\ jobs \in [Names -> Phases \cup {Absent}]
  BY DEF RunsInv, GuardInv, TypeInv, TypeOK
<1>1. /\ pc = "create_job" /\ pc' = "update_status_running" /\ snap' = snap
      /\ jobs' = [jobs EXCEPT ![OneShotName] = "pending"]
      /\ runs' = Min({runs + 1, MaxRuns})
      /\ UNCHANGED <<obj, requests, triggers, faults>>
  BY DEF CreateJob, Goto, build_backup_job, bounds
<1>2. /\ runs \in Nat /\ requests \in Nat /\ triggers \in Nat /\ MaxRuns \in Nat
      /\ faults \in Nat /\ clock \in Nat
  BY <1>0 DEF TypeOK, MaxRuns
<1>3. runs' \in Nat /\ runs' <= runs + 1
  BY <1>1, <1>2, RunsCount
<1>4. /\ snap.trigger => obj.trigger
      /\ snap.schedule = "none" => triggers < requests
      /\ snap.trigger \/ (snap.schedule = "none" /\ runs = 0)
  BY <1>0, <1>1 DEF RunsAreAsked, BeforeRun
<1>5. ~ TriggerServed
  BY <1>1 DEF TriggerServed
<1>6. runs' <= requests + faults
  <2>1. CASE snap.trigger
    BY <1>0, <1>2, <1>3, <1>4, <1>5, <2>1 DEF RunsAreAsked
  <2>2. CASE ~ snap.trigger
    BY <1>2, <1>3, <1>4, <2>2
  <2> QED
    BY <2>1, <2>2
<1>7. obj'.trigger /\ ~ TriggerServed' => runs' < requests' + faults'
  <2>1. SUFFICES ASSUME obj.trigger, ~ snap.trigger PROVE runs' < requests + faults
    BY <1>1 DEF TriggerServed
  <2>2. triggers > 0
    BY <1>0, <2>1 DEF RunsAreAsked
  <2> QED
    BY <1>2, <1>3, <1>4, <2>1, <2>2
<1>8. \E j \in JobNames' : j % 2 = 0
  <2>1. OneShotName \in Names /\ OneShotName % 2 = 0
    <3>1. OneShotName \in Names
      BY <1>0 DEF TypeOK, OneShotName, Names
    <3>2. OneShotName % 2 = 0
      BY <1>2, OneShotIsEven DEF OneShotName
    <3> QED
      BY <3>1, <3>2
  <2>2. OneShotName \in JobNames'
    <3>1. jobs'[OneShotName] = "pending"
      BY <1>0, <1>1, <2>1
    <3> QED
      BY <2>1, <3>1 DEF JobNames, Absent, Names
  <2> QED
    BY <2>1, <2>2
<1>9. /\ triggers' <= requests'
      /\ obj'.schedule = "none" /\ obj'.generation # 0 => triggers' < requests'
      /\ obj'.trigger => triggers' > 0
  BY <1>0, <1>1 DEF RunsAreAsked
<1>10. pc' \notin BeforeRun /\ pc' \notin {"list_jobs", "create_job"}
  BY <1>1, BeforeRunCalls
<1>11. RunsAreAsked'
  BY <1>7, <1>8, <1>9, <1>10 DEF RunsAreAsked, BeforeRun
<1> QED
  BY <1>1, <1>6, <1>11 DEF OneRunPerRequest

\* The user's own steps account for the runs they ask for.
LEMMA UserRuns ==
  ASSUME CacheLag = FALSE, JobDeletion # "anybody", RunsInv, [Next]_vars,
         UserCreates \/ UserTriggers \/ UserEditsSchedule
  PROVE  RunsAreAsked' /\ OneRunPerRequest'
<1> USE BackupConstants
<1>0. TypeOK /\ RunsAreAsked /\ OneRunPerRequest /\ obj \in Objects
  BY DEF RunsInv, GuardInv, TypeInv, TypeOK
<1>1. /\ runs \in Nat /\ requests \in Nat /\ triggers \in Nat /\ faults \in Nat
      /\ obj.generation \in Nat
  BY <1>0 DEF TypeOK, Objects, MaxRuns
<1>2. UNCHANGED <<pc, snap, jobs, runs, faults>>
  BY DEF UserCreates, UserTriggers, UserEditsSchedule, operator, bounds
<1>3. CASE UserCreates
  <2>1. /\ obj.generation = 0 /\ triggers' = triggers
        /\ ~ obj'.trigger /\ requests' \in Nat
        /\ obj'.schedule = "none" => requests' = 1
    <3>1. /\ obj = NoObject /\ triggers' = triggers
          /\ \E q \in BOOLEAN, t \in Schedules :
               /\ obj' = [NoObject EXCEPT !.live = TRUE, !.generation = 1, !.paused = q,
                                          !.schedule = t]
               /\ requests' = IF t = "none" THEN 1 ELSE 0
      BY <1>3 DEF UserCreates, bounds
    <3>2. PICK q \in BOOLEAN, t \in Schedules :
            /\ obj' = [NoObject EXCEPT !.live = TRUE, !.generation = 1, !.paused = q,
                                       !.schedule = t]
            /\ requests' = IF t = "none" THEN 1 ELSE 0
      BY <3>1
    <3>3. ~ obj'.trigger /\ obj'.schedule = t /\ NoObject.generation = 0
      BY <3>2 DEF NoObject
    <3> QED
      BY <3>1, <3>2, <3>3
  <2>2. runs = 0 /\ triggers = 0 /\ pc = "idle"
    BY <2>1 DEF RunsInv, GuardInv, NothingBefore
  <2>3. pc' \notin BeforeRun /\ pc' \notin {"list_jobs", "create_job"}
    BY <1>2, <2>2, BeforeRunCalls
  <2>4. /\ triggers' <= requests' /\ runs' <= requests' + faults' /\ ~ (runs' > 0)
        /\ obj'.schedule = "none" => triggers' < requests'
    <3>1. runs' = 0 /\ triggers' = 0 /\ faults' \in Nat /\ requests' \in Nat
      BY <1>1, <1>2, <2>1, <2>2
    <3>2. obj'.schedule = "none" => requests' = 1
      BY <2>1
    <3>3. runs' <= requests' + faults'
      <4>1. \A m, n \in Nat : 0 <= m + n
        OBVIOUS
      <4> QED
        BY <3>1, <4>1
    <3>4. triggers' <= requests' /\ ~ (runs' > 0)
      BY <3>1
    <3>5. obj'.schedule = "none" => triggers' < requests'
      BY <3>1, <3>2
    <3> QED
      BY <3>3, <3>4, <3>5
  <2>5. RunsAreAsked'
    BY <2>1, <2>3, <2>4 DEF RunsAreAsked, BeforeRun
  <2> QED
    BY <2>4, <2>5 DEF OneRunPerRequest
<1>4. CASE UserTriggers \/ UserEditsSchedule
  <2>1. /\ obj.live /\ obj'.live = obj.live /\ obj'.deleting = obj.deleting
    BY <1>0, <1>4 DEF UserTriggers, UserEditsSchedule, Objects
  <2>2. obj.generation # 0
    BY <2>1, Created DEF RunsInv
  <2>3. runs' > 0 /\ Kept' => \E j \in JobNames' : j % 2 = 0
    BY <1>0, <1>2, <2>1 DEF RunsAreAsked, Kept, JobNames, WorkCalls
  <2>4. TriggerServed' = TriggerServed
    BY <1>2 DEF TriggerServed
  <2>5. CASE UserTriggers
    <3>1. /\ triggers' = triggers + 1 /\ requests' = requests + 1
          /\ obj'.schedule = obj.schedule /\ obj'.trigger /\ ~ obj.trigger
      BY <1>0, <2>5 DEF UserTriggers, Objects
    <3>2. /\ triggers' <= requests' /\ triggers' > 0 /\ runs' < requests' + faults'
          /\ obj'.schedule = "none" => triggers' < requests'
      BY <1>0, <1>1, <1>2, <2>2, <3>1 DEF RunsAreAsked, OneRunPerRequest
    <3>3. pc' \in BeforeRun => (snap'.schedule = "none" => triggers' < requests')
      BY <1>0, <1>1, <1>2, <3>1 DEF RunsAreAsked
    <3>4. /\ pc' \in {"list_jobs", "create_job"} => snap'.trigger \/ snap'.schedule = "none"
          /\ pc' = "create_job" => snap'.trigger \/ runs' = 0
      BY <1>0, <1>2 DEF RunsAreAsked
    <3>5. RunsAreAsked'
      BY <2>3, <3>1, <3>2, <3>3, <3>4 DEF RunsAreAsked, BeforeRun
    <3>6. runs' <= requests' + faults'
      BY <1>1, <1>2, <3>1, <3>2
    <3> QED
      BY <3>5, <3>6 DEF OneRunPerRequest
  <2>6. CASE UserEditsSchedule
    <3>1. /\ triggers' = triggers /\ requests' \in {requests, requests + 1}
          /\ obj'.schedule = "none" => requests' = requests + 1
          /\ obj'.trigger = obj.trigger
      BY <1>0, <2>6 DEF UserEditsSchedule, Objects, bounds
    <3>2. /\ triggers' <= requests' /\ runs' <= requests' + faults'
          /\ obj'.schedule = "none" => triggers' < requests'
          /\ obj'.trigger => triggers' > 0
          /\ obj'.trigger /\ ~ TriggerServed' => runs' < requests' + faults'
      BY <1>0, <1>1, <1>2, <2>4, <3>1 DEF RunsAreAsked, OneRunPerRequest
    <3>3. pc' \in BeforeRun =>
            /\ snap'.trigger => obj'.trigger
            /\ snap'.schedule = "none" => triggers' < requests'
      BY <1>0, <1>1, <1>2, <3>1 DEF RunsAreAsked
    <3>4. /\ pc' \in {"list_jobs", "create_job"} => snap'.trigger \/ snap'.schedule = "none"
          /\ pc' = "create_job" => snap'.trigger \/ runs' = 0
      BY <1>0, <1>2 DEF RunsAreAsked
    <3>5. RunsAreAsked'
      BY <2>3, <3>1, <3>2, <3>3, <3>4 DEF RunsAreAsked, BeforeRun
    <3> QED
      BY <3>2, <3>5 DEF OneRunPerRequest
  <2> QED
    BY <1>4, <2>5, <2>6
<1> QED
  BY <1>3, <1>4

\* RunsInv is inductive.
LEMMA RunsStep ==
  ASSUME CacheLag = FALSE, JobDeletion # "anybody", RunsInv, [Next]_vars
  PROVE  RunsInv'
<1> USE BackupConstants
<1>0. /\ GuardInv /\ WorkIsLive /\ RunsAreAsked /\ OneRunPerRequest
      /\ TypeInv /\ TypeOK /\ obj \in Objects
  BY DEF RunsInv, GuardInv, TypeInv, TypeOK
<1>1. GuardInv' /\ WorkIsLive'
  BY <1>0, GuardStep, WorkStep
<1>2. SUFFICES RunsAreAsked' /\ OneRunPerRequest'
  BY <1>1 DEF RunsInv
<1>3. ASSUME obj.generation # 0, UNCHANGED <<requests, triggers, runs, faults>>,
             obj'.schedule = obj.schedule, obj'.trigger => obj.trigger, MovesOn
      PROVE  RunsAreAsked' /\ OneRunPerRequest'
  BY <1>3, RunsFrame
<1>4. ASSUME pc # "idle", Goto("idle"), ~ TriggerServed,
             UNCHANGED <<obj, requests, triggers, runs, faults>>
      PROVE  RunsAreAsked' /\ OneRunPerRequest'
  <2>1. MovesOn
    BY <1>4, BeforeRunCalls DEF MovesOn, Goto
  <2> QED
    BY <1>0, <1>3, <1>4, <2>1, Created
<1>5. CASE StartReconcile
  <2>1. /\ pc = "idle" /\ pc' = FirstCall(obj) /\ snap' = obj /\ cache.live
        /\ UNCHANGED <<obj, requests, triggers, runs, faults>>
    BY <1>5 DEF StartReconcile, kube, history, bounds
  <2>2. MovesOn
    BY <2>1 DEF MovesOn, FirstCall
  <2> QED
    BY <1>0, <1>3, <2>1, <2>2, Created
<1>6. CASE AddFinalizer
  <2>1. pc = "add_finalizer" /\ ~ TriggerServed
    BY <1>6 DEF AddFinalizer, TriggerServed
  <2>2. CASE NotFound
    BY <1>4, <2>1, <2>2 DEF NotFound, kube, history, bounds
  <2>3. CASE ~ NotFound
    <3>1. /\ pc' = "resolve_cluster" /\ snap' = snap
          /\ obj' = [obj EXCEPT !.finalizer = TRUE]
          /\ UNCHANGED <<requests, triggers, runs, faults>>
      BY <1>6, <2>3 DEF AddFinalizer, Goto, history, bounds
    <3>2. obj'.trigger = obj.trigger /\ obj'.schedule = obj.schedule
      BY <1>0, <3>1 DEF Objects
    <3>3. MovesOn
      BY <2>1, <3>1, <3>2 DEF MovesOn, BeforeRun
    <3> QED
      BY <1>0, <1>3, <2>1, <3>1, <3>2, <3>3, Created
  <2> QED
    BY <2>2, <2>3
<1>7. CASE ResolveCluster \/ BuildConfig \/ CreateOrUpdateConfigMap \/ ApplyCronJob
  <2>1. /\ pc \in BeforeRun /\ pc # "idle" /\ UNCHANGED <<obj, requests, triggers, runs, faults>>
    BY <1>7
    DEF ResolveCluster, BuildConfig, CreateOrUpdateConfigMap, ApplyCronJob, BeforeRun,
        kube, history, bounds
  <2>2. \/ pc' \notin BeforeRun
        \/ /\ pc' \in BeforeRun /\ snap' = snap /\ pc' # "create_job"
           /\ pc' = "list_jobs" => snap.trigger \/ snap.schedule = "none"
    BY <1>7
    DEF ResolveCluster, BuildConfig, CreateOrUpdateConfigMap, ApplyCronJob, AfterSchedule,
        Goto, BeforeRun
  <2>3. ~ TriggerServed
    BY <2>1, BeforeRunCalls DEF TriggerServed
  <2>4. MovesOn
    BY <2>1, <2>2, <2>3 DEF MovesOn
  <2> QED
    BY <1>0, <1>3, <2>1, <2>4, Created
<1>8. CASE ListJobs
  <2> DEFINE state == classify_jobs({jobs[j] : j \in JobNames})
  <2>1. /\ pc = "list_jobs" /\ UNCHANGED <<obj, requests, triggers, runs, faults>>
        /\ Goto(IF should_create_backup_job(state, snap.trigger)
                THEN "create_job" ELSE AfterCreate(snap))
    BY <1>8 DEF ListJobs, kube, history, bounds
  <2>2. ~ TriggerServed /\ pc \in BeforeRun /\ pc \in WorkCalls /\ pc # "idle"
    BY <2>1, CallSets DEF TriggerServed, BeforeRun
  <2>3. should_create_backup_job(state, snap.trigger) => snap.trigger \/ runs = 0
    <3>1. SUFFICES ASSUME should_create_backup_job(state, snap.trigger), ~ snap.trigger
                   PROVE  runs = 0
      OBVIOUS
    <3>2. state = "NoJobs"
      BY <3>1 DEF should_create_backup_job
    <3>3. {jobs[j] : j \in JobNames} = {}
      BY <3>2 DEF classify_jobs
    <3>4. JobNames = {}
      BY <3>3
    <3>5. Kept
      BY <1>0, <2>2 DEF Kept, WorkIsLive
    <3>6. ~ (runs > 0) /\ runs \in Nat
      BY <1>0, <3>4, <3>5 DEF RunsAreAsked, TypeOK, MaxRuns
    <3> QED
      BY <3>6
  <2>4. CASE should_create_backup_job(state, snap.trigger)
    <3>1. pc' = "create_job" /\ snap' = snap
      BY <2>1, <2>4 DEF Goto
    <3>2. pc' \in BeforeRun /\ (snap.trigger \/ snap.schedule = "none")
      BY <1>0, <2>1, <3>1 DEF RunsAreAsked, BeforeRun
    <3>3. MovesOn
      BY <2>1, <2>2, <2>3, <2>4, <3>1, <3>2 DEF MovesOn
    <3> QED
      BY <1>0, <1>3, <2>1, <2>2, <3>3, Created
  <2>5. CASE ~ should_create_backup_job(state, snap.trigger)
    <3>1. pc' \notin BeforeRun
      BY <2>1, <2>5, BeforeRunCalls DEF Goto, AfterCreate
    <3>2. MovesOn
      BY <2>2, <3>1 DEF MovesOn
    <3> QED
      BY <1>0, <1>3, <2>1, <2>2, <3>2, Created
  <2> QED
    BY <2>4, <2>5
<1>9. CASE CreateJob
  <2>1. CASE jobs[OneShotName] = Absent
    BY <1>9, <2>1, CreateJobRuns
  <2>2. CASE jobs[OneShotName] # Absent
    <3>1. /\ pc = "create_job" /\ Goto("idle") /\ UNCHANGED <<obj, requests, triggers, runs, faults>>
      BY <1>9, <2>2 DEF CreateJob, bounds
    <3> QED
      BY <1>4, <3>1 DEF TriggerServed
  <2> QED
    BY <2>1, <2>2
<1>10. CASE StatusCall
  <2>0. /\ pc \in {"update_status_scheduled", "update_status_running",
                   "update_status_completed", "update_status_failed",
                   "update_status_error", "update_status_paused"}
    BY <1>0, <1>10, StatusIsPatch
  <2>1. CASE NotFound
    <3>1. ~ TriggerServed
      BY <1>0, <2>1, CallSets DEF NotFound, TriggerServed, WorkIsLive
    <3> QED
      BY <1>4, <2>0, <2>1, <3>1 DEF NotFound, kube, history, bounds
  <2>2. CASE ~ NotFound
    <3>1. /\ Goto(AfterStatus) /\ UNCHANGED <<requests, triggers, runs, faults>>
          /\ obj'.trigger = obj.trigger /\ obj'.schedule = obj.schedule
      <4>1. CASE /\ Goto(AfterStatus)
                 /\ UNCHANGED <<kube, history, bounds, cache, found, todo, lastTransition>>
        BY <4>1 DEF kube, history, bounds
      <4>2. CASE \E new : Reported(new) /\ PatchStatus(new, AfterStatus)
        <5>1. PICK new : Reported(new) /\ PatchStatus(new, AfterStatus)
          BY <4>2
        <5>2. new.trigger = obj.trigger /\ new.schedule = obj.schedule /\ new \in Objects
          BY <1>0, <5>1, ReportedKeeps DEF Reported
        <5>3. /\ obj' = [new EXCEPT !.observed = snap.generation]
              /\ Goto(AfterStatus) /\ UNCHANGED <<requests, triggers, runs, faults>>
          BY <5>1 DEF PatchStatus, history, bounds
        <5>4. obj'.trigger = new.trigger /\ obj'.schedule = new.schedule
          BY <5>2, <5>3 DEF Objects
        <5> QED
          BY <5>2, <5>3, <5>4
      <4> QED
        BY <1>0, <1>10, <2>2, <4>1, <4>2, StatusIsPatch
    <3>2. MovesOn
      <4>1. CASE pc = "update_status_scheduled"
        <5>1. \/ pc' = "list_jobs" /\ snap' = snap /\ (snap.trigger \/ snap.schedule = "none")
              \/ pc' = "check_job_completion"
          BY <3>1, <4>1 DEF AfterStatus, AfterSchedule, Goto
        <5> QED
          BY <3>1, <4>1, <5>1, BeforeRunCalls DEF MovesOn, TriggerServed, BeforeRun
      <4>2. CASE pc = "update_status_running"
        <5>1. /\ snap' = snap
              /\ pc' = IF snap.trigger THEN "remove_trigger" ELSE "check_job_completion"
          BY <3>1, <4>2 DEF AfterStatus, AfterCreate, Goto
        <5> QED
          BY <5>1, BeforeRunCalls DEF MovesOn, TriggerServed
      <4>3. CASE pc \notin {"update_status_scheduled", "update_status_running"}
        <5>1. pc' = "idle" /\ ~ TriggerServed
          BY <2>0, <3>1, <4>3 DEF AfterStatus, Goto, TriggerServed
        <5> QED
          BY <5>1, BeforeRunCalls DEF MovesOn
      <4> QED
        BY <4>1, <4>2, <4>3
    <3> QED
      BY <1>0, <1>3, <2>0, <3>1, <3>2, Created
  <2> QED
    BY <2>1, <2>2
<1>11. CASE RemoveTriggerAnnotation
  <2>1. pc = "remove_trigger" /\ obj.live
    BY <1>0, <1>11, CallSets DEF RemoveTriggerAnnotation, WorkIsLive
  <2>2. /\ pc' = "check_job_completion" /\ obj' = [obj EXCEPT !.trigger = FALSE]
        /\ UNCHANGED <<requests, triggers, runs, faults>>
    BY <1>11, <2>1 DEF RemoveTriggerAnnotation, NotFound, Goto, history, bounds
  <2>3. ~ obj'.trigger /\ obj'.schedule = obj.schedule
    BY <1>0, <2>2 DEF Objects
  <2>4. MovesOn
    BY <2>2, <2>3, BeforeRunCalls DEF MovesOn
  <2> QED
    BY <1>0, <1>3, <2>1, <2>2, <2>3, <2>4, Created
<1>12. CASE CheckJobCompletion
  <2>1. /\ pc = "check_job_completion" /\ UNCHANGED <<obj, requests, triggers, runs, faults>>
        /\ pc' \in {"idle", "update_status_completed", "update_status_failed"}
    BY <1>12 DEF CheckJobCompletion, Goto, kube, history, bounds
  <2>2. MovesOn
    BY <2>1, BeforeRunCalls DEF MovesOn, TriggerServed
  <2> QED
    BY <1>0, <1>3, <2>1, <2>2, Created
<1>13. CASE CleanupList \/ CleanupJobs \/ CleanupCronJob \/ CleanupConfigMap
  <2>1. /\ pc \in CleanupCalls /\ pc' \in CleanupCalls
        /\ UNCHANGED <<obj, requests, triggers, runs, faults>>
    BY <1>13
    DEF CleanupList, CleanupJobs, CleanupCronJob, CleanupConfigMap, CleanupCalls, Goto,
        kube, history, bounds
  <2>2. MovesOn /\ pc # "idle"
    BY <2>1, BeforeRunCalls, CallSets DEF MovesOn, TriggerServed
  <2> QED
    BY <1>0, <1>3, <2>1, <2>2, Created
<1>14. CASE RemoveFinalizer
  <2>1. pc = "remove_finalizer" /\ ~ TriggerServed /\ pc' = "idle"
        /\ UNCHANGED <<requests, triggers, runs, faults>>
    BY <1>14 DEF RemoveFinalizer, NotFound, TriggerServed, Goto, history, bounds
  <2>2. obj'.trigger = obj.trigger /\ obj'.schedule = obj.schedule
    BY <1>0, <1>14 DEF RemoveFinalizer, NotFound, Objects, kube
  <2>3. MovesOn
    BY <2>1, BeforeRunCalls DEF MovesOn
  <2> QED
    BY <1>0, <1>3, <2>1, <2>2, <2>3, Created
<1>15. CASE Abort
  <2>1. /\ pc # "idle" /\ pc' = "idle" /\ faults' = faults + 1 /\ JobNames' = JobNames
        /\ UNCHANGED <<obj, requests, triggers, runs>>
    BY <1>15 DEF Abort, Goto, kube, history, JobNames
  <2>2. runs \in Nat /\ requests \in Nat /\ faults \in Nat
    BY <1>0 DEF TypeOK, MaxRuns
  <2>3. runs' < requests' + faults'
    BY <1>0, <2>1, <2>2 DEF OneRunPerRequest
  <2>4. Kept' => Kept
    BY <1>0, <2>1, Created, KeptStep
  <2>5. pc' \notin BeforeRun /\ pc' \notin {"list_jobs", "create_job"}
    BY <2>1, BeforeRunCalls
  <2>6. RunsAreAsked'
    BY <1>0, <2>1, <2>3, <2>4, <2>5 DEF RunsAreAsked, BeforeRun
  <2>7. runs' <= requests' + faults'
    BY <2>1, <2>2, <2>3
  <2> QED
    BY <2>6, <2>7 DEF OneRunPerRequest
<1>16. CASE SyncCache \/ Tick \/ DependencyChanges \/ UNCHANGED vars
  <2>1. UNCHANGED <<obj, pc, snap, jobs, runs, requests, triggers, faults>>
    BY <1>16 DEF SyncCache, Tick, DependencyChanges, vars, kube, operator, history, bounds
  <2>2. TriggerServed' = TriggerServed /\ Kept' = Kept /\ JobNames' = JobNames
    BY <2>1 DEF TriggerServed, Kept, JobNames, WorkCalls
  <2> QED
    BY <1>0, <2>1, <2>2 DEF RunsAreAsked, OneRunPerRequest, BeforeRun
<1>17. CASE CronFires \/ JobRuns \/ JobDeleted \/ GarbageCollect
  <2>1. UNCHANGED <<obj, pc, snap, runs, requests, triggers, faults>> /\ HasResources
    BY <1>17
    DEF CronFires, JobRuns, JobDeleted, GarbageCollect, operator, history, bounds,
        HasResources
  <2>2. MovesOn
    BY <2>1 DEF MovesOn
  <2> QED
    BY <1>0, <1>3, <2>1, <2>2, Created
<1>18. CASE UserCreates \/ UserTriggers \/ UserEditsSchedule
  BY <1>18, UserRuns
<1>19. CASE UserTogglesPause \/ UserDeletes
  <2>1. /\ UNCHANGED <<pc, snap, runs, requests, triggers, faults>> /\ obj.live
        /\ obj'.trigger = obj.trigger /\ obj'.schedule = obj.schedule
    BY <1>0, <1>19 DEF UserTogglesPause, UserDeletes, operator, history, bounds, Objects
  <2>2. MovesOn
    BY <2>1 DEF MovesOn
  <2> QED
    BY <1>0, <1>3, <2>1, <2>2, Created
<1> QED
  BY <1>5, <1>6, <1>7, <1>8, <1>9, <1>10, <1>11, <1>12, <1>13, <1>14, <1>15, <1>16, <1>17,
     <1>18, <1>19
  DEF Next, Reconcile, Environment, StatusCall

\* The operator starts one run for a spec without a schedule and one for each trigger at
\* most, and one more for each call that fails and each restart, whatever the CronJob runs
\* meanwhile, when the cache is read current and only the history limit deletes Jobs
\* (issue #29).
THEOREM RunsAreRequested ==
  ASSUME CacheLag = FALSE, JobDeletion # "anybody"
  PROVE  Spec => []OneRunPerRequest
<1>1. Init => RunsInv
  <2>1. Init => GuardInv
    BY GuardInit
  <2>2. Init => WorkIsLive
    BY CallSets DEF Init, WorkIsLive
  <2>3. Init => RunsAreAsked /\ OneRunPerRequest
    BY BeforeRunCalls DEF Init, NoObject, RunsAreAsked, OneRunPerRequest
  <2> QED
    BY <2>1, <2>2, <2>3 DEF RunsInv
<1>2. RunsInv /\ [Next]_vars => RunsInv'
  BY RunsStep
<1>3. RunsInv => OneRunPerRequest
  BY DEF RunsInv
<1> QED
  BY <1>1, <1>2, <1>3, PTL DEF Spec

-----------------------------------------------------------------------------
(***************************************************************************)
(* The record in the status.                                               *)
(***************************************************************************)

\* A step that leaves the record alone and takes the operator to no patch of it keeps
\* RecordIsCurrent.
LEMMA RecordFrame ==
  ASSUME CacheLag = FALSE, JobDeletion # "anybody", RecordInv, [Next]_vars,
         obj.generation # 0, obj'.lastBackup = obj.lastBackup,
         obj'.backupHistory = obj.backupHistory,
         \/ UNCHANGED <<pc, snap, found>>
         \/ pc' \notin {"update_status_completed", "update_status_paused"}
  PROVE  RecordIsCurrent'
<1>0. GuardInv /\ WorkIsLive /\ RecordIsCurrent /\ TypeOK
  BY DEF RecordInv, GuardInv, TypeInv
<1>1. /\ \A j \in Terminal : j \in Nat
      /\ \A j \in Terminal' : j \in Nat
      /\ obj.lastBackup \in Nat /\ found \in Nat
  BY <1>0, BackupConstants DEF TypeOK, Objects, Terminal, JobNames, Names
<1>2. Kept' => Kept /\ \A j \in Terminal : \E k \in Terminal' : j <= k
  BY <1>0, KeptStep, JobsStay
<1>3. Kept' /\ obj'.lastBackup # 0 => \E j \in Terminal' : obj'.lastBackup <= j
  BY <1>0, <1>1, <1>2 DEF RecordIsCurrent
<1>4. ASSUME pc' = "update_status_completed"
      PROVE  obj'.lastBackup <= found' /\ \E j \in Terminal' : found' <= j
  <2>1. pc = "update_status_completed" /\ found' = found
    BY <1>4
  <2>2. Kept'
    <3>1. WorkIsLive' /\ pc' \in WorkCalls
      BY <1>0, <1>4, WorkStep, CallSets
    <3> QED
      BY <3>1 DEF WorkIsLive, Kept, WorkCalls
  <2>3. PICK j \in Terminal : found <= j
    BY <1>0, <2>1 DEF RecordIsCurrent
  <2>4. PICK k \in Terminal' : j <= k
    BY <1>2, <2>2, <2>3
  <2>5. found <= k
    BY <1>1, <2>3, <2>4
  <2> QED
    BY <1>0, <2>1, <2>4, <2>5 DEF RecordIsCurrent
<1>5. pc' = "update_status_paused" => /\ snap'.lastBackup = obj'.lastBackup
                                      /\ snap'.backupHistory = obj'.backupHistory
  BY <1>0 DEF RecordIsCurrent
<1> QED
  BY <1>3, <1>4, <1>5 DEF RecordIsCurrent

\* What a step may do to the record of an object that stays.
RecordGrows ==
  obj.live /\ obj'.live =>
    /\ obj.backupHistory \subseteq obj'.backupHistory
    /\ obj.lastBackup <= obj'.lastBackup

\* RecordInv is inductive, and no step loses what is recorded.
LEMMA RecordStep ==
  ASSUME CacheLag = FALSE, JobDeletion # "anybody", RecordInv, [Next]_vars
  PROVE  RecordInv' /\ RecordGrows
<1> USE BackupConstants
<1>0. /\ GuardInv /\ WorkIsLive /\ RecordIsCurrent /\ TypeInv /\ TypeOK /\ obj \in Objects
      /\ obj.lastBackup \in Nat
  <2>1. GuardInv /\ WorkIsLive /\ RecordIsCurrent /\ TypeInv /\ TypeOK
    BY DEF RecordInv, GuardInv, TypeInv
  <2>2. obj \in Objects
    BY <2>1 DEF TypeOK
  <2>3. obj.lastBackup \in Names \cup {0}
    BY <2>2 DEF Objects
  <2>4. obj.lastBackup \in Nat
    BY <2>3 DEF Names
  <2> QED
    BY <2>1, <2>2, <2>4, Zenon
<1>1. GuardInv' /\ WorkIsLive'
  BY <1>0, GuardStep, WorkStep
<1>2. SUFFICES RecordIsCurrent' /\ RecordGrows
  BY <1>1 DEF RecordInv
<1>3. ASSUME obj.generation # 0, obj'.lastBackup = obj.lastBackup,
             obj'.backupHistory = obj.backupHistory,
             \/ UNCHANGED <<pc, snap, found>>
             \/ pc' \notin {"update_status_completed", "update_status_paused"}
      PROVE  RecordIsCurrent' /\ RecordGrows
  <2>1. RecordIsCurrent'
    BY <1>3, RecordFrame
  <2>2. RecordGrows
    BY <1>0, <1>3 DEF RecordGrows
  <2> QED
    BY <2>1, <2>2
<1>4. CASE StartReconcile
  <2>1. /\ cache.live /\ UNCHANGED obj /\ snap' = obj
        /\ pc' = FirstCall(obj) /\ pc' # "update_status_completed"
    BY <1>4 DEF StartReconcile, FirstCall, kube
  <2>2. obj.generation # 0
    BY <1>0, <2>1, Created
  <2>3. CASE pc' = "update_status_paused"
    <3>1. Kept' => Kept /\ \A j \in Terminal : \E k \in Terminal' : j <= k
      BY <1>0, <2>2, KeptStep, JobsStay
    <3>2. Terminal' = Terminal
      BY <1>4 DEF StartReconcile, kube, Terminal, JobNames
    <3>3. Kept' /\ obj'.lastBackup # 0 => \E j \in Terminal' : obj'.lastBackup <= j
      BY <1>0, <2>1, <3>1, <3>2 DEF RecordIsCurrent
    <3> QED
      BY <1>0, <2>1, <2>3, <3>3 DEF RecordIsCurrent, RecordGrows
  <2>4. CASE pc' # "update_status_paused"
    BY <1>3, <2>1, <2>2, <2>4
  <2> QED
    BY <2>3, <2>4
<1>5. CASE CheckJobCompletion
  <2>1. /\ pc = "check_job_completion" /\ UNCHANGED <<obj, jobs>>
        /\ \/ pc' \in {"idle", "update_status_failed"}
           \/ pc' = "update_status_completed" /\ Terminal # {} /\ found' = Latest
    BY <1>5 DEF CheckJobCompletion, Goto, kube
  <2>2. obj.generation # 0 /\ Kept
    BY <1>0, <2>1, Created, CallSets DEF Kept, WorkIsLive
  <2>3. CASE pc' = "update_status_completed"
    <3>1. /\ Latest \in Terminal /\ \A j \in Terminal : j <= Latest /\ j \in Nat
      BY <2>1, <2>3, LatestIsNewest DEF Terminal, JobNames, Names
    <3>2. obj.lastBackup <= Latest
      <4>1. CASE obj.lastBackup = 0
        BY <3>1, <4>1
      <4>2. CASE obj.lastBackup # 0
        <5>1. PICK j \in Terminal : obj.lastBackup <= j
          BY <1>0, <2>2, <4>2 DEF RecordIsCurrent
        <5> QED
          BY <1>0, <3>1, <5>1
      <4> QED
        BY <4>1, <4>2
    <3>3. Terminal' = Terminal
      BY <2>1 DEF Terminal, JobNames
    <3>4. /\ obj'.lastBackup <= found' /\ \E j \in Terminal' : found' <= j
          /\ \E j \in Terminal' : obj'.lastBackup <= j
      BY <2>1, <2>3, <3>1, <3>2, <3>3
    <3> QED
      BY <1>0, <2>1, <2>3, <3>4 DEF RecordIsCurrent, RecordGrows
  <2>4. CASE pc' # "update_status_completed"
    BY <1>3, <2>1, <2>2, <2>4
  <2> QED
    BY <2>3, <2>4
<1>6. CASE NotFound
  <2>1. pc' = "idle" /\ ~ obj.live /\ UNCHANGED obj
    BY <1>6 DEF NotFound, Goto, kube
  <2>2. ~ Kept'
    BY <2>1 DEF Kept
  <2> QED
    BY <2>1, <2>2 DEF RecordIsCurrent, RecordGrows
<1>7. CASE StatusCall /\ ~ NotFound
  <2>0. /\ pc \in {"update_status_scheduled", "update_status_running",
                   "update_status_completed", "update_status_failed",
                   "update_status_error", "update_status_paused"}
    BY <1>0, <1>7, StatusIsPatch
  <2>1. obj.generation # 0
    BY <1>0, <2>0, Created
  <2>2. /\ Goto(AfterStatus)
        /\ pc' \notin {"update_status_completed", "update_status_paused"}
    BY <1>0, <1>7, StatusIsPatch
    DEF PatchStatus, Goto, AfterStatus, AfterSchedule, AfterCreate
  <2>3. CASE UNCHANGED obj
    BY <1>3, <2>1, <2>2, <2>3
  <2>4. CASE \E new : Reported(new) /\ PatchStatus(new, AfterStatus)
    <3>1. PICK new : Reported(new) /\ PatchStatus(new, AfterStatus)
      BY <2>4
    <3>2. /\ obj' = [new EXCEPT !.observed = snap.generation] /\ new \in Objects
          /\ UNCHANGED jobs
      BY <3>1 DEF PatchStatus, Reported
    <3>3. obj'.lastBackup = new.lastBackup /\ obj'.backupHistory = new.backupHistory
      BY <3>2 DEF Objects
    <3>4. CASE pc # "update_status_completed"
      <4>1. new.lastBackup = obj.lastBackup /\ new.backupHistory = obj.backupHistory
        BY <1>0, <3>1, <3>4 DEF Reported, RecordIsCurrent
      <4> QED
        BY <1>3, <2>1, <2>2, <3>3, <4>1
    <3>5. CASE pc = "update_status_completed"
      <4>1. /\ obj'.lastBackup = found /\ obj'.backupHistory = obj.backupHistory \cup {found}
        BY <3>1, <3>3, <3>5 DEF Reported
      <4>2. obj.lastBackup <= found /\ \E j \in Terminal : found <= j
        BY <1>0, <3>5 DEF RecordIsCurrent
      <4>3. Terminal' = Terminal
        BY <3>2 DEF Terminal, JobNames
      <4> QED
        BY <2>2, <4>1, <4>2, <4>3 DEF RecordIsCurrent, RecordGrows
    <3> QED
      BY <3>4, <3>5
  <2> QED
    BY <1>0, <1>7, <2>3, <2>4, StatusIsPatch DEF kube
<1>8. CASE (AddFinalizer \/ RemoveTriggerAnnotation \/ RemoveFinalizer) /\ ~ NotFound
  <2>1. /\ obj.live /\ pc' \notin {"update_status_completed", "update_status_paused"}
        /\ obj'.lastBackup = obj.lastBackup /\ obj'.backupHistory = obj.backupHistory
    BY <1>0, <1>8 DEF AddFinalizer, RemoveTriggerAnnotation, RemoveFinalizer, Goto, Objects
  <2> QED
    BY <1>0, <1>3, <2>1, Created
<1>9. CASE \/ ResolveCluster \/ BuildConfig \/ ListJobs \/ CreateOrUpdateConfigMap
           \/ ApplyCronJob \/ CreateJob \/ CleanupList \/ CleanupJobs \/ CleanupCronJob
           \/ CleanupConfigMap \/ Abort
  <2>1. /\ pc # "idle" /\ UNCHANGED obj
        /\ pc' \notin {"update_status_completed", "update_status_paused"}
    BY <1>9
    DEF ResolveCluster, BuildConfig, ListJobs, CreateOrUpdateConfigMap, ApplyCronJob,
        CreateJob, CleanupList, CleanupJobs, CleanupCronJob, CleanupConfigMap, Abort,
        AfterSchedule, AfterCreate, Goto, kube
  <2> QED
    BY <1>0, <1>3, <2>1, Created
<1>10. CASE SyncCache \/ Tick \/ DependencyChanges \/ UNCHANGED vars
  <2>1. UNCHANGED <<obj, pc, snap, found, jobs>>
    BY <1>10 DEF SyncCache, Tick, DependencyChanges, vars, kube, operator
  <2>2. Kept' = Kept /\ Terminal' = Terminal
    BY <2>1 DEF Kept, Terminal, JobNames, WorkCalls
  <2> QED
    BY <1>0, <2>1, <2>2 DEF RecordIsCurrent, RecordGrows
<1>11. CASE CronFires \/ JobRuns \/ JobDeleted \/ GarbageCollect
  <2>1. UNCHANGED <<obj, pc, snap, found>> /\ HasResources
    BY <1>11 DEF CronFires, JobRuns, JobDeleted, GarbageCollect, operator, HasResources
  <2> QED
    BY <1>0, <1>3, <2>1, Created
<1>12. CASE UserCreates
  <2>1. obj = NoObject /\ ~ obj.live /\ obj'.lastBackup = 0 /\ pc' = pc
    BY <1>12 DEF UserCreates, NoObject, operator
  <2>2. pc = "idle"
    BY <1>0, <2>1 DEF GuardInv, NothingBefore, NoObject
  <2> QED
    BY <2>1, <2>2 DEF RecordIsCurrent, RecordGrows
<1>13. CASE UserTogglesPause \/ UserTriggers \/ UserEditsSchedule \/ UserDeletes
  <2>1. /\ obj.live /\ UNCHANGED <<pc, snap, found>>
        /\ obj'.lastBackup = obj.lastBackup /\ obj'.backupHistory = obj.backupHistory
    BY <1>0, <1>13
    DEF UserTogglesPause, UserTriggers, UserEditsSchedule, UserDeletes, operator, Objects
  <2> QED
    BY <1>0, <1>3, <2>1, Created
<1> QED
  BY <1>4, <1>5, <1>6, <1>7, <1>8, <1>9, <1>10, <1>11, <1>12, <1>13
  DEF Next, Reconcile, Environment, StatusCall

\* The history in the status keeps its entries and lastBackup does not fall back to an
\* older backup - through pauses, whose patch carries the status of the snapshot, and
\* failed calls - when the cache is read current and only the history limit deletes Jobs.
THEOREM RecordsStay ==
  ASSUME CacheLag = FALSE, JobDeletion # "anybody"
  PROVE  Spec => RecordStays
<1>1. Init => RecordInv
  <2>1. Init => GuardInv
    BY GuardInit
  <2>2. Init => WorkIsLive
    BY CallSets DEF Init, WorkIsLive
  <2>3. Init => RecordIsCurrent
    BY DEF Init, NoObject, RecordIsCurrent
  <2> QED
    BY <2>1, <2>2, <2>3 DEF RecordInv
<1>2. RecordInv /\ [Next]_vars => RecordInv' /\ RecordGrows
  BY RecordStep
<1> QED
  BY <1>1, <1>2, PTL DEF Spec, RecordStays, RecordGrows
=============================================================================
