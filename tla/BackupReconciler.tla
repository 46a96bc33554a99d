--------------------------- MODULE BackupReconciler ---------------------------
(***************************************************************************)
(* The KafkaBackup controller (src/reconcilers/backup.rs, driven by        *)
(* src/controllers/backup.rs) for one resource without spec.retention,     *)
(* one-shot, scheduled or suspended, with the parts of Kubernetes it works *)
(* against.  One operator replica runs: it is then the only writer of the  *)
(* status, and a get_status followed by patch_status is one step.          *)
(*                                                                         *)
(* As in RestoreReconciler, pc names the API call the reconciliation is    *)
(* about to make and snap is the object it was given by the watch cache.   *)
(* A one-shot Job is named after the second it is created in; a Job of the *)
(* CronJob has a name of its own.  Names are numbers, in the order of the  *)
(* Jobs' start times.                                                      *)
(***************************************************************************)
EXTENDS Naturals, FiniteSets, FiniteSetsExt, Conditions, JobState

CONSTANTS
  Schedules,      \* spec.schedule values: of {"none", "active", "suspended"}
  Dependencies,   \* what of the dependencies may be missing
  CacheLag,       \* whether the watch cache may lag behind the API server
  JobDeletion,    \* who deletes Jobs: "nobody", "history_limit", "anybody"
  MaxClock,       \* bound: seconds, hence distinct Job names
  MaxGeneration,  \* bound: spec generations
  MaxToggles,     \* bound: times the pause annotation is set or removed
  MaxTriggers,    \* bound: times the user sets the trigger annotation
  MaxFaults       \* bound: failed API calls and operator restarts

ASSUME BackupConstants ==
  /\ Schedules \subseteq {"none", "active", "suspended"}
  /\ Dependencies \subseteq {"cluster", "config"}
  /\ CacheLag \in BOOLEAN
  /\ JobDeletion \in {"nobody", "history_limit", "anybody"}
  /\ MaxClock \in Nat \ {0} /\ MaxGeneration \in Nat \ {0} /\ MaxToggles \in Nat
  /\ MaxTriggers \in Nat /\ MaxFaults \in Nat

VARIABLES
  obj,            \* the KafkaBackup the API server holds
  jobs,           \* phase of the Job of each name, Absent if there is none
  cronJob,        \* <name>-scheduled: "absent", "active" or "suspended"
  configMap,      \* whether <name>-config exists
  missing,        \* dependencies that cannot be resolved now
  cache,          \* the object in the operator's watch cache
  pc,             \* the API call the operator is about to make
  snap,           \* the object its reconciliation was given
  found,          \* the Job check_job_completion decided on
  todo,           \* the Jobs handle_cleanup has yet to delete
  clock,          \* current second
  lastTransition, \* flips whenever a patch writes new lastTransitionTimes
  toggles, triggers, faults,  \* how much of the bounds is used up
  requests,       \* history: runs asked for (a one-shot spec, each trigger)
  runs,           \* history: Jobs the operator created
  everActive      \* history: whether it was ever without the pause annotation

kube == <<obj, jobs, cronJob, configMap, missing, clock>>
operator == <<cache, pc, snap, found, todo>>
bounds == <<toggles, triggers, faults>>
history == <<requests, runs, everActive>>
vars == <<obj, jobs, cronJob, configMap, missing, clock, cache, pc, snap, found,
          todo, lastTransition, toggles, triggers, faults, requests, runs,
          everActive>>

Names == 1..(2 * MaxClock)

OneShotName == 2 * clock
CronName == 2 * clock - 1

(***************************************************************************)
(* The status conditions the backup reconciler writes.                     *)
(***************************************************************************)
Running == {not_ready("BackupRunning", 0)}
Scheduled == {ready("BackupScheduled")}
Suspended == {ready("BackupSuspended")}
Completed == {ready("BackupCompleted")}
JobFailed(j) == error_conditions("BackupFailed", j)
Unresolved == error_conditions("ClusterNotFound", 0)
Paused == {reconciliation_paused}

ConditionLists ==
  {{}, Running, Scheduled, Suspended, Completed, Unresolved, Paused}
    \cup {JobFailed(j) : j \in Names}

Objects ==
  [live : BOOLEAN, schedule : Schedules \cup {"none"}, generation : 0..MaxGeneration,
   paused : BOOLEAN, trigger : BOOLEAN, deleting : BOOLEAN, finalizer : BOOLEAN,
   conditions : ConditionLists, observed : 0..MaxGeneration,
   lastBackup : Names \cup {0}, backupHistory : SUBSET Names, next : BOOLEAN]

NoObject ==
  [live |-> FALSE, schedule |-> "none", generation |-> 0, paused |-> FALSE,
   trigger |-> FALSE, deleting |-> FALSE, finalizer |-> FALSE,
   conditions |-> {}, observed |-> 0, lastBackup |-> 0, backupHistory |-> {},
   next |-> FALSE]

Calls == {"idle", "add_finalizer", "resolve_cluster", "build_config",
          "apply_config_map", "apply_cronjob", "update_status_scheduled",
          "list_jobs", "create_job", "update_status_running", "remove_trigger",
          "check_job_completion", "update_status_completed",
          "update_status_failed", "update_status_error", "update_status_paused",
          "cleanup_list", "cleanup_jobs", "cleanup_cronjob",
          "cleanup_config_map", "remove_finalizer"}

JobNames == {j \in Names : jobs[j] # Absent}

Terminal == {j \in JobNames : job_succeeded(jobs[j]) \/ job_failed(jobs[j])}

\* The terminal Job with the latest start time, if there is a terminal Job.
Latest == Max(Terminal)

\* More runs than can be asked for within the bounds: the history stops counting.
MaxRuns == MaxTriggers + MaxGeneration + MaxFaults + 2

Init ==
  /\ obj = NoObject /\ cache = NoObject /\ snap = NoObject
  /\ jobs = [j \in Names |-> Absent]
  /\ cronJob = "absent" /\ configMap = FALSE /\ missing = {}
  /\ pc = "idle" /\ found = 0 /\ todo = {}
  /\ clock = 1 /\ lastTransition = FALSE
  /\ toggles = 0 /\ triggers = 0 /\ faults = 0
  /\ requests = 0 /\ runs = 0 /\ everActive = FALSE

-----------------------------------------------------------------------------
(***************************************************************************)
(* The steps of reconcile_backup.                                          *)
(***************************************************************************)

\* The operator goes on to `call`; returning ("idle") drops what it holds.
Goto(call) ==
  /\ pc' = call
  /\ snap' = IF call = "idle" THEN NoObject ELSE snap

\* An API call on an object that is gone answers 404, which ends the
\* reconciliation with an error.
NotFound ==
  /\ ~ obj.live
  /\ Goto("idle") /\ found' = 0 /\ todo' = {}
  /\ UNCHANGED <<kube, history, bounds, cache, lastTransition>>

\* Mutant: the observed generation alone shows the pause as reported.
PauseReportedByGeneration(o) == o.observed = o.generation

PauseReported(o) ==
  /\ is_condition_true(o.conditions, "ReconciliationPaused")
  /\ o.observed = o.generation

\* Mutants: no finalizer is added; it is added before the pause is looked at; the
\* pause is looked at before the deletion.
FirstCallWithoutFinalizer(o) ==
  IF o.deleting THEN "cleanup_list"
  ELSE IF o.paused THEN IF PauseReported(o) THEN "idle" ELSE "update_status_paused"
  ELSE "resolve_cluster"
FirstCallFinalizerFirst(o) ==
  IF o.deleting THEN "cleanup_list"
  ELSE IF ~ o.finalizer THEN "add_finalizer"
  ELSE IF o.paused THEN IF PauseReported(o) THEN "idle" ELSE "update_status_paused"
  ELSE "resolve_cluster"
FirstCallPauseFirst(o) ==
  IF o.paused THEN IF PauseReported(o) THEN "idle" ELSE "update_status_paused"
  ELSE IF o.deleting THEN "cleanup_list"
  ELSE IF ~ o.finalizer THEN "add_finalizer"
  ELSE "resolve_cluster"

FirstCall(o) ==
  IF o.deleting THEN "cleanup_list"
  ELSE IF o.paused THEN IF PauseReported(o) THEN "idle" ELSE "update_status_paused"
  ELSE IF ~ o.finalizer THEN "add_finalizer"
  ELSE "resolve_cluster"

StartReconcile ==
  /\ pc = "idle" /\ cache.live
  /\ CacheLag \/ cache = obj
  /\ FirstCall(cache) # "idle"
  /\ pc' = FirstCall(cache)
  /\ snap' = cache
  /\ UNCHANGED <<kube, history, bounds, cache, found, todo, lastTransition>>

AddFinalizer ==
  /\ pc = "add_finalizer"
  /\ \/ NotFound
     \/ /\ obj.live
        /\ obj' = [obj EXCEPT !.finalizer = TRUE]
        /\ Goto("resolve_cluster")
        /\ UNCHANGED <<jobs, cronJob, configMap, missing, clock, history, bounds,
                       cache, found, todo, lastTransition>>

ResolveCluster ==
  /\ pc = "resolve_cluster"
  /\ Goto(IF "cluster" \in missing THEN "update_status_error" ELSE "build_config")
  /\ UNCHANGED <<kube, history, bounds, cache, found, todo, lastTransition>>

\* resolve_auth and build_backup_config_yaml: an error is returned without
\* touching the status.
BuildConfig ==
  /\ pc = "build_config"
  /\ Goto(IF "config" \in missing THEN "idle" ELSE "apply_config_map")
  /\ UNCHANGED <<kube, history, bounds, cache, found, todo, lastTransition>>

\* Step 7 runs for a one-shot backup and for a manual trigger.
AfterSchedule(o) ==
  IF o.schedule = "none" \/ o.trigger THEN "list_jobs" ELSE "check_job_completion"

CreateOrUpdateConfigMap ==
  /\ pc = "apply_config_map"
  /\ configMap' = TRUE
  /\ Goto(IF snap.schedule = "none" THEN AfterSchedule(snap) ELSE "apply_cronjob")
  /\ UNCHANGED <<obj, jobs, cronJob, missing, clock, history, bounds, cache, found,
                 todo, lastTransition>>

\* What is kept of the CronJob built for the spec: its suspend flag.
build_backup_cronjob(o) == IF o.schedule = "suspended" THEN "suspended" ELSE "active"

\* Mutant: a suspended schedule is skipped.
ApplyCronJobUnlessSuspended ==
  /\ pc = "apply_cronjob"
  /\ cronJob' = IF snap.schedule = "suspended" THEN cronJob ELSE snap.schedule
  /\ Goto("update_status_scheduled")
  /\ UNCHANGED <<obj, jobs, configMap, missing, clock, history, bounds, cache, found,
                 todo, lastTransition>>

\* The CronJob is applied, suspended or not.  Nothing deletes it when the
\* schedule is removed from the spec.
ApplyCronJob ==
  /\ pc = "apply_cronjob"
  /\ cronJob' = build_backup_cronjob(snap)
  /\ Goto("update_status_scheduled")
  /\ UNCHANGED <<obj, jobs, configMap, missing, clock, history, bounds, cache, found,
                 todo, lastTransition>>

\* Patch the status fields that `new` changes in the current object.
PatchStatus(new, call) ==
  /\ obj.live
  /\ obj' = [new EXCEPT !.observed = snap.generation]
  /\ lastTransition' = ~ lastTransition
  /\ Goto(call) /\ found' = 0
  /\ UNCHANGED <<jobs, cronJob, configMap, missing, clock, history, bounds, cache,
                 todo>>

\* Mutant: the reason is not compared.
AlreadyObserved(reason, next) == obj.next = next /\ obj.observed = snap.generation

\* The current status already says `reason`, so the patch is skipped.
AlreadyCurrent(reason, next) ==
  /\ has_condition_reason(obj.conditions, "Ready", reason)
  /\ obj.next = next /\ obj.observed = snap.generation

\* update_status_scheduled and update_status_suspended, from the fresh status.
UpdateStatusScheduled ==
  LET suspended == snap.schedule = "suspended"
      reason == IF suspended THEN "BackupSuspended" ELSE "BackupScheduled"
      after == AfterSchedule(snap)
  IN /\ pc = "update_status_scheduled"
     /\ \/ NotFound
        \/ /\ obj.live /\ AlreadyCurrent(reason, ~ suspended)
           /\ Goto(after)
           /\ UNCHANGED <<kube, history, bounds, cache, found, todo, lastTransition>>
        \/ /\ ~ AlreadyCurrent(reason, ~ suspended)
           /\ PatchStatus([obj EXCEPT !.conditions = {ready(reason)},
                                      !.next = ~ suspended], after)

\* Mutant: the trigger is never removed.
AfterCreateKeepsTrigger(o) == "check_job_completion"

\* The call after Step 7: the trigger is removed if the snapshot had it.
AfterCreate(o) == IF o.trigger THEN "remove_trigger" ELSE "check_job_completion"

ListJobs ==
  /\ pc = "list_jobs"
  /\ Goto(IF should_create_backup_job(classify_jobs({jobs[j] : j \in JobNames}),
                                      snap.trigger)
          THEN "create_job" ELSE AfterCreate(snap))
  /\ UNCHANGED <<kube, history, bounds, cache, found, todo, lastTransition>>

\* What is kept of the Job that is built: it has no status yet.
build_backup_job == "pending"

\* A second Job of the same second is refused (AlreadyExists).
CreateJob ==
  /\ pc = "create_job"
  /\ IF jobs[OneShotName] = Absent
     THEN /\ jobs' = [jobs EXCEPT ![OneShotName] = build_backup_job]
          /\ runs' = Min({runs + 1, MaxRuns})
          /\ Goto("update_status_running")
     ELSE Goto("idle") /\ UNCHANGED <<jobs, runs>>
  /\ UNCHANGED <<obj, cronJob, configMap, missing, clock, bounds, requests,
                 everActive, cache, found, todo, lastTransition>>

UpdateStatusRunning ==
  /\ pc = "update_status_running"
  /\ \/ NotFound
     \/ PatchStatus([obj EXCEPT !.conditions = Running], AfterCreate(snap))

\* A merge patch to null: whatever the annotation says now is removed.
RemoveTriggerAnnotation ==
  /\ pc = "remove_trigger"
  /\ \/ NotFound
     \/ /\ obj.live
        /\ obj' = [obj EXCEPT !.trigger = FALSE]
        /\ Goto("check_job_completion")
        /\ UNCHANGED <<jobs, cronJob, configMap, missing, clock, history, bounds,
                       cache, found, todo, lastTransition>>

\* Mutants: any recorded outcome counts; none does.
AnyRecorded(o, j) ==
  \/ o.lastBackup # 0
  \/ \E k \in Names : has_condition_message(o.conditions, "Error", k)
NeverRecorded(o, j) == FALSE

\* Whether the snapshot already records the outcome of Job j.
AlreadyRecorded(o, j) ==
  IF job_succeeded(jobs[j]) THEN o.lastBackup = j
  ELSE has_condition_message(o.conditions, "Error", j)

\* The outcome of the latest terminal Job is recorded unless the snapshot has it.
CheckJobCompletion ==
  /\ pc = "check_job_completion"
  /\ IF Terminal = {} \/ AlreadyRecorded(snap, Latest)
     THEN Goto("idle") /\ UNCHANGED found
     ELSE /\ found' = Latest
          /\ Goto(IF job_succeeded(jobs[Latest])
                  THEN "update_status_completed" ELSE "update_status_failed")
  /\ UNCHANGED <<kube, history, bounds, cache, todo, lastTransition>>

\* Mutants: the condition is added to the others; the history is replaced.
UpdateStatusCompletedAppends ==
  /\ pc = "update_status_completed"
  /\ \/ NotFound
     \/ PatchStatus([obj EXCEPT !.conditions = @ \cup Completed, !.lastBackup = found,
                                !.backupHistory = @ \cup {found}], "idle")
UpdateStatusCompletedReplaces ==
  /\ pc = "update_status_completed"
  /\ \/ NotFound
     \/ PatchStatus([obj EXCEPT !.conditions = Completed, !.lastBackup = found,
                                !.backupHistory = {found}], "idle")

UpdateStatusCompleted ==
  /\ pc = "update_status_completed"
  /\ \/ NotFound
     \/ PatchStatus([obj EXCEPT !.conditions = Completed, !.lastBackup = found,
                                !.backupHistory = @ \cup {found}], "idle")

UpdateStatusFailed ==
  /\ pc = "update_status_failed"
  /\ \/ NotFound
     \/ PatchStatus([obj EXCEPT !.conditions = JobFailed(found)], "idle")

UpdateStatusError ==
  /\ pc = "update_status_error"
  /\ \/ NotFound
     \/ PatchStatus([obj EXCEPT !.conditions = Unresolved], "idle")

\* The status of the SNAPSHOT with the pause condition: a merge patch, so what the
\* snapshot has no value for stays as it is.
UpdateStatusReconciliationPaused ==
  /\ pc = "update_status_paused"
  /\ \/ NotFound
     \/ PatchStatus(
          [obj EXCEPT
             !.conditions = Paused,
             !.lastBackup = IF snap.lastBackup = 0 THEN @ ELSE snap.lastBackup,
             !.backupHistory =
               IF snap.backupHistory = {} THEN @ ELSE snap.backupHistory,
             !.next = @ \/ snap.next], "idle")

(***************************************************************************)
(* handle_cleanup.  A failed list or delete is ignored: the owner          *)
(* references let the garbage collector finish, see GarbageCollect.        *)
(***************************************************************************)
CleanupList ==
  /\ pc = "cleanup_list"
  /\ todo' \in {JobNames, {}}
  /\ Goto("cleanup_jobs")
  /\ UNCHANGED <<kube, history, bounds, cache, found, lastTransition>>

CleanupJobs ==
  /\ pc = "cleanup_jobs"
  /\ \/ \E j \in todo : /\ todo' = todo \ {j}
                        /\ jobs' \in {[jobs EXCEPT ![j] = Absent], jobs}
                        /\ UNCHANGED <<pc, snap>>
     \/ todo = {} /\ Goto("cleanup_cronjob") /\ UNCHANGED <<jobs, todo>>
  /\ UNCHANGED <<obj, cronJob, configMap, missing, clock, history, bounds, cache,
                 found, lastTransition>>

CleanupCronJob ==
  /\ pc = "cleanup_cronjob"
  /\ cronJob' \in {"absent", cronJob}
  /\ Goto("cleanup_config_map")
  /\ UNCHANGED <<obj, jobs, configMap, missing, clock, history, bounds, cache,
                 found, todo, lastTransition>>

CleanupConfigMap ==
  /\ pc = "cleanup_config_map"
  /\ configMap' \in {FALSE, configMap}
  /\ Goto("remove_finalizer")
  /\ UNCHANGED <<obj, jobs, cronJob, missing, clock, history, bounds, cache, found,
                 todo, lastTransition>>

RemoveFinalizer ==
  /\ pc = "remove_finalizer"
  /\ \/ NotFound
     \/ /\ obj.live
        /\ obj' = [obj EXCEPT !.finalizer = FALSE, !.live = ~ obj.deleting]
        /\ Goto("idle")
        /\ UNCHANGED <<jobs, cronJob, configMap, missing, clock, history, bounds,
                       cache, found, todo, lastTransition>>

Reconcile ==
  \/ StartReconcile \/ AddFinalizer \/ ResolveCluster \/ BuildConfig
  \/ CreateOrUpdateConfigMap \/ ApplyCronJob \/ UpdateStatusScheduled \/ ListJobs
  \/ CreateJob \/ UpdateStatusRunning \/ RemoveTriggerAnnotation
  \/ CheckJobCompletion \/ UpdateStatusCompleted \/ UpdateStatusFailed
  \/ UpdateStatusError \/ UpdateStatusReconciliationPaused \/ CleanupList
  \/ CleanupJobs \/ CleanupCronJob \/ CleanupConfigMap \/ RemoveFinalizer

\* An API call fails or the process restarts.
Abort ==
  /\ pc # "idle" /\ faults < MaxFaults
  /\ Goto("idle") /\ found' = 0 /\ todo' = {}
  /\ faults' = faults + 1
  /\ UNCHANGED <<kube, history, toggles, triggers, cache, lastTransition>>

\* The watch delivers the object's current version.
SyncCache ==
  /\ cache # obj
  /\ cache' = obj
  /\ UNCHANGED <<kube, history, bounds, pc, snap, found, todo, lastTransition>>

-----------------------------------------------------------------------------
(***************************************************************************)
(* Kubernetes and the user.                                                *)
(***************************************************************************)

\* The CronJob controller starts a Job (concurrencyPolicy Forbid looks only at the
\* Jobs of the CronJob, which have the odd names).
CronFires ==
  /\ cronJob = "active" /\ jobs[CronName] = Absent
  /\ \A j \in JobNames : j % 2 = 1 => j \in Terminal
  /\ jobs' = [jobs EXCEPT ![CronName] = "pending"]
  /\ UNCHANGED <<obj, cronJob, configMap, missing, clock, operator, history, bounds,
                 lastTransition>>

JobRuns ==
  /\ \E j \in JobNames :
       \E step \in {<<"pending", "active">>, <<"active", "pending">>,
                    <<"active", "succeeded">>, <<"active", "failed">>} :
         jobs[j] = step[1] /\ jobs' = [jobs EXCEPT ![j] = step[2]]
  /\ UNCHANGED <<obj, cronJob, configMap, missing, clock, operator, history, bounds,
                 lastTransition>>

\* The CronJob controller keeps the newest of the CronJob's own Jobs of each outcome
\* (three in the code, one here); a user may delete any Job.
JobDeleted ==
  /\ \E j \in JobNames :
       /\ \/ JobDeletion = "anybody"
          \/ /\ JobDeletion = "history_limit"
             /\ j \in Terminal /\ j % 2 = 1
             /\ \E k \in Terminal : k % 2 = 1 /\ k > j /\ jobs[k] = jobs[j]
       /\ jobs' = [jobs EXCEPT ![j] = Absent]
  /\ UNCHANGED <<obj, cronJob, configMap, missing, clock, operator, history, bounds,
                 lastTransition>>

GarbageCollect ==
  /\ ~ obj.live /\ (JobNames # {} \/ cronJob # "absent" \/ configMap)
  /\ jobs' = [j \in Names |-> Absent] /\ cronJob' = "absent" /\ configMap' = FALSE
  /\ UNCHANGED <<obj, missing, clock, operator, history, bounds, lastTransition>>

Tick ==
  /\ clock < MaxClock
  /\ clock' = clock + 1
  /\ UNCHANGED <<obj, jobs, cronJob, configMap, missing, operator, history, bounds,
                 lastTransition>>

DependencyChanges ==
  /\ \E d \in Dependencies :
       missing' = IF d \in missing THEN missing \ {d} ELSE missing \cup {d}
  /\ UNCHANGED <<obj, jobs, cronJob, configMap, clock, operator, history, bounds,
                 lastTransition>>

UserCreates ==
  /\ obj = NoObject
  /\ \E p \in BOOLEAN, s \in Schedules :
       /\ obj' = [NoObject EXCEPT !.live = TRUE, !.generation = 1, !.paused = p,
                                  !.schedule = s]
       /\ requests' = IF s = "none" THEN 1 ELSE 0
       /\ everActive' = ~ p
  /\ UNCHANGED <<jobs, cronJob, configMap, missing, clock, operator, bounds, runs,
                 lastTransition>>

UserTogglesPause ==
  /\ obj.live /\ toggles < MaxToggles
  /\ obj' = [obj EXCEPT !.paused = ~ @]
  /\ toggles' = toggles + 1
  /\ everActive' = (everActive \/ obj.paused)
  /\ UNCHANGED <<jobs, cronJob, configMap, missing, clock, operator, triggers,
                 faults, requests, runs, lastTransition>>

UserTriggers ==
  /\ obj.live /\ ~ obj.trigger /\ triggers < MaxTriggers
  /\ obj' = [obj EXCEPT !.trigger = TRUE]
  /\ triggers' = triggers + 1 /\ requests' = requests + 1
  /\ UNCHANGED <<jobs, cronJob, configMap, missing, clock, operator, toggles,
                 faults, runs, everActive, lastTransition>>

\* An edit of the schedule; removing it asks for a one-shot run.
UserEditsSchedule ==
  /\ obj.live /\ obj.generation < MaxGeneration
  /\ \E s \in Schedules \ {obj.schedule} :
       /\ obj' = [obj EXCEPT !.schedule = s, !.generation = @ + 1]
       /\ requests' = IF s = "none" THEN requests + 1 ELSE requests
  /\ UNCHANGED <<jobs, cronJob, configMap, missing, clock, operator, bounds, runs,
                 everActive, lastTransition>>

UserDeletes ==
  /\ obj.live /\ ~ obj.deleting
  /\ obj' = IF obj.finalizer THEN [obj EXCEPT !.deleting = TRUE]
            ELSE [obj EXCEPT !.live = FALSE]
  /\ UNCHANGED <<jobs, cronJob, configMap, missing, clock, operator, history, bounds,
                 lastTransition>>

Environment ==
  \/ CronFires \/ JobRuns \/ JobDeleted \/ GarbageCollect \/ Tick
  \/ DependencyChanges \/ UserCreates \/ UserTogglesPause \/ UserTriggers
  \/ UserEditsSchedule \/ UserDeletes

Next == Reconcile \/ Abort \/ SyncCache \/ Environment

Spec == Init /\ [][Next]_vars

\* The controller keeps reconciling, an await that is not aborted completes, the
\* watch delivers and time passes.  Nothing is assumed of the user, of the
\* dependencies, of the CronJob's schedule or of how long a Job takes.
Fairness == WF_vars(Reconcile) /\ WF_vars(SyncCache) /\ WF_vars(Tick)

FairSpec == Spec /\ Fairness

-----------------------------------------------------------------------------
\* The types of all variables.
TypeOK ==
  /\ obj \in Objects /\ cache \in Objects /\ snap \in Objects
  /\ jobs \in [Names -> Phases \cup {Absent}]
  /\ cronJob \in {"absent", "active", "suspended"}
  /\ configMap \in BOOLEAN /\ missing \subseteq Dependencies
  /\ pc \in Calls /\ found \in Names \cup {0} /\ todo \subseteq Names
  /\ clock \in 1..MaxClock /\ lastTransition \in BOOLEAN
  /\ toggles \in 0..MaxToggles /\ triggers \in 0..MaxTriggers
  /\ faults \in 0..MaxFaults
  /\ requests \in 0..(MaxTriggers + MaxGeneration) /\ runs \in 0..MaxRuns
  /\ everActive \in BOOLEAN

\* The operator starts no more Jobs than runs were asked for: one for a spec without
\* a schedule, one for each manual trigger (issue #29: backups were re-run on every
\* requeue).  A call that fails or a restart between the Job's creation and the removal
\* of the trigger makes the trigger count again, so each of them may cost one run more.
OneRunPerRequest == runs <= requests + faults

\* Whatever the operator created for a live object is covered by the finalizer, so
\* that a deletion always goes through handle_cleanup.
FinalizerGuardsResources ==
  obj.live /\ (JobNames # {} \/ cronJob # "absent" \/ configMap) => obj.finalizer

\* A resource created paused and never resumed gains no finalizer, ConfigMap, Job or
\* CronJob, even when it is triggered or edited meanwhile.
PausedFromBirthIsInert ==
  obj.live /\ ~ everActive =>
    ~ obj.finalizer /\ ~ configMap /\ JobNames = {} /\ cronJob = "absent"

\* What the status records of the backups taken is not lost: the history keeps its
\* entries and lastBackup does not fall back to an older backup.
RecordStays ==
  [][obj.live /\ obj'.live =>
       /\ obj.backupHistory \subseteq obj'.backupHistory
       /\ obj.lastBackup <= obj'.lastBackup]_vars

\* The bounded clock has stopped in a second whose Job name is taken, so a triggered
\* run finds no name.
OutOfNames == obj.trigger /\ clock = MaxClock /\ jobs[OneShotName] # Absent

\* The object is neither paused nor being deleted and its dependencies are there.
Settled ==
  /\ obj.live /\ ~ obj.deleting /\ ~ obj.paused
  /\ missing = {} /\ ~ OutOfNames

\* Once a one-shot backup is left alone, the outcome of its latest finished Job
\* comes to be recorded and stays recorded.
OutcomeRecorded ==
  /\ <>[](Settled /\ Terminal # {} /\ job_succeeded(jobs[Latest]))
       => <>[](\E j \in Terminal : j = Latest /\ obj.lastBackup = j
                                     /\ j \in obj.backupHistory)
  /\ <>[](Settled /\ Terminal = JobNames /\ Terminal # {} /\ job_failed(jobs[Latest]))
       => <>[](\E j \in Terminal : /\ j = Latest
                                   /\ has_condition_message(obj.conditions, "Error", j))

\* A trigger is consumed, also when the run it asks for is refused or the operator
\* stops between creating the Job and removing the annotation.
TriggerConsumed == <>[]Settled => <>[](~ obj.trigger)

\* A deletion is not stranded on the finalizer, paused or not.
DeletionCompletes == obj.live /\ obj.deleting ~> ~ obj.live

\* Status patches stop once nothing changes any more, provided the cluster resolves.
\* check_job_completion: "Record only the most recent terminal Job, and only once".
StatusSettles ==
  <>[]("cluster" \notin missing) => <>[][UNCHANGED lastTransition]_vars

\* An active or suspended schedule reaches the CronJob, whatever it was before.
CronJobFollowsSchedule ==
  \A s \in {"active", "suspended"} :
    <>[](Settled /\ obj.schedule = s) => <>[](cronJob = s)

\* The ReconciliationPaused condition comes to agree with the annotation.
PauseIsTracked ==
  /\ <>[](obj.live /\ ~ obj.deleting /\ obj.paused)
       => <>[](/\ is_condition_true(obj.conditions, "ReconciliationPaused")
               /\ obj.observed = obj.generation)
  /\ <>[]Settled
       => <>[](~ is_condition_true(obj.conditions, "ReconciliationPaused"))

\* A cluster error is not reported for ever once the cluster is there.
ErrorClears ==
  <>[]Settled
    => <>[](~ has_condition_reason(obj.conditions, "Error", "ClusterNotFound"))

-----------------------------------------------------------------------------
(***************************************************************************)
(* The inductive invariant behind FinalizerGuardsResources and             *)
(* PausedFromBirthIsInert.                                                 *)
(***************************************************************************)
CleanupCalls == {"cleanup_list", "cleanup_jobs", "cleanup_cronjob",
                 "cleanup_config_map", "remove_finalizer"}

\* The calls of a reconciliation that has passed the pause and the finalizer.
WorkCalls == Calls \ (CleanupCalls \cup {"idle", "add_finalizer", "update_status_paused"})

HasResources == JobNames # {} \/ cronJob # "absent" \/ configMap

\* A run is asked for by the user's trigger or by a generation of the spec.
RequestsBounded == requests <= triggers + obj.generation

\* An outcome is recorded of a Job that was found.
FoundIsJob == pc \in {"update_status_completed", "update_status_failed"} => found # 0

TypeInv == TypeOK /\ RequestsBounded /\ FoundIsJob

\* Before the object is created nothing has happened.
NothingBefore ==
  obj.generation = 0 =>
    /\ obj = NoObject /\ ~ cache.live /\ pc = "idle" /\ ~ HasResources
    /\ runs = 0 /\ triggers = 0

\* What the operator holds is an earlier version of the object: a finalizer or a
\* deletion it has seen is still there.
HeldIsEarlier ==
  /\ cache.live => /\ cache.deleting => obj.deleting
                   /\ cache.finalizer /\ obj.live => obj.finalizer
  /\ pc \in CleanupCalls => obj.deleting
  /\ pc \in WorkCalls /\ obj.live => obj.finalizer

\* What is done for the object is done after it was seen without the annotation.
OnlyForActive ==
  /\ obj.live /\ (~ obj.paused \/ obj.finalizer) => everActive
  /\ HasResources => everActive
  /\ cache.live /\ ~ cache.paused => everActive
  /\ pc \in WorkCalls \cup {"add_finalizer"} => everActive

GuardInv ==
  /\ TypeInv /\ NothingBefore /\ HeldIsEarlier /\ OnlyForActive
  /\ FinalizerGuardsResources

(***************************************************************************)
(* What OneRunPerRequest and RecordStays need besides, when the cache is   *)
(* read current and nobody but the history limit deletes Jobs.             *)
(***************************************************************************)
\* The object cannot go while it is worked on, and the finalizer is added to an object
\* that nobody deletes.
WorkIsLive ==
  /\ pc \in WorkCalls => obj.live
  /\ pc = "add_finalizer" /\ obj.live => ~ obj.finalizer /\ ~ obj.deleting

\* The Jobs have not been cleaned up.
Kept == obj.live /\ (~ obj.deleting \/ pc \in WorkCalls)

\* The calls up to the one that starts a run.
BeforeRun == {"add_finalizer", "resolve_cluster", "build_config", "apply_config_map",
              "apply_cronjob", "update_status_scheduled", "list_jobs", "create_job"}

\* The run the trigger asks for has been started or refused.
TriggerServed == pc \in {"update_status_running", "remove_trigger"} /\ snap.trigger

\* A trigger still to be served, for the first time or again after a fault, leaves room
\* for its run, and so does a spec without a schedule until the first run, whose Job then
\* stays and prevents another.
RunsAreAsked ==
  /\ triggers <= requests
  /\ obj.schedule = "none" /\ obj.generation # 0 => triggers < requests
  /\ obj.trigger => triggers > 0
  /\ obj.trigger /\ ~ TriggerServed => runs < requests + faults
  /\ runs > 0 /\ Kept => \E j \in JobNames : j % 2 = 0
  /\ pc \in BeforeRun =>
       /\ snap.trigger => obj.trigger
       /\ snap.schedule = "none" => triggers < requests
  /\ pc \in {"list_jobs", "create_job"} => snap.trigger \/ snap.schedule = "none"
  /\ pc = "create_job" => snap.trigger \/ runs = 0

RunsInv == GuardInv /\ WorkIsLive /\ RunsAreAsked /\ OneRunPerRequest

\* A finished Job at least as new as the recorded one is there, and what a patch under
\* way brings is not behind the record.
RecordIsCurrent ==
  /\ Kept /\ obj.lastBackup # 0 => \E j \in Terminal : obj.lastBackup <= j
  /\ pc = "update_status_completed" =>
       obj.lastBackup <= found /\ \E j \in Terminal : found <= j
  /\ pc = "update_status_paused" => /\ snap.lastBackup = obj.lastBackup
                                    /\ snap.backupHistory = obj.backupHistory

RecordInv == GuardInv /\ WorkIsLive /\ RecordIsCurrent
=============================================================================
