-------------------------- MODULE RestoreReconciler --------------------------
(***************************************************************************)
(* The KafkaRestore controller (src/reconcilers/restore.rs, driven by      *)
(* src/controllers/restore.rs) for one resource name, with the parts of    *)
(* Kubernetes it works against: the API server's object, the watch cache   *)
(* its snapshots come from, the Jobs, the Job controller, the garbage      *)
(* collector and the user.                                                 *)
(*                                                                         *)
(* A reconciliation reads the cached object once and then awaits one API   *)
(* call after another; pc[r] names the call replica r is about to make.    *)
(* An operation is applied to whatever object has the name at that moment, *)
(* which need not be the one the snapshot was taken from.  A Job is named  *)
(* after the second it is created in, so Job names are the values of the   *)
(* clock.                                                                  *)
(***************************************************************************)
EXTENDS Naturals, FiniteSets, Conditions, JobState

CONSTANTS
  Replicas,       \* operator processes running (the code elects no leader)
  Dependencies,   \* what of the restore's dependencies may be missing
  CacheLag,       \* whether the watch cache may lag behind the API server
  PromptRecreate, \* whether a name may be reused before the operator noticed
  CleanupErrors,  \* whether a delete of handle_cleanup may fail (ignored)
  MaxClock,       \* bound: seconds, hence distinct Job names
  MaxUid,         \* bound: objects created under the name, one at a time
  MaxGeneration,  \* bound: spec generations of an object
  MaxToggles,     \* bound: times the pause annotation is set or removed
  MaxFaults,      \* bound: failed API calls and operator restarts
  MaxDeletedJobs  \* bound: Jobs deleted by somebody other than the operator

ASSUME RestoreConstants ==
  /\ Dependencies \subseteq {"backup", "cluster", "config"}
  /\ CacheLag \in BOOLEAN /\ PromptRecreate \in BOOLEAN
  /\ CleanupErrors \in BOOLEAN
  /\ MaxClock \in Nat \ {0} /\ MaxUid \in Nat /\ MaxGeneration \in Nat \ {0}
  /\ MaxToggles \in Nat /\ MaxFaults \in Nat /\ MaxDeletedJobs \in Nat

VARIABLES
  obj,            \* the KafkaRestore the API server holds
  jobs,           \* phase of the Job of each name, Absent if there is none
  owner,          \* uid in the ownerReference of the Job of each name
  configMap,      \* uid owning <name>-config, 0 if there is none
  missing,        \* dependencies that cannot be resolved now
  cache,          \* per replica, the object in its watch cache
  pc,             \* per replica, the API call it is about to make
  snap,           \* per replica, the object its reconciliation was given
  todo,           \* per replica, the Jobs its cleanup has yet to delete
  clock,          \* current second
  lastTransition, \* flips whenever a patch writes new lastTransitionTimes
  toggles, faults, deleted,   \* how much of the bounds is used up
  created,        \* history: Jobs created for each uid (2: several)
  succeeded,      \* history: uids one of whose Jobs succeeded
  everActive      \* history: uids seen without the pause annotation

kube == <<obj, jobs, owner, configMap, missing, clock>>
operator == <<cache, pc, snap, todo>>
history == <<created, succeeded, everActive>>
bounds == <<toggles, faults, deleted>>
vars == <<obj, jobs, owner, configMap, missing, clock, cache, pc, snap, todo,
          lastTransition, toggles, faults, deleted, created, succeeded,
          everActive>>

Seconds == 1..MaxClock
Uids == 1..MaxUid

(***************************************************************************)
(* The status conditions the restore reconciler writes.                    *)
(***************************************************************************)
Running == {not_ready("RestoreRunning", 0)}

Completed == {ready("RestoreCompleted"),
              new_condition("RestoreComplete", TRUE, "RestoreCompleted", 0)}

Failed == error_conditions("RestoreFailed", 0)

Unresolved == error_conditions("ClusterNotFound", 0)

Paused == {reconciliation_paused}

ConditionLists == {{}, Running, Completed, Failed, Unresolved, Paused}

Objects ==
  [live : BOOLEAN, uid : 0..MaxUid, generation : 0..MaxGeneration,
   paused : BOOLEAN, deleting : BOOLEAN, finalizer : BOOLEAN,
   conditions : ConditionLists, observed : 0..MaxGeneration, info : BOOLEAN]

NoObject ==
  [live |-> FALSE, uid |-> 0, generation |-> 0, paused |-> FALSE,
   deleting |-> FALSE, finalizer |-> FALSE, conditions |-> {},
   observed |-> 0, info |-> FALSE]

Calls == {"idle", "add_finalizer", "list_jobs", "get_backup", "resolve_cluster",
          "build_config", "apply_config_map", "create_job",
          "update_status_running", "update_status_completed",
          "update_status_failed", "update_status_error",
          "update_status_paused", "cleanup_list", "cleanup_jobs",
          "cleanup_config_map", "remove_finalizer"}

JobNames == {j \in Seconds : jobs[j] # Absent}

IsComplete(o) == is_condition_true(o.conditions, "RestoreComplete")

Init ==
  /\ obj = NoObject
  /\ jobs = [j \in Seconds |-> Absent]
  /\ owner = [j \in Seconds |-> 0]
  /\ configMap = 0
  /\ missing = {}
  /\ cache = [r \in Replicas |-> NoObject]
  /\ pc = [r \in Replicas |-> "idle"]
  /\ snap = [r \in Replicas |-> NoObject]
  /\ todo = [r \in Replicas |-> {}]
  /\ clock = 1
  /\ lastTransition = FALSE
  /\ toggles = 0 /\ faults = 0 /\ deleted = 0
  /\ created = [u \in Uids |-> 0]
  /\ succeeded = {}
  /\ everActive = {}

-----------------------------------------------------------------------------
(***************************************************************************)
(* The steps of reconcile_restore.                                         *)
(***************************************************************************)
\* Replica r goes on to `call`; returning ("idle") drops the snapshot.
Goto(r, call) ==
  /\ pc' = [pc EXCEPT ![r] = call]
  /\ snap' = [snap EXCEPT ![r] = IF call = "idle" THEN NoObject ELSE @]

\* Every API call on an object that is gone answers 404; the reconciliation
\* returns the error and error_policy requeues it.
NotFound(r) ==
  /\ ~ obj.live
  /\ Goto(r, "idle")
  /\ UNCHANGED <<kube, history, bounds, cache, todo, lastTransition>>

\* Mutant: the completed check is dropped.
AfterFinalizerUnchecked(o) == "list_jobs"

\* The check that follows the finalizer: a snapshot that is already complete
\* ends the reconciliation.
AfterFinalizer(o) == IF IsComplete(o) THEN "idle" ELSE "list_jobs"

\* Mutant: a status of this generation is taken for a reported pause.
PauseReportedByGeneration(o) == o.observed = o.generation

\* update_status_reconciliation_paused returns early when it has reported the
\* pause for this generation.
PauseReported(o) ==
  /\ is_condition_true(o.conditions, "ReconciliationPaused")
  /\ o.observed = o.generation

\* Mutants: the finalizer is forgotten; it is added before the pause check; the
\* pause is checked before the deletion; the deletion mark is not looked at.
FirstCallWithoutFinalizer(o) ==
  IF o.deleting THEN "cleanup_list"
  ELSE IF o.paused THEN IF PauseReported(o) THEN "idle" ELSE "update_status_paused"
  ELSE AfterFinalizer(o)

FirstCallFinalizerFirst(o) ==
  IF o.deleting THEN "cleanup_list"
  ELSE IF ~ o.finalizer THEN "add_finalizer"
  ELSE IF o.paused THEN IF PauseReported(o) THEN "idle" ELSE "update_status_paused"
  ELSE AfterFinalizer(o)

FirstCallPauseFirst(o) ==
  IF o.paused THEN IF PauseReported(o) THEN "idle" ELSE "update_status_paused"
  ELSE IF o.deleting THEN "cleanup_list"
  ELSE IF ~ o.finalizer THEN "add_finalizer"
  ELSE AfterFinalizer(o)

FirstCallIgnoresDeletion(o) ==
  IF o.paused THEN IF PauseReported(o) THEN "idle" ELSE "update_status_paused"
  ELSE IF ~ o.finalizer THEN "add_finalizer"
  ELSE AfterFinalizer(o)

\* The branches of reconcile_restore before its first API call.
FirstCall(o) ==
  IF o.deleting THEN "cleanup_list"
  ELSE IF o.paused THEN IF PauseReported(o) THEN "idle" ELSE "update_status_paused"
  ELSE IF ~ o.finalizer THEN "add_finalizer"
  ELSE AfterFinalizer(o)

\* A watch event, a Job event or the 300 s requeue starts a reconciliation; the
\* controller serialises the reconciliations of one object.
StartReconcile(r) ==
  /\ pc[r] = "idle" /\ cache[r].live
  /\ CacheLag \/ cache[r] = obj
  /\ FirstCall(cache[r]) # "idle"
  /\ pc' = [pc EXCEPT ![r] = FirstCall(cache[r])]
  /\ snap' = [snap EXCEPT ![r] = cache[r]]
  /\ UNCHANGED <<kube, history, bounds, cache, todo, lastTransition>>

AddFinalizer(r) ==
  /\ pc[r] = "add_finalizer"
  /\ \/ NotFound(r)
     \/ /\ obj.live
        /\ obj' = [obj EXCEPT !.finalizer = TRUE]
        /\ Goto(r, AfterFinalizer(snap[r]))
        /\ UNCHANGED <<jobs, owner, configMap, missing, clock, history, bounds,
                       cache, todo, lastTransition>>

\* Mutants: any Error condition is taken for the reported failure; a failure is
\* reported on every pass.
CallForAnyError(state, o) ==
  CASE state = "Succeeded" -> "update_status_completed"
    [] state = "Failed" ->
         IF is_condition_true(o.conditions, "Error")
         THEN "idle" ELSE "update_status_failed"
    [] state = "InProgress" ->
         IF has_condition_reason(o.conditions, "Ready", "RestoreRunning")
         THEN "idle" ELSE "update_status_running"
    [] should_create_restore_job(state) -> "get_backup"

CallForRepeatsFailure(state, o) ==
  CASE state = "Succeeded" -> "update_status_completed"
    [] state = "Failed" -> "update_status_failed"
    [] state = "InProgress" ->
         IF has_condition_reason(o.conditions, "Ready", "RestoreRunning")
         THEN "idle" ELSE "update_status_running"
    [] should_create_restore_job(state) -> "get_backup"

\* What reconcile_restore does about the Jobs it finds; the Failed and InProgress
\* outcomes are patched only if the snapshot does not show them yet.
CallFor(state, o) ==
  CASE state = "Succeeded" -> "update_status_completed"
    [] state = "Failed" ->
         IF has_condition_reason(o.conditions, "Error", "RestoreFailed")
         THEN "idle" ELSE "update_status_failed"
    [] state = "InProgress" ->
         IF has_condition_reason(o.conditions, "Ready", "RestoreRunning")
         THEN "idle" ELSE "update_status_running"
    [] should_create_restore_job(state) -> "get_backup"

ListJobs(r) ==
  /\ pc[r] = "list_jobs"
  /\ Goto(r, CallFor(classify_jobs({jobs[j] : j \in JobNames}), snap[r]))
  /\ UNCHANGED <<kube, history, bounds, cache, todo, lastTransition>>

\* BackupNotFound is returned without touching the status.
GetBackup(r) ==
  /\ pc[r] = "get_backup"
  /\ Goto(r, IF "backup" \in missing THEN "idle" ELSE "resolve_cluster")
  /\ UNCHANGED <<kube, history, bounds, cache, todo, lastTransition>>

ResolveCluster(r) ==
  /\ pc[r] = "resolve_cluster"
  /\ Goto(r, IF "cluster" \in missing THEN "update_status_error"
             ELSE "build_config")
  /\ UNCHANGED <<kube, history, bounds, cache, todo, lastTransition>>

\* resolve_auth and build_restore_config_yaml; "config" stands for everything
\* they reject, all of it returned without touching the status.  The CA secret
\* read before them is optional.
BuildConfig(r) ==
  /\ pc[r] = "build_config"
  /\ Goto(r, IF "config" \in missing THEN "idle" ELSE "apply_config_map")
  /\ UNCHANGED <<kube, history, bounds, cache, todo, lastTransition>>

CreateOrUpdateConfigMap(r) ==
  /\ pc[r] = "apply_config_map"
  /\ configMap' = snap[r].uid
  /\ Goto(r, "create_job")
  /\ UNCHANGED <<obj, jobs, owner, missing, clock, history, bounds, cache,
                 todo, lastTransition>>

\* The history counts none, one or several Jobs.
AtMostTwo(n) == IF n > 2 THEN 2 ELSE n

\* What is kept of the Job built for the snapshot: it has no status yet, and its
\* ownerReference names the snapshot's object.
build_restore_job(o) == [phase |-> "pending", owner |-> o.uid]

\* The Job is named after the current second: a second one of the same name is
\* refused (AlreadyExists), which ends the reconciliation with an error.
CreateJob(r) ==
  /\ pc[r] = "create_job"
  /\ IF jobs[clock] = Absent
     THEN /\ jobs' = [jobs EXCEPT ![clock] = build_restore_job(snap[r]).phase]
          /\ owner' = [owner EXCEPT ![clock] = build_restore_job(snap[r]).owner]
          /\ created' = [created EXCEPT ![snap[r].uid] = AtMostTwo(@ + 1)]
          /\ Goto(r, "update_status_running")
     ELSE /\ Goto(r, "idle")
          /\ UNCHANGED <<jobs, owner, created>>
  /\ UNCHANGED <<obj, configMap, missing, clock, succeeded, everActive, bounds,
                 cache, todo, lastTransition>>

\* patch_status: a merge patch, so a field the patch leaves out stays.
PatchStatus(r, call, conditions, info) ==
  /\ pc[r] = call
  /\ \/ NotFound(r)
     \/ /\ obj.live
        /\ obj' = [obj EXCEPT !.conditions = conditions,
                              !.observed = snap[r].generation, !.info = info]
        /\ lastTransition' = ~ lastTransition
        /\ Goto(r, "idle")
        /\ UNCHANGED <<jobs, owner, configMap, missing, clock, history, bounds,
                       cache, todo>>

UpdateStatusRunning(r) ==
  PatchStatus(r, "update_status_running", Running, obj.info)

\* Mutant: the new conditions are added to those of the snapshot.
UpdateStatusCompletedAppends(r) ==
  PatchStatus(r, "update_status_completed", Completed \cup snap[r].conditions, TRUE)

UpdateStatusCompleted(r) ==
  PatchStatus(r, "update_status_completed", Completed, TRUE)

UpdateStatusFailed(r) ==
  PatchStatus(r, "update_status_failed", Failed, obj.info)

UpdateStatusError(r) ==
  PatchStatus(r, "update_status_error", Unresolved, obj.info)

\* Patches the whole status of the snapshot, its `restore` field included when
\* the snapshot has one.
UpdateStatusReconciliationPaused(r) ==
  PatchStatus(r, "update_status_paused", Paused, obj.info \/ snap[r].info)

(***************************************************************************)
(* handle_cleanup: list, one delete per Job, the ConfigMap, the finalizer. *)
(* A failed list or delete is ignored.                                     *)
(***************************************************************************)
\* Mutant: the selector of the cleanup matches no Job.
CleanupListNothing(r) ==
  /\ pc[r] = "cleanup_list"
  /\ todo' = [todo EXCEPT ![r] = {}]
  /\ Goto(r, "cleanup_jobs")
  /\ UNCHANGED <<kube, history, bounds, cache, lastTransition>>

CleanupList(r) ==
  /\ pc[r] = "cleanup_list"
  /\ \/ todo' = [todo EXCEPT ![r] = JobNames]
     \/ CleanupErrors /\ todo' = [todo EXCEPT ![r] = {}]
  /\ Goto(r, "cleanup_jobs")
  /\ UNCHANGED <<kube, history, bounds, cache, lastTransition>>

CleanupJobs(r) ==
  /\ pc[r] = "cleanup_jobs"
  /\ \/ \E j \in todo[r] :
          /\ todo' = [todo EXCEPT ![r] = @ \ {j}]
          /\ \/ jobs' = [jobs EXCEPT ![j] = Absent]
             \/ CleanupErrors /\ UNCHANGED jobs
          /\ UNCHANGED <<pc, snap>>
     \/ todo[r] = {} /\ Goto(r, "cleanup_config_map") /\ UNCHANGED <<todo, jobs>>
  /\ UNCHANGED <<obj, owner, configMap, missing, clock, history, bounds, cache,
                 lastTransition>>

CleanupConfigMap(r) ==
  /\ pc[r] = "cleanup_config_map"
  /\ \/ configMap' = 0
     \/ CleanupErrors /\ UNCHANGED configMap
  /\ Goto(r, "remove_finalizer")
  /\ UNCHANGED <<obj, jobs, owner, missing, clock, history, bounds, cache,
                 todo, lastTransition>>

\* With its finalizers cleared, an object marked for deletion is gone.
RemoveFinalizer(r) ==
  /\ pc[r] = "remove_finalizer"
  /\ \/ NotFound(r)
     \/ /\ obj.live
        /\ obj' = [obj EXCEPT !.finalizer = FALSE, !.live = ~ obj.deleting]
        /\ Goto(r, "idle")
        /\ UNCHANGED <<jobs, owner, configMap, missing, clock, history, bounds,
                       cache, todo, lastTransition>>

Reconcile(r) ==
  \/ StartReconcile(r) \/ AddFinalizer(r) \/ ListJobs(r) \/ GetBackup(r)
  \/ ResolveCluster(r) \/ BuildConfig(r) \/ CreateOrUpdateConfigMap(r)
  \/ CreateJob(r) \/ UpdateStatusRunning(r) \/ UpdateStatusCompleted(r)
  \/ UpdateStatusFailed(r) \/ UpdateStatusError(r)
  \/ UpdateStatusReconciliationPaused(r) \/ CleanupList(r) \/ CleanupJobs(r)
  \/ CleanupConfigMap(r) \/ RemoveFinalizer(r)

\* An API call fails or the process restarts: the reconciliation is over.  A call
\* whose effect was applied but whose answer was lost is the call's own action
\* followed by this one.
Abort(r) ==
  /\ pc[r] # "idle" /\ faults < MaxFaults
  /\ Goto(r, "idle")
  /\ todo' = [todo EXCEPT ![r] = {}]
  /\ faults' = faults + 1
  /\ UNCHANGED <<kube, history, toggles, deleted, cache, lastTransition>>

\* The watch delivers the object's current version.
SyncCache(r) ==
  /\ cache[r] # obj
  /\ cache' = [cache EXCEPT ![r] = obj]
  /\ UNCHANGED <<kube, history, bounds, pc, snap, todo, lastTransition>>

-----------------------------------------------------------------------------
(***************************************************************************)
(* Kubernetes and the user.                                                *)
(***************************************************************************)
JobRuns ==
  /\ \E j \in JobNames :
       \E step \in {<<"pending", "active">>, <<"active", "pending">>,
                    <<"active", "succeeded">>, <<"active", "failed">>} :
         /\ jobs[j] = step[1]
         /\ jobs' = [jobs EXCEPT ![j] = step[2]]
         /\ succeeded' = succeeded \cup
              (IF step[2] = "succeeded" THEN {owner[j]} ELSE {})
  /\ UNCHANGED <<obj, owner, configMap, missing, clock, operator, bounds, created,
                 everActive, lastTransition>>

JobDeleted ==
  /\ deleted < MaxDeletedJobs
  /\ \E j \in JobNames : jobs' = [jobs EXCEPT ![j] = Absent]
  /\ deleted' = deleted + 1
  /\ UNCHANGED <<obj, owner, configMap, missing, clock, operator, history, toggles,
                 faults, lastTransition>>

\* The garbage collector removes what is owned by an object that is gone.
Dangling(uid) == uid # 0 /\ (~ obj.live \/ obj.uid # uid)

GarbageCollect ==
  /\ \/ \E j \in JobNames : /\ Dangling(owner[j])
                            /\ jobs' = [jobs EXCEPT ![j] = Absent]
                            /\ UNCHANGED configMap
     \/ Dangling(configMap) /\ configMap' = 0 /\ UNCHANGED jobs
  /\ UNCHANGED <<obj, owner, missing, clock, operator, history, bounds,
                 lastTransition>>

Tick ==
  /\ clock < MaxClock
  /\ clock' = clock + 1
  /\ UNCHANGED <<obj, jobs, owner, configMap, missing, operator, history, bounds,
                 lastTransition>>

DependencyChanges ==
  /\ \E d \in Dependencies :
       missing' = IF d \in missing THEN missing \ {d} ELSE missing \cup {d}
  /\ UNCHANGED <<obj, jobs, owner, configMap, clock, operator, history, bounds,
                 lastTransition>>

\* The user (re)creates the resource, with or without the pause annotation.
UserCreates ==
  /\ ~ obj.live /\ obj.uid < MaxUid
  /\ PromptRecreate \/ \A r \in Replicas : pc[r] = "idle" /\ ~ cache[r].live
  /\ \E p \in BOOLEAN :
       /\ obj' = [NoObject EXCEPT !.live = TRUE, !.uid = obj.uid + 1,
                                  !.generation = 1, !.paused = p]
       /\ everActive' = IF p THEN everActive ELSE everActive \cup {obj.uid + 1}
  /\ UNCHANGED <<jobs, owner, configMap, missing, clock, operator, bounds, created,
                 succeeded, lastTransition>>

UserTogglesPause ==
  /\ obj.live /\ toggles < MaxToggles
  /\ obj' = [obj EXCEPT !.paused = ~ obj.paused]
  /\ toggles' = toggles + 1
  /\ everActive' = IF obj.paused THEN everActive \cup {obj.uid} ELSE everActive
  /\ UNCHANGED <<jobs, owner, configMap, missing, clock, operator, faults, deleted,
                 created, succeeded, lastTransition>>

UserEditsSpec ==
  /\ obj.live /\ obj.generation < MaxGeneration
  /\ obj' = [obj EXCEPT !.generation = @ + 1]
  /\ UNCHANGED <<jobs, owner, configMap, missing, clock, operator, history, bounds,
                 lastTransition>>

\* Deletion waits for the finalizer; without one the object is gone at once.
UserDeletes ==
  /\ obj.live /\ ~ obj.deleting
  /\ obj' = IF obj.finalizer THEN [obj EXCEPT !.deleting = TRUE]
            ELSE [obj EXCEPT !.live = FALSE]
  /\ UNCHANGED <<jobs, owner, configMap, missing, clock, operator, history, bounds,
                 lastTransition>>

Environment ==
  \/ JobRuns \/ JobDeleted \/ GarbageCollect \/ Tick \/ DependencyChanges
  \/ UserCreates \/ UserTogglesPause \/ UserEditsSpec \/ UserDeletes

Next ==
  \/ \E r \in Replicas : Reconcile(r) \/ Abort(r) \/ SyncCache(r)
  \/ Environment

Spec == Init /\ [][Next]_vars

\* The controller keeps reconciling (requeue after 300 s, 30 s after an error),
\* an await that is not aborted completes, and the watch delivers.  Nothing is
\* assumed of the user, of the dependencies or of how long a Job takes.
Fairness ==
  \A r \in Replicas : WF_vars(Reconcile(r)) /\ WF_vars(SyncCache(r))

FairSpec == Spec /\ Fairness

-----------------------------------------------------------------------------
\* The types of all variables.
TypeOK ==
  /\ obj \in Objects
  /\ jobs \in [Seconds -> Phases \cup {Absent}]
  /\ owner \in [Seconds -> 0..MaxUid]
  /\ configMap \in 0..MaxUid
  /\ missing \subseteq Dependencies
  /\ cache \in [Replicas -> Objects]
  /\ pc \in [Replicas -> Calls]
  /\ snap \in [Replicas -> Objects]
  /\ todo \in [Replicas -> SUBSET Seconds]
  /\ clock \in Seconds
  /\ lastTransition \in BOOLEAN
  /\ toggles \in 0..MaxToggles /\ faults \in 0..MaxFaults
  /\ deleted \in 0..MaxDeletedJobs
  /\ created \in [Uids -> 0..2]
  /\ succeeded \subseteq 0..MaxUid
  /\ everActive \subseteq 0..MaxUid

\* A restore is one-shot: for the object that holds the name, at most one Job
\* has ever been created (issue #29: restores used to be re-run on every requeue).
OneJobPerRestore == obj.live => created[obj.uid] <= 1

\* A Job of the object that holds the name is covered by the finalizer, so that
\* deleting the object always goes through handle_cleanup.
FinalizerGuardsJobs ==
  \A j \in JobNames : obj.live /\ owner[j] = obj.uid => obj.finalizer

\* RestoreComplete is reported only for an object one of whose own Jobs succeeded:
\* Jobs are found by the resource's name, which a later object may carry again.
CompletionIsGenuine ==
  obj.live /\ IsComplete(obj) => obj.uid \in succeeded

\* A resource that was created paused and has never been resumed has no
\* finalizer, no ConfigMap and no Job.
PausedFromBirthIsInert ==
  obj.live /\ obj.uid \notin everActive =>
    /\ ~ obj.finalizer
    /\ configMap # obj.uid
    /\ \A j \in JobNames : owner[j] # obj.uid

\* "Check if restore is already completed - don't re-run": no Job is created for
\* an object whose restore has completed, even after the finished Job is deleted.
CompletedIsNotRerun ==
  [][\A r \in Replicas : pc[r] = "create_job" /\ pc'[r] = "update_status_running"
       /\ obj.live /\ snap[r].uid = obj.uid => ~ obj.info]_vars

Settled == obj.live /\ ~ obj.deleting /\ ~ obj.paused

\* Once the Jobs have come to an outcome and the object is left alone, the status
\* comes to report that outcome and keeps reporting it.
OutcomeReported ==
  /\ <>[](Settled /\ \E j \in JobNames : jobs[j] = "succeeded")
       => <>[]IsComplete(obj)
  /\ <>[](Settled /\ JobNames # {} /\ \A j \in JobNames : jobs[j] = "failed")
       => <>[]has_condition_reason(obj.conditions, "Error", "RestoreFailed")

\* The ReconciliationPaused condition comes to agree with the annotation, for the
\* current spec; in the other direction, when the restore's dependencies are there.
PauseIsTracked ==
  /\ <>[](obj.live /\ ~ obj.deleting /\ obj.paused)
       => <>[](/\ is_condition_true(obj.conditions, "ReconciliationPaused")
               /\ obj.observed = obj.generation)
  /\ <>[](Settled /\ missing = {})
       => <>[](~ is_condition_true(obj.conditions, "ReconciliationPaused"))

\* A deletion is not stranded on the finalizer, paused or not.
DeletionCompletes == obj.live /\ obj.deleting ~> ~ (obj.live /\ obj.deleting)

\* Status patches stop once nothing changes any more, provided the target cluster
\* resolves: a patch that repeats the status retriggers the watch.
StatusSettles ==
  <>[]("cluster" \notin missing) => <>[][UNCHANGED lastTransition]_vars

-----------------------------------------------------------------------------
(***************************************************************************)
(* The inductive invariant behind OneJobPerRestore, for one replica and no *)
(* Jobs deleted from outside.                                              *)
(***************************************************************************)
CleanupCalls == {"cleanup_list", "cleanup_jobs", "cleanup_config_map",
                 "remove_finalizer"}

CreateCalls == {"get_backup", "resolve_cluster", "build_config",
                "apply_config_map", "create_job"}

\* Version a of the object is not newer than version b.
NotNewer(a, b) ==
  \/ a.uid < b.uid
  \/ a.uid = b.uid /\ (a.deleting => b.deleting)

\* What the operator holds is not newer than what it was taken from.
SnapshotsAge ==
  /\ obj.live => obj.uid \in Uids
  /\ \A r \in Replicas :
       /\ cache[r].live => cache[r].uid \in Uids
       /\ NotNewer(cache[r], obj)
       /\ pc[r] # "idle" => snap[r].uid \in Uids /\ NotNewer(snap[r], cache[r])

\* Only a snapshot marked for deletion is cleaned up.
CleanupIsForDeleted ==
  \A r \in Replicas :
    pc[r] # "idle" => (snap[r].deleting <=> pc[r] \in CleanupCalls)

\* No Job was created for an object newer than the one the operator works on.
JobsAge ==
  \A r \in Replicas :
    /\ \A j \in JobNames : owner[j] <= cache[r].uid
    /\ \A u \in Uids : created[u] > 0 => u <= cache[r].uid
    /\ pc[r] # "idle" =>
         /\ \A j \in JobNames : owner[j] <= snap[r].uid
         /\ \A u \in Uids : created[u] > 0 => u <= snap[r].uid

\* Between its list and its create no Job appears under a replica's feet.
NoJobWhileCreating ==
  \A r \in Replicas : pc[r] \in CreateCalls => JobNames = {}

\* The Job created for the current object is still there, unless the operator
\* has seen the deletion of that object.
JobStays ==
  obj.live /\ created[obj.uid] > 0 =>
    \/ \E j \in JobNames : owner[j] = obj.uid
    \/ \A r \in Replicas :
         /\ cache[r].uid = obj.uid /\ cache[r].deleting
         /\ pc[r] # "idle" => snap[r].uid = obj.uid /\ snap[r].deleting

\* The invariant that OneJobPerRestore needs to become inductive.
OneJobInv ==
  /\ TypeOK /\ SnapshotsAge /\ CleanupIsForDeleted /\ JobsAge
  /\ NoJobWhileCreating /\ JobStays /\ OneJobPerRestore
(***************************************************************************)
(* The inductive invariant behind FinalizerGuardsJobs and                  *)
(* PausedFromBirthIsInert, for any number of replicas, when a name is not  *)
(* reused before the operator has noticed that its object is gone.         *)
(***************************************************************************)
\* The calls of a reconciliation that has passed the pause and the finalizer.
WorkCalls == Calls \ (CleanupCalls \cup {"idle", "add_finalizer", "update_status_paused"})

\* Whatever a replica holds is an earlier version of the object under the name.
OneIdentity ==
  /\ obj.live => obj.uid \in Uids
  /\ \A r \in Replicas :
       /\ cache[r].live =>
            /\ cache[r].uid = obj.uid
            /\ cache[r].deleting => obj.deleting
            /\ cache[r].finalizer /\ obj.live => obj.finalizer
       /\ pc[r] # "idle" => snap[r].uid = obj.uid
       /\ pc[r] \in CleanupCalls => obj.deleting
       /\ pc[r] \in WorkCalls /\ obj.live => obj.finalizer

\* What is done for an object is done after it was seen without the annotation.
OnlyForActive ==
  /\ obj.live /\ (~ obj.paused \/ obj.finalizer) => obj.uid \in everActive
  /\ configMap # 0 => configMap \in everActive
  /\ \A j \in JobNames : owner[j] \in everActive
  /\ \A r \in Replicas :
       /\ cache[r].live /\ ~ cache[r].paused => obj.uid \in everActive
       /\ pc[r] \in WorkCalls \cup {"add_finalizer"} => obj.uid \in everActive

\* No Job and no ConfigMap belongs to an object still to come.
OwnersAge == configMap <= obj.uid /\ \A j \in JobNames : owner[j] <= obj.uid

GuardInv ==
  TypeOK /\ OneIdentity /\ OnlyForActive /\ OwnersAge /\ FinalizerGuardsJobs

(***************************************************************************)
(* The inductive invariant behind FinalizerGuardsJobs for one replica, when *)
(* a name may be reused at once, so that a reconciliation may go on for an *)
(* object that is gone and touch the next one.                             *)
(***************************************************************************)
\* A finalizer the operator has seen, or has put there before it goes to work, is still
\* there.
SeenFinalizerStays ==
  /\ obj.live /\ obj.deleting => obj.finalizer
  /\ \A r \in Replicas :
       /\ cache[r].live /\ cache[r].finalizer /\ cache[r].uid = obj.uid /\ obj.live =>
            obj.finalizer
       /\ pc[r] \in WorkCalls /\ snap[r].uid = obj.uid /\ obj.live => obj.finalizer

\* While a deletion the operator has seen may still lead to a cleanup, the next object
\* under the name has no finalizer that the cleanup could take away.
CleanupTakesNothing ==
  \A r \in Replicas :
    /\ cache[r].deleting /\ cache[r].uid # obj.uid => ~ obj.finalizer
    /\ pc[r] \in CleanupCalls /\ snap[r].uid # obj.uid => ~ obj.finalizer

\* An object marked for deletion goes only by the operator's own cleanup.
GoesByCleanup ==
  \A r \in Replicas :
    /\ pc[r] \notin CleanupCalls \cup {"idle"} /\ cache[r].deleting =>
         obj.live /\ cache[r].uid = obj.uid
    /\ obj.deleting /\ ~ obj.live =>
         /\ cache[r].uid = obj.uid /\ cache[r].deleting
         /\ pc[r] # "idle" => snap[r].deleting

ReuseInv ==
  /\ TypeOK /\ SnapshotsAge /\ CleanupIsForDeleted /\ JobsAge
  /\ SeenFinalizerStays /\ CleanupTakesNothing /\ GoesByCleanup
  /\ FinalizerGuardsJobs

(***************************************************************************)
(* What CompletionIsGenuine needs besides: one replica, whose cleanup then *)
(* leaves no Job behind.                                                   *)
(***************************************************************************)
\* The object cannot go while it is worked on: the operator itself would have to let
\* it go, after it has seen the deletion.
HeldByFinalizer ==
  \A r \in Replicas :
    /\ pc[r] \in WorkCalls => obj.live
    /\ cache[r].live /\ cache[r].finalizer /\ ~ cache[r].deleting => obj.live
    /\ pc[r] \in CleanupCalls /\ cache[r].live => cache[r].deleting

\* The Jobs there are belong to the object under the name; when it is gone, and before
\* its finalizer is removed, there are none.
CleanupIsComplete ==
  /\ \A j \in JobNames : owner[j] = obj.uid
  /\ ~ obj.live => JobNames = {}
  /\ \A r \in Replicas :
       /\ pc[r] = "cleanup_jobs" => JobNames \subseteq todo[r]
       /\ pc[r] \in {"cleanup_config_map", "remove_finalizer"} => JobNames = {}

\* Whoever has heard of a success heard of one of this object.
SuccessIsGenuine ==
  /\ \A j \in JobNames : jobs[j] = "succeeded" => owner[j] \in succeeded
  /\ obj.live /\ obj.info => obj.uid \in succeeded
  /\ \A r \in Replicas :
       /\ cache[r].live /\ cache[r].info => obj.uid \in succeeded
       /\ pc[r] # "idle" /\ snap[r].info => obj.uid \in succeeded
       /\ pc[r] = "update_status_completed" => obj.uid \in succeeded

GenuineInv ==
  /\ GuardInv /\ HeldByFinalizer /\ CleanupIsComplete /\ SuccessIsGenuine
  /\ CompletionIsGenuine

(***************************************************************************)
(* What CompletedIsNotRerun needs: one replica, a cache that is read when  *)
(* it is current, at most one change of the pause annotation, and that no  *)
(* completion is reported to another object than the snapshot's.           *)
(***************************************************************************)
\* The object that is worked on or cleaned up is held by its finalizer, and so is any
\* other that had it when the reconciliation began.
HeldInWork ==
  /\ obj.live /\ obj.deleting => obj.finalizer
  /\ \A r \in Replicas :
       pc[r] # "idle" =>
         /\ snap[r].uid <= obj.uid
         /\ pc[r] \in WorkCalls \cup CleanupCalls \/ snap[r].finalizer =>
              obj.live /\ obj.finalizer
         /\ pc[r] \in CleanupCalls => obj.deleting
         /\ pc[r] = "add_finalizer" /\ obj.live => ~ obj.finalizer

OwnCompletion ==
  \A r \in Replicas : pc[r] = "update_status_completed" => snap[r].uid = obj.uid

\* Why OwnCompletion holds when names are reused but cleanups succeed: Jobs are there
\* only under a finalizer, so a reconciliation whose object has been replaced, which
\* started without a finalizer, finds none.
JobsAreHeld ==
  /\ JobNames # {} => obj.live /\ obj.finalizer
  /\ \A r \in Replicas :
       /\ pc[r] = "cleanup_jobs" => JobNames \subseteq todo[r]
       /\ pc[r] \in {"cleanup_config_map", "remove_finalizer"} => JobNames = {}
       /\ pc[r] = "list_jobs" /\ snap[r].uid # obj.uid => JobNames = {}

\* The calls before a completion is reported.
UnfinishedCalls ==
  CreateCalls \cup {"add_finalizer", "list_jobs", "update_status_running",
                    "update_status_failed", "update_status_error"}

\* A restore that has completed is under the finalizer and says so in its conditions,
\* unless a pause that can no longer be lifted has overwritten them; whoever works
\* towards a Job works for an object that has not completed.
CompletionIsKept ==
  /\ \A r \in Replicas : pc[r] = "update_status_paused" /\ snap[r].info => snap[r].finalizer
  /\ obj.live =>
       /\ obj.info =>
            /\ obj.finalizer
            /\ obj.paused => toggles = MaxToggles
            /\ IsComplete(obj) \/ obj.paused
       /\ \A r \in Replicas :
            /\ /\ pc[r] \in WorkCalls \cup {"add_finalizer"}
               /\ obj.paused /\ snap[r].uid = obj.uid
               => toggles = MaxToggles
            /\ pc[r] \in UnfinishedCalls => ~ obj.info
            /\ pc[r] = "update_status_paused" /\ (obj.info \/ snap[r].info) =>
                 obj.info /\ obj.paused /\ toggles = MaxToggles

KeptInv == TypeOK /\ HeldInWork /\ OwnCompletion /\ CompletionIsKept
=============================================================================
