---------------------------- MODULE RestoreProofs ----------------------------
(***************************************************************************)
(* Proofs about RestoreReconciler for every value of its constants: type   *)
(* correctness, and that a restore is one-shot when one operator replica   *)
(* runs and nobody else deletes its Jobs (OneJobInv).                      *)
(*                                                                         *)
(* When a name is not reused before the operator has noticed that its      *)
(* object is gone: the finalizer covers the Jobs, and a resource paused    *)
(* from birth stays untouched, for any number of replicas (GuardInv); for  *)
(* one replica a completion is reported of a Job of that very resource     *)
(* (GenuineInv), and a completed restore is not run again (KeptInv).       *)
(* When a name may be reused at once, for one replica: the finalizer still *)
(* covers the Jobs (ReuseInv), and a completed restore is not run again if *)
(* no cleanup fails (KeptInv with JobsAreHeld).                            *)
(***************************************************************************)
EXTENDS RestoreReconciler, TLAPS

\* NoObject is an object record.
LEMMA NoObjectType == NoObject \in Objects
  BY RestoreConstants DEF NoObject, Objects, ConditionLists

\* The first call of a reconciliation, and the one after the finalizer, is a call.
LEMMA FirstCallType ==
  ASSUME NEW o
  PROVE  FirstCall(o) \in Calls /\ AfterFinalizer(o) \in {"idle", "list_jobs"}
  BY DEF FirstCall, AfterFinalizer, Calls

\* classify_jobs returns one of the four aggregate states.
LEMMA ClassifyType == \A phases : classify_jobs(phases) \in JobsStates
  BY DEF classify_jobs, JobsStates

\* What follows the listing of the Jobs, for each aggregate state.
LEMMA CallForType ==
  ASSUME NEW state \in JobsStates, NEW o
  PROVE  CallFor(state, o) \in {"idle", "update_status_completed",
           "update_status_failed", "update_status_running", "get_backup"}
  BY DEF CallFor, JobsStates, should_create_restore_job

\* Going on to a call keeps the types of pc and snap.
LEMMA GotoType ==
  ASSUME TypeOK, NEW r \in Replicas, NEW call \in Calls, Goto(r, call)
  PROVE  /\ pc' \in [Replicas -> Calls]
         /\ snap' \in [Replicas -> Objects]
  BY NoObjectType DEF Goto, TypeOK

\* A step of the Job controller moves one Job to its next phase.
LEMMA JobRunsStep ==
  ASSUME JobRuns
  PROVE  \E j \in JobNames, p \in Phases, q \in Phases :
           /\ jobs[j] = p
           /\ jobs' = [jobs EXCEPT ![j] = q]
           /\ succeeded' = succeeded \cup (IF q = "succeeded" THEN {owner[j]} ELSE {})
<1>1. PICK j \in JobNames,
           step \in {<<"pending", "active">>, <<"active", "pending">>,
                     <<"active", "succeeded">>, <<"active", "failed">>} :
         /\ jobs[j] = step[1]
         /\ jobs' = [jobs EXCEPT ![j] = step[2]]
         /\ succeeded' = succeeded \cup
              (IF step[2] = "succeeded" THEN {owner[j]} ELSE {})
  BY DEF JobRuns
<1>2. step[1] \in Phases /\ step[2] \in Phases
  BY <1>1 DEF Phases
<1> QED
  BY <1>1, <1>2

\* Every step of the reconciler, of Kubernetes and of the user keeps the types.
LEMMA TypeStep == TypeOK /\ [Next]_vars => TypeOK'
<1> SUFFICES ASSUME TypeOK, [Next]_vars PROVE TypeOK'
  OBVIOUS
<1> USE RestoreConstants
<1>1. ASSUME NEW r \in Replicas, NotFound(r) PROVE TypeOK'
  BY <1>1, GotoType DEF NotFound, TypeOK, kube, history, bounds, Calls
<1>2. ASSUME NEW r \in Replicas, StartReconcile(r) PROVE TypeOK'
  BY <1>2, FirstCallType DEF StartReconcile, TypeOK, kube, history, bounds
<1>3. ASSUME NEW r \in Replicas, AddFinalizer(r) PROVE TypeOK'
  <2>1. CASE NotFound(r)
    BY <2>1, <1>1
  <2>2. CASE ~ NotFound(r)
    <3>1. AfterFinalizer(snap[r]) \in Calls
      BY FirstCallType DEF Calls
    <3>2. obj' \in Objects
      BY <1>3, <2>2 DEF AddFinalizer, TypeOK, Objects
    <3> QED
      BY <1>3, <2>2, <3>1, <3>2, GotoType
      DEF AddFinalizer, TypeOK, history, bounds
  <2> QED BY <2>1, <2>2
<1>4. ASSUME NEW r \in Replicas, ListJobs(r) PROVE TypeOK'
  <2>1. CallFor(classify_jobs({jobs[j] : j \in JobNames}), snap[r]) \in Calls
    BY CallForType, ClassifyType DEF Calls
  <2> QED
    BY <1>4, <2>1, GotoType DEF ListJobs, TypeOK, kube, history, bounds
<1>5. ASSUME NEW r \in Replicas, GetBackup(r) \/ ResolveCluster(r) \/ BuildConfig(r)
      PROVE  TypeOK'
  <2>1. \E call \in Calls : Goto(r, call)
    BY <1>5 DEF GetBackup, ResolveCluster, BuildConfig, Calls
  <2> QED
    BY <1>5, <2>1, GotoType
    DEF GetBackup, ResolveCluster, BuildConfig, TypeOK, kube, history, bounds
<1>6. ASSUME NEW r \in Replicas, CreateOrUpdateConfigMap(r) PROVE TypeOK'
  <2>1. configMap' \in 0..MaxUid
    BY <1>6 DEF CreateOrUpdateConfigMap, TypeOK, Objects
  <2> QED
    BY <1>6, <2>1, GotoType
    DEF CreateOrUpdateConfigMap, TypeOK, history, bounds, Calls
<1>7. ASSUME NEW r \in Replicas, CreateJob(r) PROVE TypeOK'
  <2>1. pc' \in [Replicas -> Calls] /\ snap' \in [Replicas -> Objects]
    BY <1>7, GotoType DEF CreateJob, Calls
  <2>2. snap[r].uid \in 0..MaxUid
    BY DEF TypeOK, Objects
  <2>3. created' \in [Uids -> 0..2]
    BY <1>7 DEF CreateJob, TypeOK, AtMostTwo
  <2>4. jobs' \in [Seconds -> Phases \cup {Absent}] /\ owner' \in [Seconds -> 0..MaxUid]
    BY <1>7, <2>2 DEF CreateJob, build_restore_job, TypeOK, Phases
  <2> QED
    BY <1>7, <2>1, <2>3, <2>4 DEF CreateJob, TypeOK, bounds
<1>8. ASSUME NEW r \in Replicas, NEW call, NEW conditions \in ConditionLists,
             NEW info \in BOOLEAN, PatchStatus(r, call, conditions, info)
      PROVE  TypeOK'
  <2>1. CASE NotFound(r)
    BY <2>1, <1>1
  <2>2. CASE ~ NotFound(r)
    <3>0. snap[r].generation \in 0..MaxGeneration
      BY DEF TypeOK, Objects
    <3>1. obj' \in Objects
      <4>1. obj' = [obj EXCEPT !.conditions = conditions,
                               !.observed = snap[r].generation, !.info = info]
        BY <1>8, <2>2 DEF PatchStatus
      <4> QED
        BY <3>0, <4>1 DEF TypeOK, Objects
    <3> QED
      BY <1>8, <2>2, <3>1, GotoType
      DEF PatchStatus, TypeOK, history, bounds, Calls
  <2> QED BY <2>1, <2>2
<1>9. ASSUME NEW r \in Replicas,
             \/ UpdateStatusRunning(r) \/ UpdateStatusCompleted(r)
             \/ UpdateStatusFailed(r) \/ UpdateStatusError(r)
             \/ UpdateStatusReconciliationPaused(r)
      PROVE  TypeOK'
  <2>1. obj.info \in BOOLEAN /\ snap[r].info \in BOOLEAN
    BY DEF TypeOK, Objects
  <2>2. \E call : \E conditions \in ConditionLists, info \in BOOLEAN :
          PatchStatus(r, call, conditions, info)
    <3>1. {Running, Completed, Failed, Unresolved, Paused} \subseteq ConditionLists
      BY DEF ConditionLists
    <3> QED
      BY <1>9, <2>1, <3>1
      DEF UpdateStatusRunning, UpdateStatusCompleted, UpdateStatusFailed,
          UpdateStatusError, UpdateStatusReconciliationPaused
  <2> QED
    BY <1>8, <2>2
<1>10. ASSUME NEW r \in Replicas, CleanupList(r) PROVE TypeOK'
  <2>1. pc' \in [Replicas -> Calls] /\ snap' \in [Replicas -> Objects]
    BY <1>10, GotoType DEF CleanupList, Calls
  <2>2. todo' \in [Replicas -> SUBSET Seconds]
    BY <1>10 DEF CleanupList, TypeOK, JobNames
  <2> QED
    BY <1>10, <2>1, <2>2 DEF CleanupList, TypeOK, kube, history, bounds
<1>11. ASSUME NEW r \in Replicas, CleanupJobs(r) PROVE TypeOK'
  <2>1. pc' \in [Replicas -> Calls] /\ snap' \in [Replicas -> Objects]
    BY <1>11, GotoType DEF CleanupJobs, TypeOK, Calls
  <2>2. todo' \in [Replicas -> SUBSET Seconds] /\ jobs' \in [Seconds -> Phases \cup {Absent}]
    BY <1>11 DEF CleanupJobs, TypeOK
  <2> QED
    BY <1>11, <2>1, <2>2 DEF CleanupJobs, TypeOK, history, bounds
<1>12. ASSUME NEW r \in Replicas, CleanupConfigMap(r) PROVE TypeOK'
  <2>1. configMap' \in 0..MaxUid
    BY <1>12 DEF CleanupConfigMap, TypeOK
  <2>2. pc' \in [Replicas -> Calls] /\ snap' \in [Replicas -> Objects]
    BY <1>12, GotoType DEF CleanupConfigMap, Calls
  <2> QED
    BY <1>12, <2>1, <2>2 DEF CleanupConfigMap, TypeOK, history, bounds
<1>13. ASSUME NEW r \in Replicas, RemoveFinalizer(r) PROVE TypeOK'
  <2>1. CASE NotFound(r)
    BY <2>1, <1>1
  <2>2. CASE ~ NotFound(r)
    <3>1. obj' \in Objects
      BY <1>13, <2>2 DEF RemoveFinalizer, TypeOK, Objects
    <3> QED
      BY <1>13, <2>2, <3>1, GotoType
      DEF RemoveFinalizer, TypeOK, history, bounds, Calls
  <2> QED BY <2>1, <2>2
<1>14. ASSUME NEW r \in Replicas, Abort(r) \/ SyncCache(r) PROVE TypeOK'
  <2>1. CASE Abort(r)
    <3>1. faults' \in 0..MaxFaults /\ todo' \in [Replicas -> SUBSET Seconds]
      BY <2>1 DEF Abort, TypeOK
    <3> QED
      BY <2>1, <3>1, GotoType DEF Abort, TypeOK, kube, history, Calls
  <2>2. CASE SyncCache(r)
    BY <2>2 DEF SyncCache, TypeOK, kube, history, bounds
  <2> QED BY <1>14, <2>1, <2>2
<1>15. CASE JobRuns
  <2>0. PICK j \in JobNames, p \in Phases, q \in Phases :
          /\ jobs' = [jobs EXCEPT ![j] = q]
          /\ succeeded' = succeeded \cup (IF q = "succeeded" THEN {owner[j]} ELSE {})
    BY <1>15, JobRunsStep
  <2>1. jobs' \in [Seconds -> Phases \cup {Absent}]
    BY <2>0 DEF TypeOK
  <2>2. succeeded' \subseteq 0..MaxUid
    BY <2>0 DEF TypeOK, JobNames
  <2> QED
    BY <1>15, <2>1, <2>2 DEF JobRuns, TypeOK, operator, bounds
<1>16. CASE JobDeleted \/ GarbageCollect
  <2>1. jobs' \in [Seconds -> Phases \cup {Absent}] /\ configMap' \in 0..MaxUid
    BY <1>16 DEF JobDeleted, GarbageCollect, TypeOK
  <2>2. deleted' \in 0..MaxDeletedJobs
    BY <1>16 DEF JobDeleted, GarbageCollect, TypeOK, bounds
  <2> QED
    BY <1>16, <2>1, <2>2
    DEF JobDeleted, GarbageCollect, TypeOK, operator, history, bounds
<1>17. CASE Tick \/ DependencyChanges
  <2>1. clock' \in Seconds /\ missing' \subseteq Dependencies
    <3>1. CASE Tick
      BY <3>1 DEF Tick, TypeOK, Seconds
    <3>2. CASE DependencyChanges
      <4>1. PICK d \in Dependencies :
              missing' = IF d \in missing THEN missing \ {d} ELSE missing \cup {d}
        BY <3>2 DEF DependencyChanges
      <4>2. clock' = clock
        BY <3>2 DEF DependencyChanges
      <4> QED
        BY <4>1, <4>2 DEF TypeOK
    <3> QED BY <1>17, <3>1, <3>2
  <2> QED
    BY <1>17, <2>1 DEF Tick, DependencyChanges, TypeOK, operator, history, bounds
<1>18. CASE UserCreates \/ UserTogglesPause \/ UserEditsSpec \/ UserDeletes
  <2>1. obj' \in Objects
    <3>1. CASE UserCreates
      <4>1. PICK p \in BOOLEAN :
              obj' = [NoObject EXCEPT !.live = TRUE, !.uid = obj.uid + 1,
                                      !.generation = 1, !.paused = p]
        BY <3>1 DEF UserCreates
      <4>2. obj.uid + 1 \in 0..MaxUid
        BY <3>1 DEF UserCreates, TypeOK, Objects
      <4>3. 1 \in 0..MaxGeneration
        OBVIOUS
      <4>4. obj' = [live |-> TRUE, uid |-> obj.uid + 1, generation |-> 1,
                    paused |-> p, deleting |-> FALSE, finalizer |-> FALSE,
                    conditions |-> {}, observed |-> 0, info |-> FALSE]
        BY <4>1 DEF NoObject
      <4>5. {} \in ConditionLists
        BY DEF ConditionLists
      <4> QED
        BY <4>2, <4>3, <4>4, <4>5 DEF Objects
    <3>2. CASE UserTogglesPause
      BY <3>2 DEF UserTogglesPause, TypeOK, Objects
    <3>3. CASE UserEditsSpec
      BY <3>3 DEF UserEditsSpec, TypeOK, Objects
    <3>4. CASE UserDeletes
      BY <3>4 DEF UserDeletes, TypeOK, Objects
    <3> QED BY <1>18, <3>1, <3>2, <3>3, <3>4
  <2>2. everActive' \subseteq 0..MaxUid /\ toggles' \in 0..MaxToggles
    <3>1. CASE UserCreates
      BY <3>1 DEF UserCreates, TypeOK, Objects, Uids, bounds
    <3>2. CASE UserTogglesPause
      <4>1. obj.uid \in 0..MaxUid
        BY DEF TypeOK, Objects
      <4> QED
        BY <3>2, <4>1 DEF UserTogglesPause, TypeOK
    <3>3. CASE UserEditsSpec \/ UserDeletes
      BY <3>3 DEF UserEditsSpec, UserDeletes, TypeOK, history, bounds
    <3> QED BY <1>18, <3>1, <3>2, <3>3
  <2> QED
    BY <1>18, <2>1, <2>2
    DEF UserCreates, UserTogglesPause, UserEditsSpec, UserDeletes, TypeOK,
        operator, history, bounds
<1>19. CASE UNCHANGED vars
  BY <1>19 DEF vars, TypeOK
<1> QED
  BY <1>2, <1>3, <1>4, <1>5, <1>6, <1>7, <1>9, <1>10, <1>11, <1>12, <1>13, <1>14,
     <1>15, <1>16, <1>17, <1>18, <1>19
  DEF Next, Reconcile, Environment

\* The initial state has the types.
LEMMA TypeInit == Init => TypeOK
<1> SUFFICES ASSUME Init PROVE TypeOK
  OBVIOUS
<1> USE RestoreConstants
<1>1. /\ obj \in Objects
      /\ cache \in [Replicas -> Objects]
      /\ snap \in [Replicas -> Objects]
  BY NoObjectType DEF Init
<1>2. /\ jobs \in [Seconds -> Phases \cup {Absent}]
      /\ owner \in [Seconds -> 0..MaxUid]
      /\ created \in [Uids -> 0..2]
  BY DEF Init
<1>3. /\ pc \in [Replicas -> Calls]
      /\ todo \in [Replicas -> SUBSET Seconds]
  BY DEF Init, Calls
<1>4. /\ configMap \in 0..MaxUid /\ clock \in Seconds
      /\ toggles \in 0..MaxToggles /\ faults \in 0..MaxFaults
      /\ deleted \in 0..MaxDeletedJobs
  BY DEF Init, Seconds
<1>5. lastTransition \in BOOLEAN /\ missing = {} /\ succeeded = {} /\ everActive = {}
  BY DEF Init
<1> QED
  BY <1>1, <1>2, <1>3, <1>4, <1>5 DEF TypeOK

\* Every variable of the restore controller's model always has its type.
THEOREM TypeCorrect == Spec => []TypeOK
<1>1. Init => TypeOK
  BY TypeInit
<1>2. TypeOK /\ [Next]_vars => TypeOK'
  BY TypeStep
<1> QED
  BY <1>1, <1>2, PTL DEF Spec

-----------------------------------------------------------------------------
(***************************************************************************)
(* One Job per restore.                                                    *)
(***************************************************************************)

\* Going on to the next call keeps the invariant when the step leaves the Jobs
\* and the cache alone, changes neither the identity of the object nor its
\* deletion mark, and does not enter the creating calls unless no Job exists.
LEMMA GotoKeeps ==
  ASSUME NEW op, Replicas = {op}, OneJobInv, TypeOK',
         NEW call \in Calls, Goto(op, call), pc[op] # "idle",
         call # "idle" => (call \in CleanupCalls <=> pc[op] \in CleanupCalls),
         call \in CreateCalls => JobNames = {},
         UNCHANGED <<jobs, owner, created, cache>>,
         obj'.uid = obj.uid, obj'.deleting = obj.deleting,
         obj'.live => obj.live
  PROVE  OneJobInv'
<1>1. JobNames' = JobNames
  BY DEF JobNames
<1>2. pc'[op] = call /\ (call # "idle" => snap'[op] = snap[op])
  BY DEF Goto, OneJobInv, TypeOK
<1>3. SnapshotsAge'
  BY <1>2 DEF OneJobInv, SnapshotsAge, NotNewer
<1>4. CleanupIsForDeleted'
  BY <1>2 DEF OneJobInv, CleanupIsForDeleted
<1>5. JobsAge'
  BY <1>1, <1>2 DEF OneJobInv, JobsAge
<1>6. NoJobWhileCreating'
  BY <1>1, <1>2 DEF NoJobWhileCreating
<1>7. JobStays'
  BY <1>1, <1>2 DEF OneJobInv, JobStays
<1>8. OneJobPerRestore'
  BY DEF OneJobInv, OneJobPerRestore
<1> QED
  BY <1>3, <1>4, <1>5, <1>6, <1>7, <1>8 DEF OneJobInv

\* A step of Kubernetes or of the user keeps the invariant when it creates no
\* object, adds no Job and removes no Job of the current object.
LEMMA EnvironmentKeeps ==
  ASSUME NEW op, Replicas = {op}, OneJobInv, TypeOK',
         UNCHANGED <<owner, created, cache, pc, snap>>,
         JobNames' \subseteq JobNames,
         \A j \in JobNames : obj.live /\ owner[j] = obj.uid => j \in JobNames',
         obj'.uid = obj.uid, obj.deleting => obj'.deleting,
         obj'.live => obj.live
  PROVE  OneJobInv'
<1>1. SnapshotsAge'
  BY DEF OneJobInv, SnapshotsAge, NotNewer
<1>2. CleanupIsForDeleted'
  BY DEF OneJobInv, CleanupIsForDeleted
<1>3. JobsAge'
  BY DEF OneJobInv, JobsAge
<1>4. NoJobWhileCreating'
  BY DEF OneJobInv, NoJobWhileCreating
<1>5. JobStays'
  BY DEF OneJobInv, JobStays
<1>6. OneJobPerRestore'
  BY DEF OneJobInv, OneJobPerRestore
<1> QED
  BY <1>1, <1>2, <1>3, <1>4, <1>5, <1>6 DEF OneJobInv

\* Creating a Job keeps the invariant: no Job existed, so none was created before
\* for the object it is created for, unless that object is being deleted.
LEMMA CreateJobKeeps ==
  ASSUME NEW op, Replicas = {op}, OneJobInv, TypeOK', CreateJob(op)
  PROVE  OneJobInv'
<1> USE RestoreConstants
<1>0. /\ pc[op] = "create_job" /\ pc[op] # "idle"
      /\ pc[op] \in CreateCalls /\ pc[op] \notin CleanupCalls
  BY DEF CreateJob, CreateCalls, CleanupCalls
<1>1. CASE jobs[clock] # Absent
  <2>1. "idle" \in Calls /\ "idle" \notin CreateCalls
    BY DEF Calls, CreateCalls
  <2> QED
    BY <1>0, <1>1, <2>1, GotoKeeps DEF CreateJob
<1>2. CASE jobs[clock] = Absent
  <2> DEFINE u == snap[op].uid
  <2>1. u \in Uids /\ ~ snap[op].deleting /\ NotNewer(snap[op], cache[op])
    BY <1>0 DEF OneJobInv, SnapshotsAge, CleanupIsForDeleted
  <2>2. JobNames = {} /\ clock \in Seconds
    BY <1>0 DEF OneJobInv, NoJobWhileCreating, TypeOK
  <2>3. JobNames' = {clock} /\ owner'[clock] = u
    BY <1>2, <2>2 DEF CreateJob, build_restore_job, JobNames, OneJobInv, TypeOK, Absent
  <2>4. /\ pc'[op] = "update_status_running" /\ snap'[op] = snap[op]
        /\ UNCHANGED <<obj, cache>>
    BY <1>2 DEF CreateJob, Goto, OneJobInv, TypeOK
  <2>5. /\ created'[u] = AtMostTwo(created[u] + 1)
        /\ \A v \in Uids : v # u => created'[v] = created[v]
    BY <1>2, <2>1 DEF CreateJob, build_restore_job, OneJobInv, TypeOK
  <2>6. obj.live /\ obj.uid = u => created[u] = 0
    <3> SUFFICES ASSUME obj.live, obj.uid = u, created[u] # 0 PROVE FALSE
      OBVIOUS
    <3>1. created[u] > 0
      BY <2>1 DEF OneJobInv, TypeOK
    <3> QED
      BY <1>0, <2>1, <2>2, <3>1 DEF OneJobInv, JobStays
  <2>7. SnapshotsAge'
    BY <2>1, <2>4, <1>0 DEF OneJobInv, SnapshotsAge
  <2>8. CleanupIsForDeleted'
    BY <2>1, <2>4 DEF CleanupIsForDeleted, CleanupCalls
  <2>9. JobsAge'
    <3>1. u <= cache[op].uid /\ cache[op].uid \in Nat
      <4>1. cache[op].uid \in 0..MaxUid
        BY DEF OneJobInv, TypeOK, Objects
      <4> QED
        BY <2>1, <4>1 DEF NotNewer, Uids
    <3> QED
      BY <1>0, <2>1, <2>3, <2>4, <2>5, <3>1 DEF OneJobInv, JobsAge, Uids
  <2>10. NoJobWhileCreating'
    BY <2>4 DEF NoJobWhileCreating, CreateCalls
  <2>11. JobStays'
    <3> SUFFICES ASSUME obj.live, created'[obj.uid] > 0, obj.uid # u PROVE FALSE
      BY <2>3, <2>4 DEF JobStays
    <3>1. obj.uid \in Uids /\ created[obj.uid] > 0
      BY <2>5 DEF OneJobInv, SnapshotsAge
    <3> QED
      BY <1>0, <2>1, <2>2, <3>1 DEF OneJobInv, JobStays
  <2>12. OneJobPerRestore'
    BY <2>4, <2>5, <2>6 DEF OneJobInv, OneJobPerRestore, SnapshotsAge, AtMostTwo
  <2> QED
    BY <2>7, <2>8, <2>9, <2>10, <2>11, <2>12 DEF OneJobInv
<1> QED BY <1>1, <1>2

\* Deleting a Job of the current object is the work of an operator that has seen
\* the deletion of that object.
LEMMA CleanupJobsKeeps ==
  ASSUME NEW op, Replicas = {op}, OneJobInv, TypeOK', CleanupJobs(op)
  PROVE  OneJobInv'
<1> USE RestoreConstants
<1>0. /\ pc[op] = "cleanup_jobs" /\ pc[op] # "idle"
      /\ pc[op] \in CleanupCalls /\ pc[op] \notin CreateCalls
      /\ UNCHANGED <<obj, owner, created, cache>>
  BY DEF CleanupJobs, CleanupCalls, CreateCalls, history
<1>1. CASE Goto(op, "cleanup_config_map") /\ UNCHANGED jobs
  <2>1. /\ "cleanup_config_map" \in Calls \cap CleanupCalls
        /\ "cleanup_config_map" \notin CreateCalls
    BY DEF Calls, CleanupCalls, CreateCalls
  <2> QED
    BY <1>0, <1>1, <2>1, GotoKeeps
<1>2. CASE UNCHANGED <<pc, snap>> /\ JobNames' \subseteq JobNames
  <2>1. SnapshotsAge' /\ CleanupIsForDeleted' /\ OneJobPerRestore'
    BY <1>0, <1>2
    DEF OneJobInv, SnapshotsAge, CleanupIsForDeleted, OneJobPerRestore
  <2>2. JobsAge' /\ NoJobWhileCreating'
    BY <1>0, <1>2 DEF OneJobInv, JobsAge, NoJobWhileCreating
  <2>3. JobStays'
    <3> SUFFICES ASSUME obj.live, created[obj.uid] > 0
                 PROVE  \/ \E j \in JobNames' : owner[j] = obj.uid
                        \/ /\ cache[op].uid = obj.uid /\ cache[op].deleting
                           /\ snap[op].uid = obj.uid /\ snap[op].deleting
      BY <1>0, <1>2 DEF JobStays
    <3>1. CASE \E j \in JobNames : owner[j] = obj.uid
      <4>1. snap[op].deleting /\ obj.uid <= snap[op].uid
        BY <1>0, <3>1 DEF OneJobInv, CleanupIsForDeleted, JobsAge
      <4>2. /\ NotNewer(snap[op], cache[op]) /\ NotNewer(cache[op], obj)
            /\ snap[op].uid \in 0..MaxUid /\ cache[op].uid \in 0..MaxUid
            /\ obj.uid \in 0..MaxUid
        BY <1>0 DEF OneJobInv, SnapshotsAge, TypeOK, Objects
      <4>3. snap[op].uid = obj.uid /\ cache[op].uid = obj.uid
        BY <4>1, <4>2 DEF NotNewer
      <4>4. cache[op].deleting
        BY <4>1, <4>2, <4>3 DEF NotNewer
      <4> QED
        BY <4>1, <4>3, <4>4
    <3>2. CASE ~ \E j \in JobNames : owner[j] = obj.uid
      BY <1>0, <3>2 DEF OneJobInv, JobStays
    <3> QED BY <3>1, <3>2
  <2> QED
    BY <2>1, <2>2, <2>3 DEF OneJobInv
<1>3. \/ Goto(op, "cleanup_config_map") /\ UNCHANGED jobs
      \/ UNCHANGED <<pc, snap>> /\ JobNames' \subseteq JobNames
  BY DEF CleanupJobs, JobNames, OneJobInv, TypeOK
<1> QED BY <1>1, <1>2, <1>3

\* Starting a reconciliation and delivering a watch event move what the operator
\* holds forward.
LEMMA SnapshotKeeps ==
  ASSUME NEW op, Replicas = {op}, OneJobInv, TypeOK',
         StartReconcile(op) \/ SyncCache(op)
  PROVE  OneJobInv'
<1> USE RestoreConstants
<1>0. /\ UNCHANGED <<obj, jobs, owner, created>> /\ JobNames' = JobNames
      /\ obj.uid \in 0..MaxUid /\ cache[op].uid \in 0..MaxUid
      /\ snap[op].uid \in 0..MaxUid
  BY DEF StartReconcile, SyncCache, kube, history, JobNames, OneJobInv, TypeOK, Objects
<1>1. CASE StartReconcile(op)
  <2>1. /\ pc[op] = "idle" /\ pc'[op] # "idle" /\ snap'[op] = cache[op]
        /\ cache[op].live /\ UNCHANGED cache
        /\ pc'[op] = FirstCall(cache[op])
    BY <1>1 DEF StartReconcile, OneJobInv, TypeOK
  <2>2. /\ cache[op].deleting <=> pc'[op] \in CleanupCalls
        /\ pc'[op] \notin CreateCalls
    BY <2>1 DEF FirstCall, AfterFinalizer, CleanupCalls, CreateCalls
  <2>3. SnapshotsAge'
    BY <1>0, <2>1 DEF OneJobInv, SnapshotsAge, NotNewer
  <2>4. CleanupIsForDeleted' /\ NoJobWhileCreating' /\ OneJobPerRestore'
    BY <1>0, <2>1, <2>2
    DEF OneJobInv, CleanupIsForDeleted, NoJobWhileCreating, OneJobPerRestore
  <2>5. JobsAge' /\ JobStays'
    BY <1>0, <2>1 DEF OneJobInv, JobsAge, JobStays
  <2> QED
    BY <2>3, <2>4, <2>5 DEF OneJobInv
<1>2. CASE SyncCache(op)
  <2>1. cache'[op] = obj /\ UNCHANGED <<pc, snap>>
    BY <1>2 DEF SyncCache, OneJobInv, TypeOK
  <2>2. cache[op].uid <= obj.uid /\ NotNewer(cache[op], obj)
    BY <1>0 DEF OneJobInv, SnapshotsAge, NotNewer
  <2>3. pc[op] # "idle" => NotNewer(snap[op], obj)
    BY <1>0, <2>2 DEF OneJobInv, SnapshotsAge, NotNewer
  <2>4. SnapshotsAge'
    BY <1>0, <2>1, <2>3 DEF OneJobInv, SnapshotsAge, NotNewer
  <2>5. CleanupIsForDeleted' /\ NoJobWhileCreating' /\ OneJobPerRestore'
    BY <1>0, <2>1
    DEF OneJobInv, CleanupIsForDeleted, NoJobWhileCreating, OneJobPerRestore
  <2>6. JobsAge'
    <3>1. \A j \in JobNames : owner[j] \in 0..MaxUid
      BY DEF OneJobInv, TypeOK, JobNames
    <3> QED
      BY <1>0, <2>1, <2>2, <3>1 DEF OneJobInv, JobsAge, Uids
  <2>7. JobStays'
    BY <1>0, <2>1, <2>2 DEF OneJobInv, JobStays, NotNewer
  <2> QED
    BY <2>4, <2>5, <2>6, <2>7 DEF OneJobInv
<1> QED BY <1>1, <1>2

\* A new object under the name has no Job yet.
LEMMA UserCreatesKeeps ==
  ASSUME NEW op, Replicas = {op}, OneJobInv, TypeOK', UserCreates
  PROVE  OneJobInv'
<1> USE RestoreConstants
<1>0. /\ UNCHANGED <<jobs, owner, created, cache, pc, snap>>
      /\ JobNames' = JobNames
  BY DEF UserCreates, operator, JobNames
<1>1. obj'.uid = obj.uid + 1 /\ obj.uid < MaxUid /\ obj'.uid \in Uids
  <2>1. obj.uid \in 0..MaxUid
    BY DEF OneJobInv, TypeOK, Objects
  <2>2. obj'.uid = obj.uid + 1 /\ obj.uid < MaxUid
    BY DEF UserCreates, NoObject
  <2> QED
    BY <2>1, <2>2 DEF Uids
<1>2. cache[op].uid \in 0..MaxUid /\ obj.uid \in 0..MaxUid /\ cache[op].uid <= obj.uid
  BY DEF OneJobInv, TypeOK, Objects, SnapshotsAge, NotNewer
<1>3. created[obj'.uid] = 0
  <2>1. created[obj'.uid] \in 0..2
    BY <1>1 DEF OneJobInv, TypeOK
  <2> QED
    BY <1>1, <1>2, <2>1 DEF OneJobInv, JobsAge
<1>4. SnapshotsAge'
  BY <1>0, <1>1, <1>2 DEF OneJobInv, SnapshotsAge, NotNewer
<1>5. CleanupIsForDeleted' /\ JobsAge' /\ NoJobWhileCreating'
  BY <1>0 DEF OneJobInv, CleanupIsForDeleted, JobsAge, NoJobWhileCreating
<1>6. JobStays' /\ OneJobPerRestore'
  BY <1>0, <1>3 DEF JobStays, OneJobPerRestore
<1> QED
  BY <1>4, <1>5, <1>6 DEF OneJobInv

\* Every step keeps the invariant.
LEMMA OneJobStep ==
  ASSUME NEW op, Replicas = {op}, MaxDeletedJobs = 0, OneJobInv, [Next]_vars
  PROVE  OneJobInv'
<1> USE RestoreConstants
<1>0. TypeOK' /\ op \in Replicas
  BY TypeStep DEF OneJobInv
<1>1. CASE StartReconcile(op) \/ SyncCache(op)
  BY <1>0, <1>1, SnapshotKeeps
<1>2. CASE CreateJob(op)
  BY <1>0, <1>2, CreateJobKeeps
<1>3. CASE CleanupJobs(op)
  BY <1>0, <1>3, CleanupJobsKeeps
<1>4. CASE NotFound(op) /\ pc[op] # "idle"
  BY <1>0, <1>4, GotoKeeps DEF NotFound, kube, history, Calls, CreateCalls
<1>5. CASE AddFinalizer(op)
  <2>1. pc[op] # "idle" /\ pc[op] \notin CleanupCalls
    BY <1>5 DEF AddFinalizer, CleanupCalls
  <2>2. AfterFinalizer(snap[op]) \in (Calls \ CreateCalls) \ CleanupCalls
    BY FirstCallType DEF Calls, CreateCalls, CleanupCalls
  <2>3. CASE ~ NotFound(op)
    <3>1. obj'.uid = obj.uid /\ obj'.deleting = obj.deleting /\ obj'.live = obj.live
      BY <1>5, <2>3 DEF AddFinalizer, OneJobInv, TypeOK, Objects
    <3> QED
      BY <1>0, <1>5, <2>1, <2>2, <2>3, <3>1, GotoKeeps DEF AddFinalizer, history
  <2> QED BY <1>4, <2>1, <2>3
<1>6. CASE ListJobs(op)
  <2> DEFINE state == classify_jobs({jobs[j] : j \in JobNames})
             call == CallFor(state, snap[op])
  <2>1. pc[op] # "idle" /\ pc[op] \notin CleanupCalls
    BY <1>6 DEF ListJobs, CleanupCalls
  <2>2. call \in Calls \ CleanupCalls
    BY CallForType, ClassifyType DEF Calls, CleanupCalls
  <2>3. call \in CreateCalls => JobNames = {}
    <3>1. call \in CreateCalls => state = "NoJobs"
      BY ClassifyType
      DEF CallFor, JobsStates, CreateCalls, should_create_restore_job
    <3>2. state = "NoJobs" => {jobs[j] : j \in JobNames} = {}
      BY DEF classify_jobs
    <3> QED BY <3>1, <3>2
  <2> QED
    BY <1>0, <1>6, <2>1, <2>2, <2>3, GotoKeeps DEF ListJobs, kube, history
<1>7. CASE GetBackup(op) \/ ResolveCluster(op) \/ BuildConfig(op)
           \/ CreateOrUpdateConfigMap(op)
  <2>1. /\ pc[op] \in CreateCalls /\ pc[op] # "idle" /\ pc[op] \notin CleanupCalls
        /\ \E call \in Calls \ CleanupCalls : Goto(op, call)
    BY <1>7
    DEF GetBackup, ResolveCluster, BuildConfig, CreateOrUpdateConfigMap, Calls,
        CreateCalls, CleanupCalls
  <2>2. JobNames = {}
    BY <1>0, <2>1 DEF OneJobInv, NoJobWhileCreating
  <2>3. UNCHANGED <<obj, jobs, owner, created, cache>>
    BY <1>7
    DEF GetBackup, ResolveCluster, BuildConfig, CreateOrUpdateConfigMap, kube,
        history
  <2> QED
    BY <1>0, <2>1, <2>2, <2>3, GotoKeeps
<1>8. ASSUME NEW call \in Calls \ {"idle"}, NEW conditions, NEW info,
             PatchStatus(op, call, conditions, info)
      PROVE  OneJobInv'
  <2>1. pc[op] # "idle"
    BY <1>8 DEF PatchStatus
  <2>2. CASE ~ NotFound(op)
    <3>1. obj'.uid = obj.uid /\ obj'.deleting = obj.deleting /\ obj'.live = obj.live
      BY <1>8, <2>2 DEF PatchStatus, OneJobInv, TypeOK, Objects
    <3> QED
      BY <1>0, <1>8, <2>1, <2>2, <3>1, GotoKeeps
      DEF PatchStatus, history, Calls, CreateCalls
  <2> QED BY <1>4, <2>1, <2>2
<1>9. CASE \/ UpdateStatusRunning(op) \/ UpdateStatusCompleted(op)
           \/ UpdateStatusFailed(op) \/ UpdateStatusError(op)
           \/ UpdateStatusReconciliationPaused(op)
  BY <1>8, <1>9
  DEF UpdateStatusRunning, UpdateStatusCompleted, UpdateStatusFailed,
      UpdateStatusError, UpdateStatusReconciliationPaused, Calls
<1>10. CASE CleanupList(op) \/ CleanupConfigMap(op)
  <2>1. /\ pc[op] \in CleanupCalls /\ pc[op] # "idle"
        /\ \E call \in CleanupCalls \ CreateCalls : call \in Calls /\ Goto(op, call)
    BY <1>10 DEF CleanupList, CleanupConfigMap, CleanupCalls, CreateCalls, Calls
  <2>2. UNCHANGED <<obj, jobs, owner, created, cache>>
    BY <1>10 DEF CleanupList, CleanupConfigMap, kube, history
  <2> QED
    BY <1>0, <2>1, <2>2, GotoKeeps
<1>11. CASE RemoveFinalizer(op)
  <2>1. pc[op] # "idle"
    BY <1>11 DEF RemoveFinalizer
  <2>2. CASE ~ NotFound(op)
    <3>1. obj'.uid = obj.uid /\ obj'.deleting = obj.deleting /\ obj.live
      BY <1>11, <2>2 DEF RemoveFinalizer, NotFound, OneJobInv, TypeOK, Objects
    <3> QED
      BY <1>0, <1>11, <2>1, <2>2, <3>1, GotoKeeps
      DEF RemoveFinalizer, history, Calls, CreateCalls
  <2> QED BY <1>4, <2>1, <2>2
<1>12. CASE Abort(op)
  BY <1>0, <1>12, GotoKeeps DEF Abort, kube, history, Calls, CreateCalls
<1>13. CASE JobRuns
  <2>1. PICK j \in JobNames, q \in Phases : jobs' = [jobs EXCEPT ![j] = q]
    BY <1>13, JobRunsStep
  <2>2. JobNames' = JobNames
    BY <2>1 DEF JobNames, OneJobInv, TypeOK, Phases, Absent
  <2> QED
    BY <1>0, <1>13, <2>2, EnvironmentKeeps DEF JobRuns, operator
<1>14. CASE JobDeleted
  BY <1>14 DEF JobDeleted, OneJobInv, TypeOK
<1>15. CASE GarbageCollect
  <2>1. /\ JobNames' \subseteq JobNames
        /\ \A j \in JobNames : obj.live /\ owner[j] = obj.uid => j \in JobNames'
    BY <1>15 DEF GarbageCollect, Dangling, JobNames, OneJobInv, TypeOK
  <2> QED
    BY <1>0, <1>15, <2>1, EnvironmentKeeps DEF GarbageCollect, operator, history
<1>16. CASE Tick \/ DependencyChanges
  BY <1>0, <1>16, EnvironmentKeeps
  DEF Tick, DependencyChanges, operator, history, JobNames
<1>17. CASE UserCreates
  BY <1>0, <1>17, UserCreatesKeeps
<1>18. CASE UserTogglesPause \/ UserEditsSpec \/ UserDeletes
  <2>1. /\ obj'.uid = obj.uid /\ (obj.deleting => obj'.deleting)
        /\ (obj'.live => obj.live)
    BY <1>18
    DEF UserTogglesPause, UserEditsSpec, UserDeletes, OneJobInv, TypeOK, Objects
  <2> QED
    BY <1>0, <1>18, <2>1, EnvironmentKeeps
    DEF UserTogglesPause, UserEditsSpec, UserDeletes, operator, history, JobNames
<1>19. CASE UNCHANGED vars
  BY <1>0, <1>19, EnvironmentKeeps DEF vars, JobNames
<1> QED
  BY <1>1, <1>2, <1>3, <1>5, <1>6, <1>7, <1>9, <1>10, <1>11, <1>12, <1>13, <1>14,
     <1>15, <1>16, <1>17, <1>18, <1>19
  DEF Next, Reconcile, Environment

\* The initial state, without objects and Jobs, satisfies the invariant.
LEMMA OneJobInit == Init => OneJobInv
<1> SUFFICES ASSUME Init PROVE OneJobInv
  OBVIOUS
<1>1. TypeOK
  BY TypeInit
<1>2. JobNames = {} /\ ~ obj.live /\ obj.uid = 0
  BY DEF Init, JobNames, NoObject
<1>3. SnapshotsAge
  BY <1>2 DEF Init, SnapshotsAge, NotNewer, NoObject
<1>4. CleanupIsForDeleted /\ JobsAge /\ NoJobWhileCreating
  BY <1>2 DEF Init, CleanupIsForDeleted, JobsAge, NoJobWhileCreating, CreateCalls
<1>5. JobStays /\ OneJobPerRestore
  BY <1>2 DEF JobStays, OneJobPerRestore
<1> QED
  BY <1>1, <1>3, <1>4, <1>5 DEF OneJobInv

\* With one operator replica, and nobody else deleting Jobs, a KafkaRestore gets at
\* most one Job in its life: under any interleaving with the user, the Job
\* controller and the garbage collector, with a watch cache that lags arbitrarily,
\* any number of failed calls and restarts, and reuse of the resource's name.
THEOREM RestoreIsOneShot ==
  ASSUME NEW CONSTANT op, Replicas = {op}, MaxDeletedJobs = 0
  PROVE  Spec => []OneJobPerRestore
<1>1. Init => OneJobInv
  BY OneJobInit
<1>2. OneJobInv /\ [Next]_vars => OneJobInv'
  BY OneJobStep
<1>3. OneJobInv => OneJobPerRestore
  BY DEF OneJobInv
<1> QED
  BY <1>1, <1>2, <1>3, PTL DEF Spec

-----------------------------------------------------------------------------
(***************************************************************************)
(* Facts about the control of a reconciliation.                            *)
(***************************************************************************)
\* What Goto does to the replica that goes on, and to the others.
LEMMA GotoMoves ==
  ASSUME TypeOK, NEW r \in Replicas, NEW call, Goto(r, call)
  PROVE  /\ pc'[r] = call
         /\ call # "idle" => snap'[r] = snap[r]
         /\ \A q \in Replicas \ {r} : pc'[q] = pc[q] /\ snap'[q] = snap[q]
  BY DEF Goto, TypeOK

\* The sets of calls do not overlap.
LEMMA CallSets ==
  /\ WorkCalls \cap CleanupCalls = {} /\ CreateCalls \subseteq WorkCalls
  /\ {"idle", "add_finalizer", "update_status_paused"}
       \cap (WorkCalls \cup CleanupCalls) = {}
  /\ {"list_jobs", "update_status_running", "update_status_completed",
      "update_status_failed", "update_status_error"} \subseteq WorkCalls
  BY DEF WorkCalls, CleanupCalls, CreateCalls, Calls

-----------------------------------------------------------------------------
(***************************************************************************)
(* The finalizer and the pause.                                            *)
(***************************************************************************)

\* What has to be true of the call replica r is at after a step that keeps the object.
GuardedAt(r) ==
  /\ pc'[r] # "idle" => snap'[r].uid = obj.uid
  /\ pc'[r] \in CleanupCalls => obj.deleting
  /\ pc'[r] \in WorkCalls /\ obj'.live => obj'.finalizer
  /\ pc'[r] \in WorkCalls \cup {"add_finalizer"} => obj.uid \in everActive

\* A step keeps GuardInv when it creates no object, takes the finalizer from no live
\* object, adds Jobs and a ConfigMap for the object only when that has its finalizer
\* and has been seen active, and moves each replica to a call it may be at.
LEMMA GuardFrame ==
  ASSUME GuardInv, TypeOK',
         obj'.uid = obj.uid, obj.deleting => obj'.deleting, obj'.live => obj.live,
         obj'.live /\ obj.finalizer => obj'.finalizer,
         obj'.live /\ (~ obj'.paused \/ obj'.finalizer) => obj.uid \in everActive',
         everActive \subseteq everActive',
         configMap' \in {configMap, 0} \/ (configMap' = obj.uid /\ obj.uid \in everActive),
         \A j \in JobNames' :
           \/ j \in JobNames /\ owner'[j] = owner[j]
           \/ /\ owner'[j] = obj.uid /\ obj.uid \in everActive
              /\ obj'.live => obj'.finalizer,
         \A r \in Replicas : cache'[r] = cache[r] \/ (cache'[r] = obj /\ UNCHANGED obj),
         \A r \in Replicas : (pc'[r] = pc[r] /\ snap'[r] = snap[r]) \/ GuardedAt(r)
  PROVE  GuardInv'
<1> USE RestoreConstants
<1>0. obj.uid \in 0..MaxUid /\ configMap \in 0..MaxUid
  BY DEF GuardInv, TypeOK, Objects
<1>1. OneIdentity'
  <2>1. obj'.live => obj'.uid \in Uids
    BY DEF GuardInv, OneIdentity
  <2>2. ASSUME NEW r \in Replicas, cache'[r].live
        PROVE  /\ cache'[r].uid = obj'.uid
               /\ cache'[r].deleting => obj'.deleting
               /\ cache'[r].finalizer /\ obj'.live => obj'.finalizer
    BY <2>2 DEF GuardInv, OneIdentity
  <2>3. ASSUME NEW r \in Replicas
        PROVE  /\ pc'[r] # "idle" => snap'[r].uid = obj'.uid
               /\ pc'[r] \in CleanupCalls => obj'.deleting
               /\ pc'[r] \in WorkCalls /\ obj'.live => obj'.finalizer
    BY DEF GuardInv, OneIdentity, GuardedAt
  <2> QED
    BY <2>1, <2>2, <2>3 DEF OneIdentity, WorkCalls
<1>2. OnlyForActive'
  <2>1. ASSUME NEW r \in Replicas
        PROVE  /\ cache'[r].live /\ ~ cache'[r].paused => obj'.uid \in everActive'
               /\ pc'[r] \in WorkCalls \cup {"add_finalizer"} => obj'.uid \in everActive'
    BY DEF GuardInv, OnlyForActive, GuardedAt
  <2>2. \A j \in JobNames' : owner'[j] \in everActive'
    BY DEF GuardInv, OnlyForActive
  <2>3. configMap' # 0 => configMap' \in everActive'
    BY DEF GuardInv, OnlyForActive
  <2> QED
    BY <2>1, <2>2, <2>3 DEF OnlyForActive, WorkCalls
<1>3. OwnersAge'
  BY <1>0 DEF GuardInv, OwnersAge
<1>4. FinalizerGuardsJobs'
  BY DEF GuardInv, FinalizerGuardsJobs
<1> QED
  BY <1>1, <1>2, <1>3, <1>4 DEF GuardInv

\* A replica that ends its reconciliation, or goes on from a call to another of the same
\* kind, is at a call it may be at.
LEMMA GotoGuarded ==
  ASSUME GuardInv, NEW r \in Replicas, NEW call \in Calls, Goto(r, call),
         pc[r] # "idle",
         call \in CleanupCalls => pc[r] \in CleanupCalls,
         call \in WorkCalls => pc[r] \in WorkCalls,
         call # "add_finalizer",
         obj'.live => obj.live, obj'.live /\ obj.finalizer => obj'.finalizer
  PROVE  \A q \in Replicas : (pc'[q] = pc[q] /\ snap'[q] = snap[q]) \/ GuardedAt(q)
<1>1. /\ pc'[r] = call
      /\ call # "idle" => snap'[r] = snap[r]
      /\ \A q \in Replicas \ {r} : pc'[q] = pc[q] /\ snap'[q] = snap[q]
  BY GotoMoves DEF GuardInv
<1>2. GuardedAt(r)
  BY <1>1 DEF GuardInv, OneIdentity, OnlyForActive, GuardedAt
<1> QED
  BY <1>1, <1>2

\* A step of the reconciliation that touches neither object, Jobs nor ConfigMap keeps
\* GuardInv.
LEMMA GotoGuards ==
  ASSUME GuardInv, TypeOK', NEW r \in Replicas, NEW call \in Calls, Goto(r, call),
         pc[r] # "idle",
         call \in CleanupCalls => pc[r] \in CleanupCalls,
         call \in WorkCalls => pc[r] \in WorkCalls,
         call # "add_finalizer",
         UNCHANGED <<obj, jobs, owner, configMap, everActive, cache>>
  PROVE  GuardInv'
<1>1. \A q \in Replicas : (pc'[q] = pc[q] /\ snap'[q] = snap[q]) \/ GuardedAt(q)
  BY GotoGuarded
<1>2. obj.live /\ (~ obj.paused \/ obj.finalizer) => obj.uid \in everActive
  BY DEF GuardInv, OnlyForActive
<1>3. JobNames' = JobNames
  BY DEF JobNames
<1> QED
  BY <1>1, <1>2, <1>3, GuardFrame

\* Starting a reconciliation leads to a call the snapshot allows.
LEMMA StartGuards ==
  ASSUME GuardInv, TypeOK', NEW r \in Replicas, StartReconcile(r)
  PROVE  GuardInv'
<1>1. /\ pc'[r] = FirstCall(cache[r]) /\ snap'[r] = cache[r] /\ cache[r].live
      /\ \A q \in Replicas \ {r} : pc'[q] = pc[q] /\ snap'[q] = snap[q]
      /\ UNCHANGED <<obj, jobs, owner, configMap, everActive, cache>>
  BY DEF StartReconcile, GuardInv, TypeOK, kube, history
<1>2. GuardedAt(r)
  <2>1. /\ FirstCall(cache[r]) \in CleanupCalls => cache[r].deleting
        /\ FirstCall(cache[r]) \in WorkCalls => cache[r].finalizer /\ ~ cache[r].paused
        /\ FirstCall(cache[r]) = "add_finalizer" => ~ cache[r].paused
    BY CallSets DEF FirstCall, AfterFinalizer, CleanupCalls
  <2> QED
    BY <1>1, <2>1 DEF GuardInv, OneIdentity, OnlyForActive, GuardedAt
<1>3. obj.live /\ (~ obj.paused \/ obj.finalizer) => obj.uid \in everActive
  BY DEF GuardInv, OnlyForActive
<1>4. JobNames' = JobNames
  BY <1>1 DEF JobNames
<1> QED
  BY <1>1, <1>2, <1>3, <1>4, GuardFrame

\* The finalizer is added to the object the snapshot was taken of, which had been seen
\* without the pause annotation.
LEMMA AddFinalizerGuards ==
  ASSUME GuardInv, TypeOK', NEW r \in Replicas, AddFinalizer(r), obj.live
  PROVE  GuardInv'
<1> DEFINE call == AfterFinalizer(snap[r])
<1>1. /\ pc[r] = "add_finalizer" /\ Goto(r, call)
      /\ obj' = [obj EXCEPT !.finalizer = TRUE]
      /\ UNCHANGED <<jobs, owner, configMap, everActive, cache>>
  BY DEF AddFinalizer, NotFound, history
<1>2. obj'.uid = obj.uid /\ obj'.live = obj.live /\ obj'.deleting = obj.deleting
      /\ obj'.finalizer /\ obj'.paused = obj.paused
  BY <1>1 DEF GuardInv, TypeOK, Objects
<1>3. /\ pc'[r] = call
      /\ call # "idle" => snap'[r] = snap[r]
      /\ \A q \in Replicas \ {r} : pc'[q] = pc[q] /\ snap'[q] = snap[q]
  BY <1>1, GotoMoves DEF GuardInv
<1>4. call \notin CleanupCalls /\ call # "add_finalizer"
  BY FirstCallType DEF CleanupCalls
<1>5. obj.uid \in everActive
  BY <1>1 DEF GuardInv, OnlyForActive
<1>6. GuardedAt(r)
  BY <1>1, <1>2, <1>3, <1>4, <1>5 DEF GuardInv, OneIdentity, GuardedAt
<1>7. JobNames' = JobNames
  BY <1>1 DEF JobNames
<1> QED
  BY <1>1, <1>2, <1>3, <1>5, <1>6, <1>7, GuardFrame

\* A status patch changes nothing GuardInv speaks of but the call.
LEMMA PatchGuards ==
  ASSUME GuardInv, TypeOK', NEW r \in Replicas, NEW call \in Calls \ {"idle"},
         NEW conditions, NEW info, PatchStatus(r, call, conditions, info)
  PROVE  GuardInv'
<1>1. pc[r] # "idle" /\ "idle" \in Calls /\ "idle" \notin CleanupCalls \cup WorkCalls
  BY CallSets DEF PatchStatus, Calls
<1>2. CASE NotFound(r)
  BY <1>1, <1>2, GotoGuards DEF NotFound, kube, history
<1>3. CASE ~ NotFound(r)
  <2>1. /\ Goto(r, "idle")
        /\ obj' = [obj EXCEPT !.conditions = conditions,
                              !.observed = snap[r].generation, !.info = info]
        /\ UNCHANGED <<jobs, owner, configMap, everActive, cache>>
    BY <1>3 DEF PatchStatus, history
  <2>2. obj'.uid = obj.uid /\ obj'.live = obj.live /\ obj'.deleting = obj.deleting
        /\ obj'.finalizer = obj.finalizer /\ obj'.paused = obj.paused
    BY <2>1 DEF GuardInv, TypeOK, Objects
  <2>3. \A q \in Replicas : (pc'[q] = pc[q] /\ snap'[q] = snap[q]) \/ GuardedAt(q)
    BY <1>1, <2>1, <2>2, GotoGuarded
  <2>4. obj.live /\ (~ obj.paused \/ obj.finalizer) => obj.uid \in everActive
    BY DEF GuardInv, OnlyForActive
  <2>5. JobNames' = JobNames
    BY <2>1 DEF JobNames
  <2> QED
    BY <2>1, <2>2, <2>3, <2>4, <2>5, GuardFrame
<1> QED
  BY <1>2, <1>3

\* A ConfigMap and a Job are made by a reconciliation that has passed the finalizer.
LEMMA CreateGuards ==
  ASSUME GuardInv, TypeOK', NEW r \in Replicas,
         CreateOrUpdateConfigMap(r) \/ CreateJob(r)
  PROVE  GuardInv'
<1>1. /\ pc[r] \in WorkCalls /\ pc[r] # "idle"
      /\ UNCHANGED <<obj, everActive, cache>>
      /\ \E call \in Calls : /\ Goto(r, call) /\ call \notin CleanupCalls
                             /\ call # "add_finalizer"
  BY CallSets
  DEF CreateOrUpdateConfigMap, CreateJob, CreateCalls, CleanupCalls, Calls, history
<1>2. \A q \in Replicas : (pc'[q] = pc[q] /\ snap'[q] = snap[q]) \/ GuardedAt(q)
  BY <1>1, GotoGuarded
<1>3. /\ snap[r].uid = obj.uid /\ obj.uid \in everActive
      /\ obj.live => obj.finalizer
  BY <1>1 DEF GuardInv, OneIdentity, OnlyForActive
<1>4. configMap' \in {configMap, obj.uid}
  BY <1>3 DEF CreateOrUpdateConfigMap, CreateJob
<1>5. \A j \in JobNames' :
        (j \in JobNames /\ owner'[j] = owner[j]) \/ owner'[j] = obj.uid
  <2>1. CASE UNCHANGED <<jobs, owner>>
    BY <2>1 DEF JobNames
  <2>2. CASE /\ jobs' = [jobs EXCEPT ![clock] = build_restore_job(snap[r]).phase]
             /\ owner' = [owner EXCEPT ![clock] = build_restore_job(snap[r]).owner]
    <3>1. clock \in Seconds /\ owner \in [Seconds -> 0..MaxUid]
          /\ jobs \in [Seconds -> Phases \cup {Absent}]
      BY DEF GuardInv, TypeOK
    <3> QED
      BY <1>3, <2>2, <3>1 DEF JobNames, build_restore_job
  <2> QED
    BY <2>1, <2>2 DEF CreateOrUpdateConfigMap, CreateJob
<1>6. obj.live /\ (~ obj.paused \/ obj.finalizer) => obj.uid \in everActive
  BY DEF GuardInv, OnlyForActive
<1> QED
  BY <1>1, <1>2, <1>3, <1>4, <1>5, <1>6, GuardFrame

\* The cleanup removes Jobs, the ConfigMap and the finalizer of an object that is
\* marked for deletion, which is gone with its finalizer.
LEMMA CleanupGuards ==
  ASSUME GuardInv, TypeOK', NEW r \in Replicas,
         CleanupList(r) \/ CleanupJobs(r) \/ CleanupConfigMap(r) \/ RemoveFinalizer(r)
  PROVE  GuardInv'
<1>0. pc[r] \in CleanupCalls /\ pc[r] # "idle" /\ obj.deleting
  BY DEF CleanupList, CleanupJobs, CleanupConfigMap, RemoveFinalizer, CleanupCalls,
         GuardInv, OneIdentity
<1>1. /\ obj'.uid = obj.uid /\ obj'.deleting /\ (obj'.live => UNCHANGED obj)
      /\ UNCHANGED <<owner, everActive, cache>>
  <2>1. CASE UNCHANGED obj
    BY <1>0, <2>1
    DEF CleanupList, CleanupJobs, CleanupConfigMap, RemoveFinalizer, NotFound, kube, history
  <2>2. CASE RemoveFinalizer(r) /\ ~ NotFound(r)
    BY <1>0, <2>2 DEF RemoveFinalizer, history, GuardInv, TypeOK, Objects
  <2> QED
    BY <2>1, <2>2
    DEF CleanupList, CleanupJobs, CleanupConfigMap, RemoveFinalizer, NotFound, kube
<1>2. JobNames' \subseteq JobNames /\ configMap' \in {configMap, 0}
  <2>1. CASE UNCHANGED jobs
    BY <2>1
    DEF CleanupList, CleanupJobs, CleanupConfigMap, RemoveFinalizer, NotFound, kube,
        JobNames
  <2>2. CASE \E j \in todo[r] : jobs' = [jobs EXCEPT ![j] = Absent] /\ UNCHANGED configMap
    BY <2>2 DEF JobNames, GuardInv, TypeOK
  <2> QED
    BY <2>1, <2>2
    DEF CleanupList, CleanupJobs, CleanupConfigMap, RemoveFinalizer, NotFound, kube
<1>3. \A q \in Replicas : (pc'[q] = pc[q] /\ snap'[q] = snap[q]) \/ GuardedAt(q)
  <2>1. CASE UNCHANGED <<pc, snap>>
    BY <2>1
  <2>2. CASE \E call \in CleanupCalls \cup {"idle"} : call \in Calls /\ Goto(r, call)
    BY <1>0, <1>1, <2>2, CallSets, GotoGuarded
  <2> QED
    BY <2>1, <2>2
    DEF CleanupList, CleanupJobs, CleanupConfigMap, RemoveFinalizer, NotFound,
        CleanupCalls, Calls
<1>4. obj.live /\ (~ obj.paused \/ obj.finalizer) => obj.uid \in everActive
  BY DEF GuardInv, OnlyForActive
<1> QED
  BY <1>0, <1>1, <1>2, <1>3, <1>4, GuardFrame

\* A new object is created when no replica holds anything of the one before.
LEMMA UserCreatesGuards ==
  ASSUME PromptRecreate = FALSE, GuardInv, TypeOK', UserCreates
  PROVE  GuardInv'
<1> USE RestoreConstants
<1>1. /\ \A r \in Replicas : pc[r] = "idle" /\ ~ cache[r].live
      /\ UNCHANGED <<jobs, owner, configMap, cache, pc, snap>>
      /\ JobNames' = JobNames
  BY DEF UserCreates, operator, JobNames
<1>2. PICK p \in BOOLEAN :
        /\ obj' = [NoObject EXCEPT !.live = TRUE, !.uid = obj.uid + 1,
                                   !.generation = 1, !.paused = p]
        /\ everActive' = IF p THEN everActive ELSE everActive \cup {obj.uid + 1}
  BY DEF UserCreates
<1>3. /\ obj'.uid = obj.uid + 1 /\ ~ obj'.finalizer /\ (~ obj'.paused => ~ p)
      /\ obj.uid < MaxUid /\ obj.uid \in 0..MaxUid /\ obj'.uid \in Uids
  <2>1. obj' = [live |-> TRUE, uid |-> obj.uid + 1, generation |-> 1, paused |-> p,
                deleting |-> FALSE, finalizer |-> FALSE, conditions |-> {},
                observed |-> 0, info |-> FALSE]
    BY <1>2 DEF NoObject
  <2>2. obj.uid < MaxUid /\ obj.uid \in 0..MaxUid
    BY DEF UserCreates, GuardInv, TypeOK, Objects
  <2> QED
    BY <2>1, <2>2 DEF Uids
<1>4. OneIdentity'
  BY <1>1, <1>3, CallSets DEF OneIdentity
<1>5. OnlyForActive'
  BY <1>1, <1>2, <1>3, CallSets DEF GuardInv, OnlyForActive
<1>6. OwnersAge'
  <2>1. \A j \in JobNames : owner[j] \in 0..MaxUid
    BY DEF GuardInv, TypeOK, JobNames
  <2>2. configMap \in 0..MaxUid
    BY DEF GuardInv, TypeOK
  <2> QED
    BY <1>1, <1>3, <2>1, <2>2 DEF GuardInv, OwnersAge
<1>7. FinalizerGuardsJobs'
  <2>1. \A j \in JobNames : owner[j] \in 0..MaxUid
    BY DEF GuardInv, TypeOK, JobNames
  <2> QED
    BY <1>1, <1>3, <2>1 DEF GuardInv, OwnersAge, FinalizerGuardsJobs
<1> QED
  BY <1>4, <1>5, <1>6, <1>7 DEF GuardInv

\* Every step keeps GuardInv.
LEMMA GuardStep ==
  ASSUME PromptRecreate = FALSE, GuardInv, [Next]_vars
  PROVE  GuardInv'
<1> USE RestoreConstants
<1>0. /\ TypeOK'
      /\ obj.live /\ (~ obj.paused \/ obj.finalizer) => obj.uid \in everActive
  BY TypeStep DEF GuardInv, OnlyForActive
<1>1. ASSUME NEW r \in Replicas, Reconcile(r) PROVE GuardInv'
  <2>1. CASE NotFound(r) /\ pc[r] # "idle"
    BY <1>0, <2>1, CallSets, GotoGuards DEF NotFound, kube, history, Calls
  <2>2. CASE StartReconcile(r)
    BY <1>0, <2>2, StartGuards
  <2>3. CASE AddFinalizer(r)
    BY <1>0, <2>1, <2>3, AddFinalizerGuards DEF AddFinalizer
  <2>4. CASE ListJobs(r)
    <3>1. CallFor(classify_jobs({jobs[j] : j \in JobNames}), snap[r])
            \in Calls \ (CleanupCalls \cup {"add_finalizer"})
      BY CallForType, ClassifyType DEF Calls, CleanupCalls
    <3> QED
      BY <1>0, <2>4, <3>1, CallSets, GotoGuards DEF ListJobs, kube, history
  <2>5. CASE GetBackup(r) \/ ResolveCluster(r) \/ BuildConfig(r)
    <3>1. /\ pc[r] \in WorkCalls /\ pc[r] # "idle"
          /\ \E call \in Calls \ (CleanupCalls \cup {"add_finalizer"}) : Goto(r, call)
      BY <2>5, CallSets
      DEF GetBackup, ResolveCluster, BuildConfig, CreateCalls, CleanupCalls, Calls
    <3> QED
      BY <1>0, <2>5, <3>1, GotoGuards
      DEF GetBackup, ResolveCluster, BuildConfig, kube, history
  <2>6. CASE CreateOrUpdateConfigMap(r) \/ CreateJob(r)
    BY <1>0, <2>6, CreateGuards
  <2>7. CASE \/ UpdateStatusRunning(r) \/ UpdateStatusCompleted(r)
             \/ UpdateStatusFailed(r) \/ UpdateStatusError(r)
             \/ UpdateStatusReconciliationPaused(r)
    BY <1>0, <2>7, PatchGuards
    DEF UpdateStatusRunning, UpdateStatusCompleted, UpdateStatusFailed,
        UpdateStatusError, UpdateStatusReconciliationPaused, Calls
  <2>8. CASE \/ CleanupList(r) \/ CleanupJobs(r) \/ CleanupConfigMap(r)
             \/ RemoveFinalizer(r)
    BY <1>0, <2>8, CleanupGuards
  <2> QED
    BY <1>1, <2>2, <2>3, <2>4, <2>5, <2>6, <2>7, <2>8 DEF Reconcile
<1>2. ASSUME NEW r \in Replicas, Abort(r) PROVE GuardInv'
  BY <1>0, <1>2, CallSets, GotoGuards DEF Abort, kube, history, Calls
<1>3. ASSUME NEW r \in Replicas, SyncCache(r) PROVE GuardInv'
  <2>1. /\ UNCHANGED <<obj, jobs, owner, configMap, everActive, pc, snap>>
        /\ \A q \in Replicas : cache'[q] = cache[q] \/ cache'[q] = obj
    BY <1>3 DEF SyncCache, kube, history, GuardInv, TypeOK
  <2> QED
    BY <1>0, <2>1, GuardFrame DEF JobNames
<1>4. CASE JobRuns \/ JobDeleted \/ GarbageCollect
  <2>1. JobNames' \subseteq JobNames
    <3>1. CASE JobRuns
      <4>1. PICK j \in JobNames, q \in Phases : jobs' = [jobs EXCEPT ![j] = q]
        BY <3>1, JobRunsStep
      <4> QED
        BY <4>1 DEF JobNames, GuardInv, TypeOK
    <3>2. CASE JobDeleted \/ GarbageCollect
      BY <3>2 DEF JobDeleted, GarbageCollect, JobNames, GuardInv, TypeOK
    <3> QED BY <1>4, <3>1, <3>2
  <2>2. /\ UNCHANGED <<obj, owner, everActive, cache, pc, snap>>
        /\ configMap' \in {configMap, 0}
    BY <1>4 DEF JobRuns, JobDeleted, GarbageCollect, operator, history
  <2> QED
    BY <1>0, <2>1, <2>2, GuardFrame
<1>5. CASE Tick \/ DependencyChanges \/ UNCHANGED vars
  <2>1. UNCHANGED <<obj, jobs, owner, configMap, everActive, cache, pc, snap>>
    BY <1>5 DEF Tick, DependencyChanges, vars, operator, history
  <2> QED
    BY <1>0, <2>1, GuardFrame DEF JobNames
<1>6. CASE UserCreates
  BY <1>0, <1>6, UserCreatesGuards
<1>7. CASE UserTogglesPause \/ UserEditsSpec \/ UserDeletes
  <2>1. /\ obj'.uid = obj.uid /\ (obj.deleting => obj'.deleting)
        /\ (obj'.live => obj.live) /\ obj'.finalizer = obj.finalizer
        /\ obj'.live /\ (~ obj'.paused \/ obj'.finalizer) => obj.uid \in everActive'
        /\ everActive \subseteq everActive'
    BY <1>0, <1>7
    DEF UserTogglesPause, UserEditsSpec, UserDeletes, history, GuardInv, TypeOK, Objects
  <2>2. UNCHANGED <<jobs, owner, configMap, cache, pc, snap>> /\ JobNames' = JobNames
    BY <1>7 DEF UserTogglesPause, UserEditsSpec, UserDeletes, operator, JobNames
  <2> QED
    BY <1>0, <2>1, <2>2, GuardFrame
<1> QED
  BY <1>1, <1>2, <1>3, <1>4, <1>5, <1>6, <1>7 DEF Next, Environment

\* Nothing exists initially, and nothing is held.
LEMMA GuardInit == Init => GuardInv
<1> SUFFICES ASSUME Init PROVE GuardInv
  OBVIOUS
<1>1. TypeOK
  BY TypeInit
<1>2. JobNames = {} /\ ~ obj.live /\ obj.uid = 0 /\ configMap = 0
  BY DEF Init, JobNames, NoObject
<1>3. \A r \in Replicas : ~ cache[r].live /\ pc[r] = "idle"
  BY DEF Init, NoObject
<1>4. OneIdentity /\ OnlyForActive
  BY <1>2, <1>3, CallSets DEF OneIdentity, OnlyForActive
<1>5. OwnersAge /\ FinalizerGuardsJobs
  BY <1>2 DEF OwnersAge, FinalizerGuardsJobs
<1> QED
  BY <1>1, <1>4, <1>5 DEF GuardInv

\* A resource created paused and not resumed since is left alone by every replica:
\* reconciliations, aborted or not, give it no finalizer, no ConfigMap and no Job.
THEOREM PauseIsRespected ==
  ASSUME PromptRecreate = FALSE
  PROVE  Spec => []PausedFromBirthIsInert
<1>1. Init => GuardInv
  BY GuardInit
<1>2. GuardInv /\ [Next]_vars => GuardInv'
  BY GuardStep
<1>3. GuardInv => PausedFromBirthIsInert
  <2> SUFFICES ASSUME GuardInv, obj.live, obj.uid \notin everActive
               PROVE  /\ ~ obj.finalizer /\ configMap # obj.uid
                      /\ \A j \in JobNames : owner[j] # obj.uid
    BY DEF PausedFromBirthIsInert
  <2>1. obj.uid # 0
    BY DEF GuardInv, OneIdentity, Uids
  <2> QED
    BY <2>1 DEF GuardInv, OnlyForActive
<1> QED
  BY <1>1, <1>2, <1>3, PTL DEF Spec

-----------------------------------------------------------------------------
(***************************************************************************)
(* The finalizer, when the name is reused at once.                         *)
(***************************************************************************)

\* A step keeps ReuseInv when it adds no Job, leaves the object but for its status and
\* annotations, and goes on to a call of the kind it comes from, or returns.
LEMMA ReuseFrame ==
  ASSUME NEW op, Replicas = {op}, ReuseInv, TypeOK',
         obj'.uid = obj.uid, obj'.live = obj.live, obj'.deleting = obj.deleting,
         obj'.finalizer = obj.finalizer,
         JobNames' \subseteq JobNames, UNCHANGED <<owner, created, cache>>,
         pc'[op] # "idle" =>
           /\ pc[op] # "idle" /\ snap'[op] = snap[op]
           /\ pc'[op] \in CleanupCalls <=> pc[op] \in CleanupCalls
           /\ pc'[op] \in WorkCalls => pc[op] \in WorkCalls
  PROVE  ReuseInv'
<1>0. {"idle"} \cap (WorkCalls \cup CleanupCalls) = {}
  BY CallSets
<1>1. SnapshotsAge'
  BY DEF ReuseInv, SnapshotsAge, NotNewer
<1>2. CleanupIsForDeleted'
  BY DEF ReuseInv, CleanupIsForDeleted
<1>3. JobsAge'
  BY DEF ReuseInv, JobsAge
<1>4. SeenFinalizerStays'
  BY <1>0 DEF ReuseInv, SeenFinalizerStays
<1>5. CleanupTakesNothing'
  BY <1>0 DEF ReuseInv, CleanupTakesNothing
<1>6. GoesByCleanup'
  BY <1>0 DEF ReuseInv, GoesByCleanup
<1>7. FinalizerGuardsJobs'
  BY DEF ReuseInv, FinalizerGuardsJobs
<1> QED
  BY <1>1, <1>2, <1>3, <1>4, <1>5, <1>6, <1>7 DEF ReuseInv

\* The form the frame takes for a call that goes on to another.
LEMMA GotoReuse ==
  ASSUME NEW op, Replicas = {op}, ReuseInv, TypeOK',
         NEW call \in Calls, Goto(op, call), pc[op] # "idle",
         call # "idle" => (call \in CleanupCalls <=> pc[op] \in CleanupCalls),
         call \in WorkCalls => pc[op] \in WorkCalls,
         JobNames' \subseteq JobNames, UNCHANGED <<owner, created, cache>>,
         obj'.uid = obj.uid, obj'.live = obj.live, obj'.deleting = obj.deleting,
         obj'.finalizer = obj.finalizer
  PROVE  ReuseInv'
<1>1. pc'[op] = call /\ (call # "idle" => snap'[op] = snap[op])
  BY GotoMoves DEF ReuseInv
<1> QED
  BY <1>1, ReuseFrame

\* The beginning of a reconciliation: the snapshot is the cache.
LEMMA StartReuse ==
  ASSUME NEW op, Replicas = {op}, ReuseInv, TypeOK', StartReconcile(op)
  PROVE  ReuseInv'
<1>1. /\ pc[op] = "idle" /\ pc'[op] = FirstCall(cache[op]) /\ snap'[op] = cache[op]
      /\ cache[op].live /\ UNCHANGED <<obj, jobs, owner, created, cache>>
      /\ JobNames' = JobNames
  BY DEF StartReconcile, ReuseInv, TypeOK, kube, history, JobNames
<1>2. /\ pc'[op] \in CleanupCalls <=> cache[op].deleting
      /\ pc'[op] \in WorkCalls => cache[op].finalizer /\ ~ cache[op].deleting
  BY <1>1, CallSets
  DEF FirstCall, AfterFinalizer, CleanupCalls
<1>3. SnapshotsAge' /\ CleanupIsForDeleted'
  BY <1>1, <1>2 DEF ReuseInv, SnapshotsAge, CleanupIsForDeleted, NotNewer
<1>4. JobsAge'
  BY <1>1 DEF ReuseInv, JobsAge
<1>5. SeenFinalizerStays'
  BY <1>1, <1>2 DEF ReuseInv, SeenFinalizerStays
<1>6. CleanupTakesNothing'
  BY <1>1, <1>2 DEF ReuseInv, CleanupTakesNothing
<1>7. GoesByCleanup'
  BY <1>1, <1>2 DEF ReuseInv, GoesByCleanup
<1>8. FinalizerGuardsJobs'
  BY <1>1 DEF ReuseInv, FinalizerGuardsJobs
<1> QED
  BY <1>3, <1>4, <1>5, <1>6, <1>7, <1>8 DEF ReuseInv

\* The watch delivers.  Whoever is at work meanwhile learns of no deletion that has
\* been completed, as it would have to complete it itself.
LEMMA SyncReuse ==
  ASSUME NEW op, Replicas = {op}, ReuseInv, TypeOK', SyncCache(op)
  PROVE  ReuseInv'
<1>1. /\ cache'[op] = obj /\ UNCHANGED <<obj, jobs, owner, created, pc, snap>>
      /\ JobNames' = JobNames
  BY DEF SyncCache, ReuseInv, TypeOK, kube, history, JobNames
<1>2. /\ obj.uid \in 0..MaxUid /\ cache[op].uid \in 0..MaxUid
      /\ snap[op].uid \in 0..MaxUid /\ owner \in [Seconds -> 0..MaxUid]
  BY DEF ReuseInv, TypeOK, Objects
<1>3. SnapshotsAge'
  BY <1>1, <1>2, RestoreConstants DEF ReuseInv, SnapshotsAge, NotNewer
<1>4. CleanupIsForDeleted'
  BY <1>1 DEF ReuseInv, CleanupIsForDeleted
<1>5. JobsAge'
  BY <1>1, <1>2, RestoreConstants
  DEF ReuseInv, JobsAge, SnapshotsAge, NotNewer, Uids, JobNames
<1>6. SeenFinalizerStays'
  BY <1>1 DEF ReuseInv, SeenFinalizerStays
<1>7. CleanupTakesNothing'
  BY <1>1 DEF ReuseInv, CleanupTakesNothing
<1>8. GoesByCleanup'
  BY <1>1 DEF ReuseInv, GoesByCleanup, CleanupIsForDeleted
<1>9. FinalizerGuardsJobs'
  BY <1>1 DEF ReuseInv, FinalizerGuardsJobs
<1> QED
  BY <1>3, <1>4, <1>5, <1>6, <1>7, <1>8, <1>9 DEF ReuseInv

\* The finalizer is added to whatever object has the name; a cleanup that could take it
\* away again is not under way, since its object would still be there.
LEMMA AddFinalizerReuse ==
  ASSUME NEW op, Replicas = {op}, ReuseInv, TypeOK', AddFinalizer(op), obj.live
  PROVE  ReuseInv'
<1>1. /\ pc[op] = "add_finalizer" /\ pc'[op] \in {"idle", "list_jobs"}
      /\ pc'[op] # "idle" => snap'[op] = snap[op]
      /\ obj' = [obj EXCEPT !.finalizer = TRUE]
      /\ UNCHANGED <<jobs, owner, created, cache>> /\ JobNames' = JobNames
  BY FirstCallType, GotoMoves DEF AddFinalizer, NotFound, ReuseInv, history, JobNames
<1>2. /\ obj'.uid = obj.uid /\ obj'.live /\ obj'.deleting = obj.deleting
      /\ obj'.finalizer
  BY <1>1 DEF ReuseInv, TypeOK, Objects
<1>3. /\ pc[op] # "idle" /\ pc[op] \notin CleanupCalls /\ pc'[op] \notin CleanupCalls
  BY <1>1 DEF CleanupCalls
<1>4. SnapshotsAge' /\ CleanupIsForDeleted'
  BY <1>1, <1>2, <1>3 DEF ReuseInv, SnapshotsAge, CleanupIsForDeleted, NotNewer
<1>5. JobsAge'
  BY <1>1, <1>3 DEF ReuseInv, JobsAge
<1>6. SeenFinalizerStays' /\ FinalizerGuardsJobs'
  BY <1>2 DEF SeenFinalizerStays, FinalizerGuardsJobs
<1>7. CleanupTakesNothing'
  BY <1>1, <1>2, <1>3 DEF ReuseInv, CleanupTakesNothing, GoesByCleanup
<1>8. GoesByCleanup'
  BY <1>1, <1>2, <1>3 DEF ReuseInv, GoesByCleanup
<1> QED
  BY <1>4, <1>5, <1>6, <1>7, <1>8 DEF ReuseInv

\* The finalizer is removed: from the object that was cleaned up, which is gone then, or
\* from a later one that has none and no Job either.
LEMMA RemoveFinalizerReuse ==
  ASSUME NEW op, Replicas = {op}, ReuseInv, TypeOK', RemoveFinalizer(op), obj.live
  PROVE  ReuseInv'
<1>1. /\ pc[op] = "remove_finalizer" /\ pc'[op] = "idle"
      /\ obj' = [obj EXCEPT !.finalizer = FALSE, !.live = ~ obj.deleting]
      /\ UNCHANGED <<jobs, owner, created, cache>> /\ JobNames' = JobNames
  BY GotoMoves DEF RemoveFinalizer, NotFound, ReuseInv, history, JobNames
<1>2. /\ obj'.uid = obj.uid /\ obj'.live = ~ obj.deleting
      /\ obj'.deleting = obj.deleting /\ ~ obj'.finalizer
  BY <1>1 DEF ReuseInv, TypeOK, Objects
<1>3. pc[op] # "idle" /\ pc[op] \in CleanupCalls /\ snap[op].deleting
  BY <1>1 DEF ReuseInv, CleanupIsForDeleted, CleanupCalls
<1>4. /\ obj.uid \in 0..MaxUid /\ cache[op].uid \in 0..MaxUid
      /\ snap[op].uid \in 0..MaxUid /\ owner \in [Seconds -> 0..MaxUid]
  BY DEF ReuseInv, TypeOK, Objects
<1>5. NotNewer(snap[op], cache[op]) /\ NotNewer(cache[op], obj)
  BY <1>3 DEF ReuseInv, SnapshotsAge
<1>6. CASE snap[op].uid = obj.uid
  <2>1. cache[op].uid = obj.uid /\ cache[op].deleting /\ obj.deleting
    BY <1>3, <1>4, <1>5, <1>6, RestoreConstants DEF NotNewer
  <2>2. ~ obj'.live /\ obj'.deleting
    BY <1>2, <2>1
  <2>3. SnapshotsAge' /\ CleanupIsForDeleted' /\ JobsAge'
    BY <1>1, <1>2, <2>2 DEF ReuseInv, SnapshotsAge, CleanupIsForDeleted, JobsAge, NotNewer
  <2>4. SeenFinalizerStays' /\ CleanupTakesNothing' /\ FinalizerGuardsJobs'
    BY <1>1, <1>2, <2>2, CallSets
    DEF SeenFinalizerStays, CleanupTakesNothing, FinalizerGuardsJobs
  <2>5. GoesByCleanup'
    BY <1>1, <1>2, <2>1, <2>2 DEF GoesByCleanup
  <2> QED
    BY <2>3, <2>4, <2>5 DEF ReuseInv
<1>7. CASE snap[op].uid # obj.uid
  <2>1. ~ obj.finalizer
    BY <1>3, <1>7 DEF ReuseInv, CleanupTakesNothing
  <2>2. ~ obj.deleting /\ obj'.live
    BY <1>2, <2>1 DEF ReuseInv, SeenFinalizerStays
  <2>3. obj'.finalizer = obj.finalizer /\ obj'.live = obj.live
    BY <1>2, <2>1, <2>2 DEF ReuseInv, TypeOK, Objects
  <2> QED
    BY <1>1, <1>2, <2>3, ReuseFrame
<1> QED
  BY <1>6, <1>7

\* A Job is created for the snapshot's object: if that is the one under the name, the
\* object has the finalizer.
LEMMA CreateJobReuse ==
  ASSUME NEW op, Replicas = {op}, ReuseInv, TypeOK', CreateJob(op)
  PROVE  ReuseInv'
<1>0. /\ pc[op] = "create_job" /\ pc[op] # "idle" /\ pc[op] \in WorkCalls
      /\ {"idle", "update_status_running"} \subseteq Calls
      /\ "idle" \notin WorkCalls /\ "update_status_running" \in WorkCalls
      /\ ({"create_job", "idle", "update_status_running"} \cap CleanupCalls) = {}
  BY CallSets DEF CreateJob, CreateCalls, Calls
<1>1. UNCHANGED <<obj, cache>>
  BY DEF CreateJob
<1>2. CASE jobs[clock] # Absent
  <2>1. Goto(op, "idle") /\ UNCHANGED <<jobs, owner, created>> /\ JobNames' = JobNames
    BY <1>2 DEF CreateJob, JobNames
  <2> QED
    BY <1>0, <1>1, <2>1, GotoReuse
<1>3. CASE jobs[clock] = Absent
  <2>1. /\ owner' = [owner EXCEPT ![clock] = snap[op].uid]
        /\ created' = [created EXCEPT ![snap[op].uid] = AtMostTwo(@ + 1)]
        /\ pc'[op] = "update_status_running" /\ snap'[op] = snap[op]
    BY <1>3, GotoMoves DEF CreateJob, build_restore_job, ReuseInv
  <2>2. JobNames' \subseteq JobNames \cup {clock}
    BY <1>3 DEF CreateJob, JobNames, build_restore_job, ReuseInv, TypeOK
  <2>3. /\ obj.uid \in 0..MaxUid /\ cache[op].uid \in 0..MaxUid
        /\ snap[op].uid \in Uids /\ owner \in [Seconds -> 0..MaxUid] /\ clock \in Seconds
        /\ created \in [Uids -> 0..2] /\ NotNewer(snap[op], cache[op])
    BY <1>0 DEF ReuseInv, TypeOK, Objects, SnapshotsAge
  <2>4. snap[op].uid <= cache[op].uid
    BY <2>3, RestoreConstants DEF NotNewer, Uids
  <2>5. \A j \in JobNames' :
          \/ j \in JobNames /\ owner'[j] = owner[j]
          \/ j = clock /\ owner'[j] = snap[op].uid
    BY <2>1, <2>2, <2>3 DEF JobNames
  <2>6. \A u \in Uids : created'[u] > 0 => created[u] > 0 \/ u = snap[op].uid
    BY <2>1, <2>3
  <2>7. SnapshotsAge' /\ CleanupIsForDeleted'
    BY <1>0, <1>1, <2>1 DEF ReuseInv, SnapshotsAge, CleanupIsForDeleted, NotNewer
  <2>8. JobsAge'
    <3>1. snap[op].uid <= snap[op].uid
      BY <2>3, RestoreConstants DEF Uids
    <3> QED
      BY <1>0, <1>1, <2>1, <2>4, <2>5, <2>6, <3>1 DEF ReuseInv, JobsAge
  <2>9. SeenFinalizerStays' /\ CleanupTakesNothing' /\ GoesByCleanup'
    BY <1>0, <1>1, <2>1 DEF ReuseInv, SeenFinalizerStays, CleanupTakesNothing, GoesByCleanup
  <2>10. FinalizerGuardsJobs'
    BY <1>0, <1>1, <2>5 DEF ReuseInv, FinalizerGuardsJobs, SeenFinalizerStays
  <2> QED
    BY <2>7, <2>8, <2>9, <2>10 DEF ReuseInv
<1> QED
  BY <1>2, <1>3

\* A new object under the name: nothing the operator holds is about it, and no Job is.
LEMMA UserCreatesReuse ==
  ASSUME NEW op, Replicas = {op}, ReuseInv, TypeOK', UserCreates
  PROVE  ReuseInv'
<1>1. /\ ~ obj.live /\ obj.uid < MaxUid
      /\ \E p \in BOOLEAN :
           obj' = [NoObject EXCEPT !.live = TRUE, !.uid = obj.uid + 1,
                                   !.generation = 1, !.paused = p]
      /\ UNCHANGED <<jobs, owner, created, cache, pc, snap>> /\ JobNames' = JobNames
  BY DEF UserCreates, operator, JobNames
<1>2. /\ obj'.uid = obj.uid + 1 /\ obj'.live /\ ~ obj'.deleting /\ ~ obj'.finalizer
  BY <1>1 DEF NoObject
<1>3. /\ obj.uid \in 0..MaxUid /\ cache[op].uid \in 0..MaxUid
      /\ snap[op].uid \in 0..MaxUid /\ owner \in [Seconds -> 0..MaxUid]
      /\ NotNewer(cache[op], obj)
      /\ pc[op] # "idle" => NotNewer(snap[op], cache[op])
  BY DEF ReuseInv, TypeOK, Objects, SnapshotsAge
<1>4. /\ cache[op].uid < obj'.uid /\ cache[op].uid # obj'.uid
      /\ pc[op] # "idle" => snap[op].uid # obj'.uid
  BY <1>2, <1>3, RestoreConstants DEF NotNewer
<1>5. SnapshotsAge'
  BY <1>1, <1>2, <1>3, <1>4, RestoreConstants DEF ReuseInv, SnapshotsAge, NotNewer, Uids
<1>6. CleanupIsForDeleted' /\ JobsAge'
  BY <1>1 DEF ReuseInv, CleanupIsForDeleted, JobsAge
<1>7. SeenFinalizerStays' /\ CleanupTakesNothing'
  BY <1>1, <1>2, <1>4, CallSets DEF SeenFinalizerStays, CleanupTakesNothing
<1>8. GoesByCleanup'
  BY <1>1, <1>2 DEF ReuseInv, GoesByCleanup
<1>9. FinalizerGuardsJobs'
  <2>1. \A j \in JobNames : owner[j] <= cache[op].uid /\ owner[j] \in 0..MaxUid
    BY <1>3 DEF ReuseInv, JobsAge, JobNames
  <2> QED
    BY <1>1, <1>2, <1>3, <1>4, <2>1, RestoreConstants DEF FinalizerGuardsJobs
<1> QED
  BY <1>5, <1>6, <1>7, <1>8, <1>9 DEF ReuseInv

\* The user deletes: with the finalizer the object is marked, without it gone at once.
LEMMA UserDeletesReuse ==
  ASSUME NEW op, Replicas = {op}, ReuseInv, TypeOK', UserDeletes
  PROVE  ReuseInv'
<1>1. /\ obj.live /\ ~ obj.deleting
      /\ obj' = IF obj.finalizer THEN [obj EXCEPT !.deleting = TRUE]
                ELSE [obj EXCEPT !.live = FALSE]
      /\ UNCHANGED <<jobs, owner, created, cache, pc, snap>> /\ JobNames' = JobNames
  BY DEF UserDeletes, operator, history, JobNames
<1>2. /\ obj'.uid = obj.uid /\ obj'.finalizer = obj.finalizer
      /\ obj'.live = obj.finalizer /\ obj'.deleting = obj.finalizer
  BY <1>1 DEF ReuseInv, TypeOK, Objects
<1>3. cache[op].uid = obj.uid => ~ cache[op].deleting
  <2>1. NotNewer(cache[op], obj) /\ obj.uid \in 0..MaxUid
    BY DEF ReuseInv, TypeOK, Objects, SnapshotsAge
  <2> QED
    BY <1>1, <2>1, RestoreConstants DEF NotNewer
<1>4. SnapshotsAge'
  BY <1>1, <1>2 DEF ReuseInv, SnapshotsAge, NotNewer
<1>5. CleanupIsForDeleted' /\ JobsAge'
  BY <1>1 DEF ReuseInv, CleanupIsForDeleted, JobsAge
<1>6. SeenFinalizerStays' /\ CleanupTakesNothing' /\ FinalizerGuardsJobs'
  BY <1>1, <1>2 DEF ReuseInv, SeenFinalizerStays, CleanupTakesNothing, FinalizerGuardsJobs
<1>7. GoesByCleanup'
  BY <1>1, <1>2, <1>3 DEF ReuseInv, GoesByCleanup
<1> QED
  BY <1>4, <1>5, <1>6, <1>7 DEF ReuseInv

\* Every step keeps ReuseInv.
LEMMA ReuseStep ==
  ASSUME NEW op, Replicas = {op}, ReuseInv, [Next]_vars
  PROVE  ReuseInv'
<1>0. TypeOK' /\ TypeOK /\ op \in Replicas /\ "idle" \in Calls
  BY TypeStep DEF ReuseInv, Calls
<1>1. CASE StartReconcile(op)
  BY <1>0, <1>1, StartReuse
<1>2. CASE SyncCache(op)
  BY <1>0, <1>2, SyncReuse
<1>3. CASE CreateJob(op)
  BY <1>0, <1>3, CreateJobReuse
<1>4. CASE NotFound(op) /\ pc[op] # "idle"
  <2>1. Goto(op, "idle") /\ UNCHANGED <<obj, jobs, owner, created, cache>>
        /\ JobNames' = JobNames
    BY <1>4 DEF NotFound, kube, history, JobNames
  <2> QED
    BY <1>0, <1>4, <2>1, GotoReuse, CallSets
<1>5. CASE AddFinalizer(op)
  <2>1. pc[op] # "idle" /\ (obj.live \/ NotFound(op))
    BY <1>5 DEF AddFinalizer
  <2> QED
    BY <1>0, <1>4, <1>5, <2>1, AddFinalizerReuse
<1>6. CASE \/ ListJobs(op) \/ GetBackup(op) \/ ResolveCluster(op) \/ BuildConfig(op)
           \/ CreateOrUpdateConfigMap(op)
  <2>1. UNCHANGED <<obj, jobs, owner, created, cache>> /\ JobNames' = JobNames
    BY <1>6
    DEF ListJobs, GetBackup, ResolveCluster, BuildConfig, CreateOrUpdateConfigMap,
        kube, history, JobNames
  <2>2. pc[op] \in WorkCalls /\ pc[op] # "idle" /\ pc[op] \notin CleanupCalls
    BY <1>6, CallSets
    DEF ListJobs, GetBackup, ResolveCluster, BuildConfig, CreateOrUpdateConfigMap,
        CreateCalls
  <2>3. PICK call \in Calls \ CleanupCalls : Goto(op, call)
    <3>1. CASE ListJobs(op)
      <4>1. CallFor(classify_jobs({jobs[j] : j \in JobNames}), snap[op])
              \in Calls \ CleanupCalls
        BY CallForType, ClassifyType DEF Calls, CleanupCalls
      <4> QED
        BY <3>1, <4>1 DEF ListJobs
    <3>2. CASE ~ ListJobs(op)
      BY <1>6, <3>2
      DEF GetBackup, ResolveCluster, BuildConfig, CreateOrUpdateConfigMap, Calls,
          CleanupCalls
    <3> QED
      BY <3>1, <3>2
  <2> QED
    BY <1>0, <2>1, <2>2, <2>3, GotoReuse
<1>7. ASSUME NEW call \in Calls \ {"idle"}, NEW conditions, NEW info,
             PatchStatus(op, call, conditions, info)
      PROVE  ReuseInv'
  <2>1. pc[op] # "idle"
    BY <1>7 DEF PatchStatus
  <2>2. CASE ~ NotFound(op)
    <3>1. /\ obj'.uid = obj.uid /\ obj'.deleting = obj.deleting
          /\ obj'.live = obj.live /\ obj'.finalizer = obj.finalizer
      BY <1>7, <2>2 DEF PatchStatus, ReuseInv, TypeOK, Objects
    <3>2. Goto(op, "idle") /\ UNCHANGED <<jobs, owner, created, cache>>
          /\ JobNames' = JobNames
      BY <1>7, <2>2 DEF PatchStatus, history, JobNames
    <3> QED
      BY <1>0, <2>1, <3>1, <3>2, GotoReuse, CallSets
  <2> QED
    BY <1>4, <2>1, <2>2
<1>8. CASE \/ UpdateStatusRunning(op) \/ UpdateStatusCompleted(op)
           \/ UpdateStatusFailed(op) \/ UpdateStatusError(op)
           \/ UpdateStatusReconciliationPaused(op)
  BY <1>7, <1>8
  DEF UpdateStatusRunning, UpdateStatusCompleted, UpdateStatusFailed,
      UpdateStatusError, UpdateStatusReconciliationPaused, Calls
<1>9. CASE CleanupList(op) \/ CleanupJobs(op) \/ CleanupConfigMap(op)
  <2>1. UNCHANGED <<obj, owner, created, cache>> /\ JobNames' \subseteq JobNames
    BY <1>0, <1>9
    DEF CleanupList, CleanupJobs, CleanupConfigMap, kube, history, JobNames, TypeOK
  <2>2. pc[op] \in CleanupCalls /\ pc[op] # "idle"
    BY <1>9 DEF CleanupList, CleanupJobs, CleanupConfigMap, CleanupCalls
  <2>3. \/ UNCHANGED <<pc, snap>>
        \/ \E call \in CleanupCalls \ {"idle"} : call \in Calls /\ Goto(op, call)
    BY <1>9 DEF CleanupList, CleanupJobs, CleanupConfigMap, CleanupCalls, Calls
  <2>4. CASE UNCHANGED <<pc, snap>>
    BY <1>0, <2>1, <2>2, <2>4, ReuseFrame
  <2>5. CASE \E call \in CleanupCalls \ {"idle"} : call \in Calls /\ Goto(op, call)
    BY <1>0, <2>1, <2>2, <2>5, GotoReuse, CallSets
  <2> QED
    BY <2>3, <2>4, <2>5
<1>10. CASE RemoveFinalizer(op)
  <2>1. pc[op] # "idle" /\ (obj.live \/ NotFound(op))
    BY <1>10 DEF RemoveFinalizer
  <2> QED
    BY <1>0, <1>4, <1>10, <2>1, RemoveFinalizerReuse
<1>11. CASE Abort(op)
  <2>1. Goto(op, "idle") /\ pc[op] # "idle" /\ JobNames' = JobNames
        /\ UNCHANGED <<obj, jobs, owner, created, cache>>
    BY <1>11 DEF Abort, kube, history, JobNames
  <2> QED
    BY <1>0, <2>1, GotoReuse, CallSets
<1>12. CASE \/ JobRuns \/ JobDeleted \/ GarbageCollect \/ Tick \/ DependencyChanges
            \/ UserTogglesPause \/ UserEditsSpec \/ UNCHANGED vars
  <2>1. UNCHANGED <<owner, created, cache, pc, snap>>
    BY <1>12
    DEF JobRuns, JobDeleted, GarbageCollect, Tick, DependencyChanges, UserTogglesPause,
        UserEditsSpec, operator, history, vars
  <2>2. JobNames' \subseteq JobNames
    <3>1. CASE JobRuns
      <4>1. PICK j \in JobNames, q \in Phases : jobs' = [jobs EXCEPT ![j] = q]
        BY <3>1, JobRunsStep
      <4> QED
        BY <1>0, <4>1 DEF JobNames, TypeOK
    <3>2. CASE ~ JobRuns
      BY <1>0, <1>12, <3>2
      DEF JobDeleted, GarbageCollect, Tick, DependencyChanges, UserTogglesPause,
          UserEditsSpec, JobNames, TypeOK, vars
    <3> QED
      BY <3>1, <3>2
  <2>3. /\ obj'.uid = obj.uid /\ obj'.deleting = obj.deleting
        /\ obj'.live = obj.live /\ obj'.finalizer = obj.finalizer
    BY <1>0, <1>12
    DEF JobRuns, JobDeleted, GarbageCollect, Tick, DependencyChanges, UserTogglesPause,
        UserEditsSpec, vars, TypeOK, Objects
  <2> QED
    BY <1>0, <2>1, <2>2, <2>3, ReuseFrame
<1>13. CASE UserCreates
  BY <1>0, <1>13, UserCreatesReuse
<1>14. CASE UserDeletes
  BY <1>0, <1>14, UserDeletesReuse
<1> QED
  BY <1>1, <1>2, <1>3, <1>5, <1>6, <1>8, <1>9, <1>10, <1>11, <1>12, <1>13, <1>14
  DEF Next, Reconcile, Environment

\* It holds when nothing has happened yet.
LEMMA ReuseInit == Init => ReuseInv
<1> SUFFICES ASSUME Init PROVE ReuseInv
  OBVIOUS
<1>1. TypeOK
  BY TypeInit
<1>2. /\ JobNames = {} /\ ~ obj.live /\ ~ obj.deleting /\ obj.uid = 0
      /\ \A r \in Replicas : pc[r] = "idle" /\ cache[r] = NoObject
      /\ \A u \in Uids : created[u] = 0
  BY DEF Init, JobNames, NoObject
<1>3. SnapshotsAge /\ CleanupIsForDeleted
  BY <1>2 DEF SnapshotsAge, CleanupIsForDeleted, NotNewer, NoObject
<1>4. JobsAge
  BY <1>2 DEF JobsAge
<1>5. SeenFinalizerStays /\ CleanupTakesNothing /\ GoesByCleanup /\ FinalizerGuardsJobs
  BY <1>2, CallSets
  DEF SeenFinalizerStays, CleanupTakesNothing, GoesByCleanup, FinalizerGuardsJobs,
      NoObject
<1> QED
  BY <1>1, <1>3, <1>4, <1>5 DEF ReuseInv

\* While a Job of the object under the name exists, the object has the operator's
\* finalizer, however far the caches lag, with failing calls, restarts and pauses, so
\* deleting a restore goes through handle_cleanup: for any number of replicas when no
\* name is reused before they noticed, and for one replica when it may be.
THEOREM FinalizerAlwaysGuards ==
  ASSUME NEW CONSTANT op, PromptRecreate = FALSE \/ Replicas = {op}
  PROVE  Spec => []FinalizerGuardsJobs
<1>1. CASE PromptRecreate = FALSE
  <2>1. Init => GuardInv
    BY GuardInit
  <2>2. GuardInv /\ [Next]_vars => GuardInv'
    BY <1>1, GuardStep
  <2>3. GuardInv => FinalizerGuardsJobs
    BY DEF GuardInv
  <2> QED
    BY <2>1, <2>2, <2>3, PTL DEF Spec
<1>2. CASE Replicas = {op}
  <2>1. Init => ReuseInv
    BY ReuseInit
  <2>2. ReuseInv /\ [Next]_vars => ReuseInv'
    BY <1>2, ReuseStep
  <2>3. ReuseInv => FinalizerGuardsJobs
    BY DEF ReuseInv
  <2> QED
    BY <2>1, <2>2, <2>3, PTL DEF Spec
<1> QED
  BY <1>1, <1>2

-----------------------------------------------------------------------------
(***************************************************************************)
(* A completion that is reported is one of this very resource.             *)
(***************************************************************************)

\* Only the conditions of a completion say RestoreComplete.
LEMMA OnlyCompletedIsComplete ==
  ASSUME NEW conditions \in {{}, Running, Failed, Unresolved, Paused}
  PROVE  ~ is_condition_true(conditions, "RestoreComplete")
  BY DEF Running, Failed, Unresolved, Paused, error_conditions, not_ready,
         new_condition, reconciliation_paused, is_condition_true

\* A step keeps GenuineInv when the object stays as it is but for its status, no Job
\* is added, and what comes to be said of a success is true.
LEMMA GenuineFrame ==
  ASSUME NEW op, Replicas = {op}, GenuineInv, GuardInv',
         obj'.uid = obj.uid, obj'.live = obj.live, cache'[op] = cache[op],
         JobNames' \subseteq JobNames, owner' = owner, succeeded \subseteq succeeded',
         \A j \in JobNames' : jobs'[j] = "succeeded" => owner[j] \in succeeded',
         obj'.live /\ (obj'.info \/ IsComplete(obj')) => obj.uid \in succeeded',
         pc'[op] # "idle" => pc[op] # "idle" /\ snap'[op] = snap[op],
         pc'[op] \in WorkCalls => obj.live,
         pc'[op] \in CleanupCalls => pc[op] \in CleanupCalls,
         pc'[op] = "cleanup_jobs" => JobNames' \subseteq todo'[op],
         pc'[op] \in {"cleanup_config_map", "remove_finalizer"} => JobNames' = {},
         pc'[op] = "update_status_completed" => obj.uid \in succeeded'
  PROVE  GenuineInv'
<1>1. HeldByFinalizer'
  <2>1. /\ pc'[op] \in WorkCalls => obj'.live
        /\ cache'[op].live /\ cache'[op].finalizer /\ ~ cache'[op].deleting => obj'.live
        /\ pc'[op] \in CleanupCalls /\ cache'[op].live => cache'[op].deleting
    BY DEF GenuineInv, HeldByFinalizer
  <2> QED
    BY <2>1 DEF HeldByFinalizer, WorkCalls
<1>2. CleanupIsComplete'
  BY DEF GenuineInv, CleanupIsComplete
<1>3. SuccessIsGenuine'
  BY DEF GenuineInv, SuccessIsGenuine
<1>4. CompletionIsGenuine'
  BY DEF CompletionIsGenuine, IsComplete
<1> QED
  BY <1>1, <1>2, <1>3, <1>4 DEF GenuineInv

\* A step of the reconciliation that touches neither object nor Jobs keeps GenuineInv.
LEMMA GotoGenuine ==
  ASSUME NEW op, Replicas = {op}, GenuineInv, GuardInv',
         NEW call \in Calls, Goto(op, call), pc[op] # "idle",
         call \in WorkCalls => pc[op] \in WorkCalls,
         call \in CleanupCalls => pc[op] \in CleanupCalls,
         call = "cleanup_jobs" => JobNames \subseteq todo'[op],
         call \in {"cleanup_config_map", "remove_finalizer"} => JobNames = {},
         call = "update_status_completed" => obj.uid \in succeeded,
         UNCHANGED <<obj, jobs, owner, cache, succeeded>>
  PROVE  GenuineInv'
<1>1. /\ pc'[op] = call /\ (call # "idle" => snap'[op] = snap[op])
      /\ JobNames' = JobNames
  BY GotoMoves DEF GenuineInv, GuardInv, JobNames
<1>2. /\ obj.live /\ (obj.info \/ IsComplete(obj)) => obj.uid \in succeeded
      /\ \A j \in JobNames : jobs[j] = "succeeded" => owner[j] \in succeeded
      /\ pc[op] \in WorkCalls => obj.live
  BY DEF GenuineInv, SuccessIsGenuine, CompletionIsGenuine, HeldByFinalizer
<1>3. IsComplete(obj') = IsComplete(obj)
  OBVIOUS
<1> QED
  BY <1>1, <1>2, <1>3, GenuineFrame

\* A status patch says RestoreComplete only of a resource with a Job that succeeded.
LEMMA PatchGenuine ==
  ASSUME NEW op, Replicas = {op}, GenuineInv, GuardInv', NEW call \in Calls \ {"idle"},
         NEW conditions, NEW info, PatchStatus(op, call, conditions, info),
         obj.live /\ (info \/ is_condition_true(conditions, "RestoreComplete"))
           => obj.uid \in succeeded
  PROVE  GenuineInv'
<1>1. pc[op] # "idle" /\ "idle" \in Calls /\ "idle" \notin CleanupCalls \cup WorkCalls
  BY CallSets DEF PatchStatus, Calls
<1>2. CASE NotFound(op)
  BY <1>1, <1>2, GotoGenuine DEF NotFound, kube, history
<1>3. CASE ~ NotFound(op)
  <2>1. /\ Goto(op, "idle")
        /\ obj' = [obj EXCEPT !.conditions = conditions,
                              !.observed = snap[op].generation, !.info = info]
        /\ UNCHANGED <<jobs, owner, cache, succeeded>> /\ JobNames' = JobNames
    BY <1>3 DEF PatchStatus, history, JobNames
  <2>2. obj'.uid = obj.uid /\ obj'.live = obj.live /\ obj'.info = info
        /\ obj'.conditions = conditions
    BY <2>1 DEF GenuineInv, GuardInv, TypeOK, Objects
  <2>3. obj'.live /\ (obj'.info \/ IsComplete(obj')) => obj.uid \in succeeded'
    BY <2>1, <2>2 DEF IsComplete
  <2>4. pc'[op] = "idle"
    BY <2>1, GotoMoves DEF GenuineInv, GuardInv
  <2>5. \A j \in JobNames' : jobs'[j] = "succeeded" => owner[j] \in succeeded'
    BY <2>1 DEF GenuineInv, SuccessIsGenuine
  <2> QED
    BY <1>1, <2>1, <2>2, <2>3, <2>4, <2>5, GenuineFrame
<1> QED
  BY <1>2, <1>3

\* Starting a reconciliation and delivering a watch event.
LEMMA SnapshotGenuine ==
  ASSUME NEW op, Replicas = {op}, GenuineInv, GuardInv',
         StartReconcile(op) \/ SyncCache(op)
  PROVE  GenuineInv'
<1>0. UNCHANGED <<obj, jobs, owner, succeeded, todo>> /\ JobNames' = JobNames
  BY DEF StartReconcile, SyncCache, kube, history, JobNames
<1>1. CASE StartReconcile(op)
  <2>1. /\ pc'[op] = FirstCall(cache[op]) /\ snap'[op] = cache[op]
        /\ cache[op].live /\ cache' = cache
    BY <1>1 DEF StartReconcile, GenuineInv, GuardInv, TypeOK
  <2>2. /\ pc'[op] \in CleanupCalls => cache[op].deleting
        /\ pc'[op] \in WorkCalls => cache[op].finalizer /\ ~ cache[op].deleting
        /\ pc'[op] \notin {"cleanup_jobs", "cleanup_config_map", "remove_finalizer",
                           "update_status_completed"}
    BY <2>1, CallSets DEF FirstCall, AfterFinalizer, CleanupCalls
  <2>3. HeldByFinalizer'
    <3>1. /\ pc'[op] \in WorkCalls => obj'.live
          /\ cache'[op].live /\ cache'[op].finalizer /\ ~ cache'[op].deleting => obj'.live
          /\ pc'[op] \in CleanupCalls /\ cache'[op].live => cache'[op].deleting
      BY <1>0, <2>1, <2>2 DEF GenuineInv, HeldByFinalizer
    <3> QED
      BY <3>1 DEF HeldByFinalizer, WorkCalls
  <2>4. CleanupIsComplete' /\ SuccessIsGenuine'
    BY <1>0, <2>1, <2>2 DEF GenuineInv, CleanupIsComplete, SuccessIsGenuine
  <2>5. CompletionIsGenuine'
    BY <1>0 DEF GenuineInv, CompletionIsGenuine, IsComplete
  <2> QED
    BY <2>3, <2>4, <2>5 DEF GenuineInv
<1>2. CASE SyncCache(op)
  <2>1. cache'[op] = obj /\ UNCHANGED <<pc, snap>>
    BY <1>2 DEF SyncCache, GenuineInv, GuardInv, TypeOK
  <2>2. HeldByFinalizer'
    <3>1. /\ pc'[op] \in WorkCalls => obj'.live
          /\ pc'[op] \in CleanupCalls => obj.deleting
      BY <1>0, <2>1 DEF GenuineInv, HeldByFinalizer, GuardInv, OneIdentity
    <3> QED
      BY <1>0, <2>1, <3>1 DEF HeldByFinalizer, WorkCalls
  <2>3. CleanupIsComplete' /\ SuccessIsGenuine'
    BY <1>0, <2>1 DEF GenuineInv, CleanupIsComplete, SuccessIsGenuine
  <2>4. CompletionIsGenuine'
    BY <1>0 DEF GenuineInv, CompletionIsGenuine, IsComplete
  <2> QED
    BY <2>2, <2>3, <2>4 DEF GenuineInv
<1> QED BY <1>1, <1>2

\* A Job is created for the object under the name.
LEMMA CreateJobGenuine ==
  ASSUME NEW op, Replicas = {op}, GenuineInv, GuardInv', CreateJob(op)
  PROVE  GenuineInv'
<1>0. /\ pc[op] = "create_job" /\ pc[op] # "idle" /\ pc[op] \in WorkCalls
      /\ {"idle", "update_status_running"} \subseteq Calls
      /\ "idle" \notin WorkCalls /\ "update_status_running" \in WorkCalls
      /\ {"idle", "update_status_running"} \cap CleanupCalls = {}
  BY CallSets DEF CreateJob, CreateCalls, Calls
<1>1. CASE jobs[clock] # Absent
  BY <1>0, <1>1, GotoGenuine DEF CreateJob, CleanupCalls
<1>2. CASE jobs[clock] = Absent
  <2>1. /\ jobs' = [jobs EXCEPT ![clock] = "pending"]
        /\ owner' = [owner EXCEPT ![clock] = snap[op].uid]
        /\ Goto(op, "update_status_running")
        /\ UNCHANGED <<obj, cache, succeeded, todo>>
    BY <1>2 DEF CreateJob, build_restore_job
  <2>2. snap[op].uid = obj.uid /\ obj.live
    BY <1>0 DEF GenuineInv, GuardInv, OneIdentity, HeldByFinalizer
  <2>3. /\ pc'[op] = "update_status_running" /\ snap'[op] = snap[op]
    BY <2>1, GotoMoves DEF GenuineInv, GuardInv
  <2>4. \A j \in JobNames' :
          \/ j = clock /\ owner'[j] = obj.uid /\ jobs'[j] = "pending"
          \/ j \in JobNames /\ owner'[j] = owner[j] /\ jobs'[j] = jobs[j]
    <3>1. clock \in Seconds /\ owner \in [Seconds -> 0..MaxUid]
          /\ jobs \in [Seconds -> Phases \cup {Absent}]
      BY DEF GenuineInv, GuardInv, TypeOK
    <3> QED
      BY <2>1, <2>2, <3>1 DEF JobNames
  <2>5. HeldByFinalizer'
    <3>1. /\ pc'[op] \in WorkCalls => obj'.live
          /\ cache'[op].live /\ cache'[op].finalizer /\ ~ cache'[op].deleting => obj'.live
          /\ pc'[op] \notin CleanupCalls
      BY <1>0, <2>1, <2>2, <2>3
    <3> QED
      BY <3>1 DEF HeldByFinalizer, WorkCalls
  <2>6. CleanupIsComplete'
    BY <2>1, <2>2, <2>3, <2>4 DEF GenuineInv, CleanupIsComplete
  <2>7. SuccessIsGenuine'
    BY <1>0, <2>1, <2>3, <2>4 DEF GenuineInv, SuccessIsGenuine
  <2>8. CompletionIsGenuine'
    BY <2>1 DEF GenuineInv, CompletionIsGenuine, IsComplete
  <2> QED
    BY <2>5, <2>6, <2>7, <2>8 DEF GenuineInv
<1> QED BY <1>1, <1>2

\* The object goes when its finalizer is removed, after all its Jobs, or at once when
\* it has no finalizer, and then no Job either.
LEMMA ObjectGoesGenuine ==
  ASSUME NEW op, Replicas = {op}, GenuineInv, GuardInv',
         \/ RemoveFinalizer(op) /\ obj.live
         \/ UserDeletes /\ ~ obj.finalizer
  PROVE  GenuineInv'
<1>1. /\ obj'.uid = obj.uid /\ ~ obj'.live /\ obj.live /\ obj'.info = obj.info
      /\ UNCHANGED <<jobs, owner, cache, succeeded, todo>> /\ JobNames' = JobNames
  <2>1. CASE RemoveFinalizer(op) /\ obj.live
    <3>1. obj.deleting
      BY <2>1 DEF RemoveFinalizer, CleanupCalls, GenuineInv, GuardInv, OneIdentity
    <3>2. /\ obj' = [obj EXCEPT !.finalizer = FALSE, !.live = FALSE]
          /\ UNCHANGED <<jobs, owner, cache, succeeded, todo>>
      BY <2>1, <3>1 DEF RemoveFinalizer, NotFound, history
    <3>3. obj \in Objects
      BY DEF GenuineInv, GuardInv, TypeOK
    <3>4. obj'.uid = obj.uid /\ ~ obj'.live /\ obj'.info = obj.info
      BY <3>2, <3>3 DEF Objects
    <3>5. JobNames' = JobNames
      BY <3>2 DEF JobNames
    <3> QED
      BY <2>1, <3>2, <3>4, <3>5
  <2>2. CASE UserDeletes /\ ~ obj.finalizer
    BY <2>2
    DEF UserDeletes, operator, history, JobNames, GenuineInv, GuardInv, TypeOK, Objects
  <2> QED BY <2>1, <2>2
<1>2. JobNames = {} /\ pc'[op] \notin WorkCalls
  <2>1. CASE RemoveFinalizer(op) /\ obj.live
    BY <2>1, GotoMoves, CallSets
    DEF RemoveFinalizer, NotFound, GenuineInv, GuardInv, CleanupIsComplete
  <2>2. CASE UserDeletes /\ ~ obj.finalizer
    BY <1>1, <2>2
    DEF UserDeletes, operator, GenuineInv, CleanupIsComplete, GuardInv,
        FinalizerGuardsJobs, OneIdentity
  <2> QED BY <2>1, <2>2
<1>3. /\ pc'[op] # "idle" => pc'[op] = pc[op] /\ snap'[op] = snap[op]
      /\ cache[op].live => cache[op].deleting \/ ~ cache[op].finalizer
  <2>1. CASE RemoveFinalizer(op) /\ obj.live
    BY <2>1, GotoMoves
    DEF RemoveFinalizer, NotFound, CleanupCalls, GenuineInv, GuardInv, HeldByFinalizer
  <2>2. CASE UserDeletes /\ ~ obj.finalizer
    BY <1>1, <2>2 DEF UserDeletes, operator, GenuineInv, GuardInv, OneIdentity
  <2> QED BY <2>1, <2>2
<1>4. HeldByFinalizer'
  <2>1. /\ cache'[op].live /\ cache'[op].finalizer /\ ~ cache'[op].deleting => obj'.live
        /\ pc'[op] \in CleanupCalls /\ cache'[op].live => cache'[op].deleting
    BY <1>1, <1>3, CallSets DEF GenuineInv, HeldByFinalizer
  <2> QED
    BY <1>2, <2>1 DEF HeldByFinalizer, WorkCalls
<1>5. CleanupIsComplete'
  BY <1>1, <1>2 DEF CleanupIsComplete
<1>6. SuccessIsGenuine'
  BY <1>1, <1>2, <1>3 DEF GenuineInv, SuccessIsGenuine
<1>7. CompletionIsGenuine'
  BY <1>1 DEF CompletionIsGenuine
<1> QED
  BY <1>4, <1>5, <1>6, <1>7 DEF GenuineInv

\* A new object finds no Jobs, and nothing is said of it.
LEMMA UserCreatesGenuine ==
  ASSUME PromptRecreate = FALSE, NEW op, Replicas = {op}, GenuineInv, GuardInv',
         UserCreates
  PROVE  GenuineInv'
<1>1. /\ pc[op] = "idle" /\ ~ cache[op].live /\ ~ obj.live
      /\ UNCHANGED <<jobs, owner, cache, pc, snap, succeeded>>
      /\ JobNames' = JobNames
  BY DEF UserCreates, operator, JobNames
<1>2. PICK p \in BOOLEAN :
        obj' = [NoObject EXCEPT !.live = TRUE, !.uid = obj.uid + 1,
                                !.generation = 1, !.paused = p]
  BY DEF UserCreates
<1>3. obj'.info = FALSE /\ obj'.conditions = {}
  BY <1>2 DEF NoObject
<1>4. JobNames = {}
  BY <1>1 DEF GenuineInv, CleanupIsComplete
<1>5. HeldByFinalizer'
  BY <1>1, CallSets DEF HeldByFinalizer
<1>6. CleanupIsComplete' /\ SuccessIsGenuine'
  BY <1>1, <1>3, <1>4 DEF CleanupIsComplete, SuccessIsGenuine
<1>7. CompletionIsGenuine'
  BY <1>3, OnlyCompletedIsComplete DEF CompletionIsGenuine, IsComplete
<1> QED
  BY <1>5, <1>6, <1>7 DEF GenuineInv

\* The cleanup, none of whose calls fails, goes on only when the Jobs it found are gone.
LEMMA CleanupGenuine ==
  ASSUME CleanupErrors = FALSE, NEW op, Replicas = {op}, GenuineInv, GuardInv',
         CleanupList(op) \/ CleanupJobs(op) \/ CleanupConfigMap(op)
  PROVE  GenuineInv'
<1>0. /\ pc[op] \in CleanupCalls /\ pc[op] # "idle"
      /\ {"cleanup_jobs", "cleanup_config_map", "remove_finalizer"} \subseteq Calls
      /\ {"cleanup_jobs", "cleanup_config_map", "remove_finalizer"} \cap WorkCalls = {}
      /\ UNCHANGED <<obj, owner, cache, succeeded>> /\ op \in Replicas
  BY DEF CleanupList, CleanupJobs, CleanupConfigMap, CleanupCalls, WorkCalls, Calls,
         kube, history
<1>1. CASE CleanupList(op)
  <2>1. todo'[op] = JobNames /\ Goto(op, "cleanup_jobs") /\ UNCHANGED jobs
    BY <1>0, <1>1 DEF CleanupList, kube, GenuineInv, GuardInv, TypeOK
  <2> QED
    BY <1>0, <2>1, GotoGenuine
<1>2. CASE CleanupConfigMap(op)
  <2>1. JobNames = {}
    BY <1>0, <1>2 DEF CleanupConfigMap, GenuineInv, CleanupIsComplete
  <2> QED
    BY <1>0, <1>2, <2>1, GotoGenuine DEF CleanupConfigMap
<1>3. CASE CleanupJobs(op) /\ todo[op] = {}
  <2>1. JobNames = {} /\ Goto(op, "cleanup_config_map") /\ UNCHANGED jobs
    BY <1>0, <1>3 DEF CleanupJobs, GenuineInv, CleanupIsComplete
  <2> QED
    BY <1>0, <2>1, GotoGenuine
<1>4. CASE CleanupJobs(op) /\ todo[op] # {}
  <2>1. PICK j \in todo[op] : /\ todo' = [todo EXCEPT ![op] = @ \ {j}]
                              /\ jobs' = [jobs EXCEPT ![j] = Absent]
                              /\ UNCHANGED <<pc, snap>>
    BY <1>4 DEF CleanupJobs
  <2>2. /\ JobNames' = JobNames \ {j} /\ todo'[op] = todo[op] \ {j}
        /\ \A i \in JobNames' : jobs'[i] = jobs[i]
    BY <1>0, <2>1 DEF JobNames, GenuineInv, GuardInv, TypeOK
  <2>3. JobNames \subseteq todo[op] /\ pc[op] = "cleanup_jobs"
    BY <1>0, <1>4 DEF CleanupJobs, GenuineInv, CleanupIsComplete
  <2>4. /\ obj'.live /\ (obj'.info \/ IsComplete(obj')) => obj.uid \in succeeded
        /\ \A i \in JobNames' : jobs'[i] = "succeeded" => owner[i] \in succeeded'
    BY <1>0, <2>2 DEF GenuineInv, SuccessIsGenuine, CompletionIsGenuine, IsComplete
  <2> QED
    BY <1>0, <2>1, <2>2, <2>3, <2>4, GenuineFrame
<1> QED BY <1>1, <1>2, <1>3, <1>4

\* Every step keeps GenuineInv.
LEMMA GenuineStep ==
  ASSUME PromptRecreate = FALSE, CleanupErrors = FALSE, NEW op, Replicas = {op},
         GenuineInv, [Next]_vars
  PROVE  GenuineInv'
<1> USE RestoreConstants
<1>0. GuardInv' /\ op \in Replicas /\ "idle" \in Calls
  BY GuardStep DEF GenuineInv, Calls
<1>1. /\ obj.live /\ (obj.info \/ IsComplete(obj)) => obj.uid \in succeeded
      /\ \A j \in JobNames : jobs[j] = "succeeded" => owner[j] \in succeeded
      /\ \A j \in JobNames : owner[j] = obj.uid
      /\ pc[op] \in WorkCalls => obj.live
      /\ pc[op] # "idle" /\ snap[op].info => obj.uid \in succeeded
      /\ pc[op] = "update_status_completed" => obj.uid \in succeeded
      /\ pc[op] = "cleanup_jobs" => JobNames \subseteq todo[op]
      /\ pc[op] \in {"cleanup_config_map", "remove_finalizer"} => JobNames = {}
  BY <1>0
  DEF GenuineInv, SuccessIsGenuine, CompletionIsGenuine, HeldByFinalizer,
      CleanupIsComplete
<1>2. CASE NotFound(op) /\ pc[op] # "idle"
  BY <1>0, <1>2, CallSets, GotoGenuine DEF NotFound, kube, history
<1>3. CASE Reconcile(op)
  <2>1. CASE StartReconcile(op)
    BY <1>0, <2>1, SnapshotGenuine
  <2>2. CASE AddFinalizer(op) /\ obj.live
    <3> DEFINE call == AfterFinalizer(snap[op])
    <3>1. /\ pc[op] = "add_finalizer" /\ Goto(op, call)
          /\ obj' = [obj EXCEPT !.finalizer = TRUE]
          /\ UNCHANGED <<jobs, owner, cache, succeeded>>
      BY <2>2 DEF AddFinalizer, NotFound, history
    <3>2. /\ obj'.uid = obj.uid /\ obj'.live = obj.live /\ obj'.info = obj.info
          /\ IsComplete(obj') = IsComplete(obj)
      BY <3>1 DEF IsComplete, GenuineInv, GuardInv, TypeOK, Objects
    <3>3. call \in {"idle", "list_jobs"}
      BY FirstCallType
    <3>4. pc'[op] = call /\ (call # "idle" => snap'[op] = snap[op])
      BY <1>0, <3>1, GotoMoves DEF GenuineInv, GuardInv
    <3>5. JobNames' = JobNames
      BY <3>1 DEF JobNames
    <3> QED
      BY <1>0, <1>1, <2>2, <3>1, <3>2, <3>3, <3>4, <3>5, GenuineFrame
      DEF CleanupCalls
  <2>3. CASE AddFinalizer(op) /\ ~ obj.live
    BY <1>2, <2>3 DEF AddFinalizer
  <2>4. CASE ListJobs(op)
    <3> DEFINE state == classify_jobs({jobs[j] : j \in JobNames})
               call == CallFor(state, snap[op])
    <3>1. call \in Calls \ CleanupCalls
      BY CallForType, ClassifyType DEF Calls, CleanupCalls
    <3>2. call = "update_status_completed" => obj.uid \in succeeded
      <4>1. call = "update_status_completed" => state = "Succeeded"
        BY ClassifyType DEF CallFor, JobsStates, should_create_restore_job
      <4>2. state = "Succeeded" => \E j \in JobNames : jobs[j] = "succeeded"
        BY DEF classify_jobs, job_succeeded
      <4> QED
        BY <1>1, <4>1, <4>2
    <3>3. /\ pc[op] \in WorkCalls /\ pc[op] # "idle" /\ Goto(op, call)
          /\ UNCHANGED <<obj, jobs, owner, cache, succeeded>>
          /\ call \notin {"cleanup_jobs", "cleanup_config_map", "remove_finalizer"}
      BY <2>4, <3>1, CallSets DEF ListJobs, kube, history, CleanupCalls
    <3> QED
      BY <1>0, <3>1, <3>2, <3>3, GotoGenuine
  <2>5. CASE GetBackup(op) \/ ResolveCluster(op) \/ BuildConfig(op)
             \/ CreateOrUpdateConfigMap(op)
    <3>1. /\ pc[op] \in WorkCalls /\ pc[op] # "idle"
          /\ \E call \in Calls \ (CleanupCalls \cup {"update_status_completed"}) :
               Goto(op, call)
      BY <2>5, CallSets
      DEF GetBackup, ResolveCluster, BuildConfig, CreateOrUpdateConfigMap, CreateCalls,
          CleanupCalls, Calls
    <3>2. UNCHANGED <<obj, jobs, owner, cache, succeeded>>
      BY <2>5
      DEF GetBackup, ResolveCluster, BuildConfig, CreateOrUpdateConfigMap, kube, history
    <3> QED
      BY <1>0, <3>1, <3>2, GotoGenuine DEF CleanupCalls
  <2>6. CASE CreateJob(op)
    BY <1>0, <2>6, CreateJobGenuine
  <2>7. CASE UpdateStatusCompleted(op)
    <3>1. obj.uid \in succeeded
      BY <1>1, <2>7 DEF UpdateStatusCompleted, PatchStatus
    <3> QED
      BY <1>0, <2>7, <3>1, PatchGenuine DEF UpdateStatusCompleted, Calls
  <2>8. CASE \/ UpdateStatusRunning(op) \/ UpdateStatusFailed(op)
             \/ UpdateStatusError(op) \/ UpdateStatusReconciliationPaused(op)
    <3>1. \E call \in Calls \ {"idle"},
             conditions \in {{}, Running, Failed, Unresolved, Paused},
             info \in {obj.info, obj.info \/ snap[op].info} :
            PatchStatus(op, call, conditions, info)
      BY <2>8
      DEF UpdateStatusRunning, UpdateStatusFailed, UpdateStatusError,
          UpdateStatusReconciliationPaused, Calls
    <3>2. PICK call \in Calls \ {"idle"},
               conditions \in {{}, Running, Failed, Unresolved, Paused},
               info \in {obj.info, obj.info \/ snap[op].info} :
            PatchStatus(op, call, conditions, info)
      BY <3>1
    <3>3. pc[op] # "idle"
      BY <3>2 DEF PatchStatus
    <3>4. obj.live /\ (info \/ is_condition_true(conditions, "RestoreComplete"))
            => obj.uid \in succeeded
      BY <1>1, <3>3, OnlyCompletedIsComplete
    <3> QED
      BY <1>0, <3>2, <3>4, PatchGenuine
  <2>9. CASE CleanupList(op) \/ CleanupJobs(op) \/ CleanupConfigMap(op)
    BY <1>0, <2>9, CleanupGenuine
  <2>10. CASE RemoveFinalizer(op)
    BY <1>0, <1>2, <2>10, ObjectGoesGenuine DEF RemoveFinalizer
  <2> QED
    BY <1>3, <2>1, <2>2, <2>3, <2>4, <2>5, <2>6, <2>7, <2>8, <2>9, <2>10 DEF Reconcile
<1>4. CASE Abort(op)
  BY <1>0, <1>4, CallSets, GotoGenuine DEF Abort, kube, history
<1>5. CASE SyncCache(op)
  BY <1>0, <1>5, SnapshotGenuine
<1>6. CASE JobRuns
  <2>1. PICK j \in JobNames, p \in Phases, q \in Phases :
          /\ jobs' = [jobs EXCEPT ![j] = q]
          /\ succeeded' = succeeded \cup (IF q = "succeeded" THEN {owner[j]} ELSE {})
    BY <1>6, JobRunsStep
  <2>2. /\ JobNames' \subseteq JobNames
        /\ \A i \in JobNames' : jobs'[i] = (IF i = j THEN q ELSE jobs[i])
    BY <2>1 DEF JobNames, GenuineInv, GuardInv, TypeOK
  <2>3. UNCHANGED <<obj, owner, cache, pc, snap, todo>>
    BY <1>6 DEF JobRuns, operator
  <2>4. \A i \in JobNames' : jobs'[i] = "succeeded" => owner[i] \in succeeded'
    BY <1>1, <2>1, <2>2
  <2>5. succeeded \subseteq succeeded' /\ IsComplete(obj') = IsComplete(obj)
    BY <2>1, <2>3
  <2> QED
    BY <1>0, <1>1, <2>2, <2>3, <2>4, <2>5, GenuineFrame DEF GenuineInv, HeldByFinalizer
<1>7. CASE JobDeleted \/ GarbageCollect
  <2>1. JobNames' \subseteq JobNames /\ \A i \in JobNames' : jobs'[i] = jobs[i]
    BY <1>7 DEF JobDeleted, GarbageCollect, JobNames, GenuineInv, GuardInv, TypeOK
  <2>2. UNCHANGED <<obj, owner, cache, pc, snap, todo, succeeded>>
        /\ IsComplete(obj') = IsComplete(obj)
    BY <1>7 DEF JobDeleted, GarbageCollect, operator, history
  <2> QED
    BY <1>0, <1>1, <2>1, <2>2, GenuineFrame
<1>8. CASE Tick \/ DependencyChanges \/ UNCHANGED vars
  <2>1. UNCHANGED <<obj, jobs, owner, cache, pc, snap, todo, succeeded>>
        /\ IsComplete(obj') = IsComplete(obj)
    BY <1>8 DEF Tick, DependencyChanges, vars, operator, history
  <2> QED
    BY <1>0, <1>1, <2>1, GenuineFrame DEF JobNames
<1>9. CASE UserCreates
  BY <1>0, <1>9, UserCreatesGenuine
<1>10. CASE UserDeletes /\ ~ obj.finalizer
  BY <1>0, <1>10, ObjectGoesGenuine
<1>11. CASE UserTogglesPause \/ UserEditsSpec \/ (UserDeletes /\ obj.finalizer)
  <2>1. /\ obj'.uid = obj.uid /\ obj'.live = obj.live /\ obj'.info = obj.info
        /\ IsComplete(obj') = IsComplete(obj)
    BY <1>11
    DEF UserTogglesPause, UserEditsSpec, UserDeletes, IsComplete, GenuineInv, GuardInv,
        TypeOK, Objects
  <2>2. /\ UNCHANGED <<jobs, owner, cache, pc, snap, todo, succeeded>>
        /\ JobNames' = JobNames
    BY <1>11
    DEF UserTogglesPause, UserEditsSpec, UserDeletes, operator, history, JobNames
  <2> QED
    BY <1>0, <1>1, <2>1, <2>2, GenuineFrame
<1> QED
  BY <1>3, <1>4, <1>5, <1>6, <1>7, <1>8, <1>9, <1>10, <1>11 DEF Next, Environment

\* Initially nothing has succeeded and nothing is said.
LEMMA GenuineInit == Init => GenuineInv
<1> SUFFICES ASSUME Init PROVE GenuineInv
  OBVIOUS
<1>1. GuardInv
  BY GuardInit
<1>2. JobNames = {} /\ ~ obj.live
  BY DEF Init, JobNames, NoObject
<1>3. \A r \in Replicas : ~ cache[r].live /\ pc[r] = "idle"
  BY DEF Init, NoObject
<1>4. HeldByFinalizer /\ CleanupIsComplete /\ SuccessIsGenuine
  BY <1>2, <1>3, CallSets DEF HeldByFinalizer, CleanupIsComplete, SuccessIsGenuine
<1>5. CompletionIsGenuine
  BY <1>2 DEF CompletionIsGenuine
<1> QED
  BY <1>1, <1>4, <1>5 DEF GenuineInv

\* With one replica whose cleanups succeed, RestoreComplete on a resource means that a
\* Job of that resource succeeded, not a leftover of an earlier one of the same name:
\* with a lagging cache, restarts, pauses and Jobs deleted from outside.
THEOREM CompletionsAreGenuine ==
  ASSUME PromptRecreate = FALSE, CleanupErrors = FALSE,
         NEW CONSTANT op, Replicas = {op}
  PROVE  Spec => []CompletionIsGenuine
<1>1. Init => GenuineInv
  BY GenuineInit
<1>2. GenuineInv /\ [Next]_vars => GenuineInv'
  BY GenuineStep
<1>3. GenuineInv => CompletionIsGenuine
  BY DEF GenuineInv
<1> QED
  BY <1>1, <1>2, <1>3, PTL DEF Spec

-----------------------------------------------------------------------------
(***************************************************************************)
(* A completed restore is not run again.                                   *)
(***************************************************************************)

\* What Goto leaves of HeldInWork to be shown: a step that leaves the identity of the
\* object and its finalizer alone keeps it, when the operator stays where it is, stops,
\* or goes on with its work or its cleanup.
LEMMA HeldFrame ==
  ASSUME NEW op, Replicas = {op}, HeldInWork,
         obj'.uid = obj.uid, obj'.live = obj.live, obj'.finalizer = obj.finalizer,
         obj.deleting => obj'.deleting,
         obj'.live /\ obj'.deleting => obj'.finalizer,
         \/ pc'[op] = "idle"
         \/ pc'[op] = pc[op] /\ snap'[op] = snap[op]
         \/ snap'[op] = snap[op] /\ pc[op] \in WorkCalls /\ pc'[op] \in WorkCalls
         \/ snap'[op] = snap[op] /\ pc[op] \in CleanupCalls /\ pc'[op] \in CleanupCalls
  PROVE  HeldInWork'
<1>1. pc'[op] # "idle" =>
        /\ snap'[op].uid <= obj'.uid
        /\ pc'[op] \in WorkCalls \cup CleanupCalls \/ snap'[op].finalizer =>
             obj'.live /\ obj'.finalizer
        /\ pc'[op] \in CleanupCalls => obj'.deleting
        /\ pc'[op] = "add_finalizer" /\ obj'.live => ~ obj'.finalizer
  BY CallSets DEF HeldInWork
<1> QED
  BY <1>1 DEF HeldInWork, WorkCalls, CleanupCalls

\* The same for a step that goes on and does not touch the object.
LEMMA GotoHeld ==
  ASSUME NEW op, Replicas = {op}, TypeOK, HeldInWork, NEW call, Goto(op, call),
         UNCHANGED obj,
         \/ call = "idle"
         \/ pc[op] \in WorkCalls /\ call \in WorkCalls
         \/ pc[op] \in CleanupCalls /\ call \in CleanupCalls
  PROVE  HeldInWork'
<1>1. pc'[op] = call /\ (call # "idle" => snap'[op] = snap[op])
  BY GotoMoves
<1>2. obj'.live /\ obj'.deleting => obj'.finalizer
  BY DEF HeldInWork
<1> QED
  BY <1>1, <1>2, HeldFrame

\* With a cache that is read when it is current, the object that is worked on is held by
\* its finalizer, which only the operator takes away, whatever the user does meanwhile.
LEMMA HeldStep ==
  ASSUME CacheLag = FALSE, NEW op, Replicas = {op}, TypeOK, HeldInWork, [Next]_vars
  PROVE  HeldInWork'
<1> USE RestoreConstants
<1>0. op \in Replicas /\ obj.uid \in 0..MaxUid /\ snap[op].uid \in 0..MaxUid
  BY DEF TypeOK, Objects
<1>1. CASE StartReconcile(op)
  <2>1. /\ pc'[op] = FirstCall(obj) /\ snap'[op] = obj /\ obj.live
        /\ UNCHANGED obj
    BY <1>1 DEF StartReconcile, kube, TypeOK
  <2>2. pc'[op] \in CleanupCalls <=> obj.deleting
    BY <2>1 DEF FirstCall, AfterFinalizer, CleanupCalls
  <2>3. /\ pc'[op] \in WorkCalls => obj.finalizer
        /\ pc'[op] = "add_finalizer" => ~ obj.finalizer
    BY <2>1 DEF FirstCall, AfterFinalizer, WorkCalls, CleanupCalls
  <2>4. obj.deleting => obj.finalizer
    BY <2>1 DEF HeldInWork
  <2>5. /\ snap'[op].uid <= obj'.uid
        /\ pc'[op] \in WorkCalls \cup CleanupCalls \/ snap'[op].finalizer =>
             obj'.live /\ obj'.finalizer
        /\ pc'[op] \in CleanupCalls => obj'.deleting
        /\ pc'[op] = "add_finalizer" /\ obj'.live => ~ obj'.finalizer
        /\ obj'.live /\ obj'.deleting => obj'.finalizer
    BY <1>0, <2>1, <2>2, <2>3, <2>4
  <2> QED
    BY <2>5 DEF HeldInWork, WorkCalls, CleanupCalls
<1>2. CASE NotFound(op)
  BY <1>2, GotoHeld DEF NotFound, kube
<1>3. CASE AddFinalizer(op) /\ ~ NotFound(op)
  <2>1. /\ pc[op] = "add_finalizer" /\ Goto(op, AfterFinalizer(snap[op]))
        /\ obj' = [obj EXCEPT !.finalizer = TRUE] /\ obj.live
    BY <1>3 DEF AddFinalizer
  <2>2. pc'[op] = "idle" \/ (pc'[op] = "list_jobs" /\ snap'[op] = snap[op])
    <3>1. PICK call \in {"idle", "list_jobs"} : Goto(op, call)
      BY <2>1, FirstCallType
    <3>2. pc'[op] = call /\ (call # "idle" => snap'[op] = snap[op])
      BY <1>0, <3>1, GotoMoves
    <3> QED
      BY <3>1, <3>2
  <2>3. obj'.finalizer /\ obj'.live /\ obj'.uid = obj.uid
    BY <2>1 DEF TypeOK, Objects
  <2>4. snap[op].uid <= obj.uid
    BY <2>1 DEF HeldInWork
  <2>5. /\ pc'[op] # "idle" => snap'[op].uid <= obj'.uid
        /\ pc'[op] # "add_finalizer" /\ pc'[op] \notin CleanupCalls
    BY <2>2, <2>3, <2>4 DEF CleanupCalls
  <2> QED
    BY <2>3, <2>5 DEF HeldInWork, WorkCalls, CleanupCalls
<1>4. CASE \/ ListJobs(op) \/ GetBackup(op) \/ ResolveCluster(op) \/ BuildConfig(op)
           \/ CreateOrUpdateConfigMap(op) \/ CreateJob(op)
  <2>1. UNCHANGED obj /\ pc[op] \in WorkCalls
    BY <1>4, CallSets
    DEF ListJobs, GetBackup, ResolveCluster, BuildConfig, CreateOrUpdateConfigMap,
        CreateJob, kube, CreateCalls
  <2>2. PICK call \in WorkCalls \cup {"idle"} : Goto(op, call)
    <3>1. CASE ListJobs(op)
      <4>1. CallFor(classify_jobs({jobs[j] : j \in JobNames}), snap[op])
              \in WorkCalls \cup {"idle"}
        BY CallForType, ClassifyType, CallSets DEF CreateCalls
      <4> QED
        BY <3>1, <4>1 DEF ListJobs
    <3>2. CASE ~ ListJobs(op)
      BY <1>4, <3>2, CallSets
      DEF GetBackup, ResolveCluster, BuildConfig, CreateOrUpdateConfigMap, CreateJob,
          CreateCalls
    <3> QED
      BY <3>1, <3>2
  <2> QED
    BY <2>1, <2>2, GotoHeld
<1>5. ASSUME NEW call, NEW conditions, NEW info, PatchStatus(op, call, conditions, info),
             ~ NotFound(op)
      PROVE  HeldInWork'
  <2>1. /\ obj'.uid = obj.uid /\ obj'.deleting = obj.deleting
        /\ obj'.live = obj.live /\ obj'.finalizer = obj.finalizer
    BY <1>5 DEF PatchStatus, TypeOK, Objects
  <2>2. Goto(op, "idle")
    BY <1>5 DEF PatchStatus
  <2>3. pc'[op] = "idle"
    BY <1>0, <2>2, GotoMoves
  <2>4. obj'.live /\ obj'.deleting => obj'.finalizer
    BY <2>1 DEF HeldInWork
  <2> QED
    BY <2>1, <2>3, <2>4, HeldFrame
<1>6. CASE \/ UpdateStatusRunning(op) \/ UpdateStatusCompleted(op)
           \/ UpdateStatusFailed(op) \/ UpdateStatusError(op)
           \/ UpdateStatusReconciliationPaused(op)
  BY <1>2, <1>5, <1>6
  DEF UpdateStatusRunning, UpdateStatusCompleted, UpdateStatusFailed,
      UpdateStatusError, UpdateStatusReconciliationPaused
<1>7. CASE CleanupList(op) \/ CleanupJobs(op) \/ CleanupConfigMap(op)
  <2>1. /\ UNCHANGED obj /\ pc[op] \in CleanupCalls
        /\ (\E call \in CleanupCalls : Goto(op, call)) \/ UNCHANGED <<pc, snap>>
    BY <1>7 DEF CleanupList, CleanupJobs, CleanupConfigMap, CleanupCalls, kube
  <2>2. CASE UNCHANGED <<pc, snap>>
    BY <2>1, <2>2 DEF HeldInWork
  <2> QED
    BY <2>1, <2>2, GotoHeld
<1>8. CASE RemoveFinalizer(op) /\ ~ NotFound(op)
  <2>1. /\ pc[op] = "remove_finalizer" /\ Goto(op, "idle")
        /\ obj' = [obj EXCEPT !.finalizer = FALSE, !.live = ~ obj.deleting]
    BY <1>8 DEF RemoveFinalizer
  <2>2. pc'[op] = "idle"
    BY <1>0, <2>1, GotoMoves
  <2>3. obj.deleting
    BY <2>1 DEF HeldInWork, CleanupCalls
  <2>4. ~ obj'.live
    BY <2>1, <2>3 DEF TypeOK, Objects
  <2> QED
    BY <2>2, <2>4 DEF HeldInWork
<1>9. CASE Abort(op)
  BY <1>9, GotoHeld DEF Abort, kube
<1>10. CASE \/ SyncCache(op) \/ JobRuns \/ JobDeleted \/ GarbageCollect \/ Tick
            \/ DependencyChanges \/ UNCHANGED vars
  <2>1. UNCHANGED <<obj, pc, snap>>
    BY <1>10
    DEF SyncCache, JobRuns, JobDeleted, GarbageCollect, Tick, DependencyChanges, vars,
        kube, operator
  <2> QED
    BY <2>1 DEF HeldInWork
<1>11. CASE UserCreates
  <2>1. /\ ~ obj.live /\ UNCHANGED <<pc, snap>>
        /\ \E p \in BOOLEAN :
             obj' = [NoObject EXCEPT !.live = TRUE, !.uid = obj.uid + 1,
                                     !.generation = 1, !.paused = p]
    BY <1>11 DEF UserCreates, operator
  <2>2. obj'.uid = obj.uid + 1 /\ ~ obj'.deleting /\ ~ obj'.finalizer
    BY <2>1 DEF NoObject
  <2>3. pc[op] # "idle" => /\ snap[op].uid <= obj.uid /\ ~ snap[op].finalizer
                           /\ pc[op] \notin WorkCalls \cup CleanupCalls
    BY <2>1 DEF HeldInWork
  <2>4. pc[op] # "idle" => snap[op].uid <= obj'.uid
    BY <1>0, <2>2, <2>3
  <2> QED
    BY <2>1, <2>2, <2>3, <2>4 DEF HeldInWork, WorkCalls, CleanupCalls
<1>12. CASE UserTogglesPause \/ UserEditsSpec
  <2>1. /\ obj'.uid = obj.uid /\ obj'.deleting = obj.deleting
        /\ obj'.live = obj.live /\ obj'.finalizer = obj.finalizer
        /\ UNCHANGED <<pc, snap>>
    BY <1>12 DEF UserTogglesPause, UserEditsSpec, operator, TypeOK, Objects
  <2>2. obj'.live /\ obj'.deleting => obj'.finalizer
    BY <2>1 DEF HeldInWork
  <2> QED
    BY <2>1, <2>2, HeldFrame
<1>13. CASE UserDeletes
  <2>1. UNCHANGED <<pc, snap>> /\ obj.live
    BY <1>13 DEF UserDeletes, operator
  <2>2. CASE obj.finalizer
    <3>1. /\ obj'.uid = obj.uid /\ obj'.deleting
          /\ obj'.live = obj.live /\ obj'.finalizer = obj.finalizer
      BY <1>13, <2>2 DEF UserDeletes, TypeOK, Objects
    <3> QED
      BY <2>1, <2>2, <3>1, HeldFrame
  <2>3. CASE ~ obj.finalizer
    <3>1. ~ obj'.live /\ obj'.uid = obj.uid
      BY <1>13, <2>3 DEF UserDeletes, TypeOK, Objects
    <3>2. pc[op] # "idle" => /\ snap[op].uid <= obj.uid /\ ~ snap[op].finalizer
                             /\ pc[op] \notin WorkCalls \cup CleanupCalls
      BY <2>3 DEF HeldInWork
    <3> QED
      BY <2>1, <3>1, <3>2 DEF HeldInWork, WorkCalls, CleanupCalls
  <2> QED
    BY <2>2, <2>3
<1>14. CASE AddFinalizer(op) \/ RemoveFinalizer(op)
  BY <1>2, <1>3, <1>8, <1>14
<1> QED
  BY <1>1, <1>4, <1>6, <1>7, <1>9, <1>10, <1>11, <1>12, <1>13, <1>14
  DEF Next, Reconcile, Environment

\* Without Jobs there is nothing JobsAreHeld has to say.
LEMMA NoJobsHeld ==
  ASSUME NEW op, Replicas = {op}, JobNames' = {}
  PROVE  JobsAreHeld'
  BY DEF JobsAreHeld

\* A step that leaves the object alone and adds no Job keeps JobsAreHeld and
\* OwnCompletion when the operator stays where it is or goes to a call that they say
\* nothing about.
LEMMA JobsHeldFrame ==
  ASSUME NEW op, Replicas = {op}, JobsAreHeld, OwnCompletion,
         obj'.uid = obj.uid, obj'.live = obj.live, obj'.finalizer = obj.finalizer,
         JobNames' \subseteq JobNames,
         \/ pc'[op] = pc[op] /\ snap'[op] = snap[op] /\ todo'[op] = todo[op]
         \/ pc'[op] \notin {"cleanup_jobs", "cleanup_config_map", "remove_finalizer",
                            "list_jobs", "update_status_completed"}
  PROVE  JobsAreHeld' /\ OwnCompletion'
<1>1. JobsAreHeld'
  BY DEF JobsAreHeld
<1>2. OwnCompletion'
  BY DEF OwnCompletion
<1> QED
  BY <1>1, <1>2

\* Nothing is listed as succeeded where there are no Jobs.
LEMMA NoJobsNoSuccess ==
  ASSUME NEW o, JobNames = {}
  PROVE  CallFor(classify_jobs({jobs[j] : j \in JobNames}), o) # "update_status_completed"
<1>1. {jobs[j] : j \in JobNames} = {}
  OBVIOUS
<1>2. classify_jobs({}) = "NoJobs"
  BY DEF classify_jobs
<1> QED
  BY <1>1, <1>2 DEF CallFor, should_create_restore_job

\* When no delete of a cleanup fails, Jobs are there only under a finalizer, and what is
\* reported as completed is reported to the object that was listed.
LEMMA JobsHeldStep ==
  ASSUME CacheLag = FALSE, CleanupErrors = FALSE, NEW op, Replicas = {op}, TypeOK,
         HeldInWork, JobsAreHeld, OwnCompletion, [Next]_vars
  PROVE  JobsAreHeld' /\ OwnCompletion'
<1>0. op \in Replicas /\ "idle" \in Calls
  BY DEF Calls
<1>1. ASSUME NEW call, Goto(op, call), UNCHANGED obj, JobNames' \subseteq JobNames,
             call \notin {"cleanup_jobs", "cleanup_config_map", "remove_finalizer",
                          "list_jobs", "update_status_completed"}
      PROVE  JobsAreHeld' /\ OwnCompletion'
  BY <1>0, <1>1, GotoMoves, JobsHeldFrame
<1>2. CASE StartReconcile(op)
  <2>1. /\ pc'[op] = FirstCall(obj) /\ snap'[op] = obj
        /\ UNCHANGED obj /\ JobNames' = JobNames
    BY <1>2 DEF StartReconcile, kube, TypeOK, JobNames
  <2>2. pc'[op] \notin {"cleanup_jobs", "cleanup_config_map", "remove_finalizer",
                        "update_status_completed"}
    BY <2>1 DEF FirstCall, AfterFinalizer
  <2>3. JobNames' # {} => obj'.live /\ obj'.finalizer
    BY <2>1 DEF JobsAreHeld
  <2>4. JobsAreHeld'
    BY <2>1, <2>2, <2>3 DEF JobsAreHeld
  <2>5. OwnCompletion'
    BY <2>2 DEF OwnCompletion
  <2> QED
    BY <2>4, <2>5
<1>3. CASE NotFound(op)
  <2>1. Goto(op, "idle") /\ UNCHANGED obj /\ JobNames' = JobNames
    BY <1>3 DEF NotFound, kube, JobNames
  <2> QED
    BY <1>1, <2>1
<1>4. CASE AddFinalizer(op) /\ ~ NotFound(op)
  <2>1. /\ pc[op] = "add_finalizer" /\ obj.live /\ JobNames' = JobNames
        /\ Goto(op, AfterFinalizer(snap[op]))
    BY <1>4 DEF AddFinalizer, JobNames
  <2>2. JobNames' = {}
    BY <1>0, <2>1 DEF JobsAreHeld, HeldInWork
  <2>3. pc'[op] = AfterFinalizer(snap[op])
    BY <1>0, <2>1, GotoMoves
  <2>4. OwnCompletion'
    BY <2>3, FirstCallType DEF OwnCompletion
  <2> QED
    BY <2>2, <2>4, NoJobsHeld
<1>5. CASE ListJobs(op)
  <2> DEFINE call == CallFor(classify_jobs({jobs[j] : j \in JobNames}), snap[op])
  <2>1. pc[op] = "list_jobs" /\ Goto(op, call) /\ UNCHANGED obj /\ JobNames' = JobNames
    BY <1>5 DEF ListJobs, kube, JobNames
  <2>2. call \in {"idle", "update_status_completed", "update_status_failed",
                  "update_status_running", "get_backup"}
    BY CallForType, ClassifyType
  <2>3. CASE call # "update_status_completed"
    BY <1>1, <2>1, <2>2, <2>3
  <2>4. CASE call = "update_status_completed"
    <3>1. JobNames # {}
      BY <2>4, NoJobsNoSuccess
    <3>2. snap[op].uid = obj.uid
      BY <1>0, <2>1, <3>1 DEF JobsAreHeld
    <3>3. pc'[op] = "update_status_completed" /\ snap'[op] = snap[op]
      BY <1>0, <2>1, <2>4, GotoMoves
    <3>4. OwnCompletion'
      BY <2>1, <3>2, <3>3 DEF OwnCompletion
    <3>5. JobsAreHeld'
      BY <2>1, <3>3 DEF JobsAreHeld
    <3> QED
      BY <3>4, <3>5
  <2> QED
    BY <2>3, <2>4
<1>6. CASE \/ GetBackup(op) \/ ResolveCluster(op) \/ BuildConfig(op)
           \/ CreateOrUpdateConfigMap(op)
  <2>1. UNCHANGED obj /\ JobNames' = JobNames
    BY <1>6
    DEF GetBackup, ResolveCluster, BuildConfig, CreateOrUpdateConfigMap, kube, JobNames
  <2>2. \E call \in {"idle", "resolve_cluster", "update_status_error", "build_config",
                     "apply_config_map", "create_job"} : Goto(op, call)
    BY <1>6 DEF GetBackup, ResolveCluster, BuildConfig, CreateOrUpdateConfigMap
  <2> QED
    BY <1>1, <2>1, <2>2
<1>7. CASE CreateJob(op)
  <2>1. pc[op] \in WorkCalls /\ pc[op] # "idle"
    BY <1>7, CallSets DEF CreateJob, CreateCalls
  <2>2. obj'.live /\ obj'.finalizer
    BY <1>0, <1>7, <2>1 DEF CreateJob, HeldInWork
  <2>3. PICK call \in {"idle", "update_status_running"} : Goto(op, call)
    BY <1>7 DEF CreateJob
  <2>4. pc'[op] \in {"idle", "update_status_running"}
    BY <1>0, <2>3, GotoMoves
  <2>5. JobsAreHeld'
    BY <2>2, <2>4 DEF JobsAreHeld
  <2>6. OwnCompletion'
    BY <2>4 DEF OwnCompletion
  <2> QED
    BY <2>5, <2>6
<1>8. ASSUME NEW call, NEW conditions, NEW info, PatchStatus(op, call, conditions, info),
             ~ NotFound(op)
      PROVE  JobsAreHeld' /\ OwnCompletion'
  <2>1. /\ obj'.uid = obj.uid /\ obj'.live = obj.live /\ obj'.finalizer = obj.finalizer
        /\ JobNames' = JobNames
    BY <1>8 DEF PatchStatus, TypeOK, Objects, JobNames
  <2>2. Goto(op, "idle")
    BY <1>8 DEF PatchStatus
  <2>3. pc'[op] = "idle"
    BY <1>0, <2>2, GotoMoves
  <2> QED
    BY <2>1, <2>3, JobsHeldFrame
<1>9. CASE \/ UpdateStatusRunning(op) \/ UpdateStatusCompleted(op)
           \/ UpdateStatusFailed(op) \/ UpdateStatusError(op)
           \/ UpdateStatusReconciliationPaused(op)
  BY <1>3, <1>8, <1>9
  DEF UpdateStatusRunning, UpdateStatusCompleted, UpdateStatusFailed,
      UpdateStatusError, UpdateStatusReconciliationPaused
<1>10. CASE CleanupList(op)
  <2>1. /\ Goto(op, "cleanup_jobs") /\ todo' = [todo EXCEPT ![op] = JobNames]
        /\ UNCHANGED obj /\ JobNames' = JobNames
    BY <1>10 DEF CleanupList, kube, JobNames
  <2>2. pc'[op] = "cleanup_jobs" /\ todo'[op] = JobNames
    BY <1>0, <2>1, GotoMoves DEF TypeOK
  <2>3. JobsAreHeld'
    BY <2>1, <2>2 DEF JobsAreHeld
  <2> QED
    BY <2>2, <2>3 DEF OwnCompletion
<1>11. CASE CleanupJobs(op)
  <2>1. /\ pc[op] = "cleanup_jobs" /\ UNCHANGED obj
        /\ \/ \E j \in todo[op] : /\ todo' = [todo EXCEPT ![op] = @ \ {j}]
                                  /\ jobs' = [jobs EXCEPT ![j] = Absent]
                                  /\ UNCHANGED <<pc, snap>>
           \/ todo[op] = {} /\ Goto(op, "cleanup_config_map") /\ UNCHANGED jobs
    BY <1>11 DEF CleanupJobs
  <2>2. CASE todo[op] = {} /\ Goto(op, "cleanup_config_map") /\ UNCHANGED jobs
    <3>1. JobNames' = {}
      BY <1>0, <2>1, <2>2 DEF JobsAreHeld, JobNames
    <3>2. pc'[op] = "cleanup_config_map"
      BY <1>0, <2>2, GotoMoves
    <3> QED
      BY <3>1, <3>2, NoJobsHeld DEF OwnCompletion
  <2>3. ASSUME NEW j \in todo[op], todo' = [todo EXCEPT ![op] = @ \ {j}],
               jobs' = [jobs EXCEPT ![j] = Absent], UNCHANGED <<pc, snap>>
        PROVE  JobsAreHeld' /\ OwnCompletion'
    <3>1. JobNames' = JobNames \ {j} /\ todo'[op] = todo[op] \ {j}
      BY <1>0, <2>3 DEF JobNames, TypeOK
    <3>2. pc'[op] = "cleanup_jobs"
      BY <2>1, <2>3
    <3>3. JobNames' \subseteq todo'[op]
      BY <1>0, <2>1, <3>1 DEF JobsAreHeld
    <3>4. JobNames' # {} => obj'.live /\ obj'.finalizer
      BY <2>1, <3>1 DEF JobsAreHeld
    <3>5. JobsAreHeld'
      BY <3>2, <3>3, <3>4 DEF JobsAreHeld
    <3> QED
      BY <3>2, <3>5 DEF OwnCompletion
  <2> QED
    BY <2>1, <2>2, <2>3
<1>12. CASE CleanupConfigMap(op) \/ (RemoveFinalizer(op) /\ ~ NotFound(op))
  <2>1. JobNames' = {} /\ \E call \in {"remove_finalizer", "idle"} : Goto(op, call)
    BY <1>0, <1>12 DEF CleanupConfigMap, RemoveFinalizer, JobsAreHeld, JobNames
  <2>2. pc'[op] \in {"remove_finalizer", "idle"}
    BY <1>0, <2>1, GotoMoves
  <2> QED
    BY <2>1, <2>2, NoJobsHeld DEF OwnCompletion
<1>13. CASE Abort(op)
  <2>1. Goto(op, "idle") /\ UNCHANGED obj /\ JobNames' = JobNames
    BY <1>13 DEF Abort, kube, JobNames
  <2> QED
    BY <1>1, <2>1
<1>14. CASE \/ SyncCache(op) \/ JobRuns \/ JobDeleted \/ GarbageCollect \/ Tick
            \/ DependencyChanges \/ UserTogglesPause \/ UserEditsSpec
            \/ UNCHANGED vars
  <2>1. UNCHANGED <<pc, snap, todo>>
    BY <1>14
    DEF SyncCache, JobRuns, JobDeleted, GarbageCollect, Tick, DependencyChanges,
        UserTogglesPause, UserEditsSpec, operator, vars
  <2>2. JobNames' \subseteq JobNames
    <3>1. CASE JobRuns
      <4>1. PICK j \in JobNames, q \in Phases : jobs' = [jobs EXCEPT ![j] = q]
        BY <3>1, JobRunsStep
      <4> QED
        BY <4>1 DEF JobNames, TypeOK
    <3>2. CASE ~ JobRuns
      BY <1>14, <3>2
      DEF SyncCache, JobDeleted, GarbageCollect, Tick, DependencyChanges,
          UserTogglesPause, UserEditsSpec, JobNames, TypeOK, vars, kube
    <3> QED
      BY <3>1, <3>2
  <2>3. obj'.uid = obj.uid /\ obj'.live = obj.live /\ obj'.finalizer = obj.finalizer
    BY <1>14
    DEF SyncCache, JobRuns, JobDeleted, GarbageCollect, Tick, DependencyChanges,
        UserTogglesPause, UserEditsSpec, vars, kube, TypeOK, Objects
  <2> QED
    BY <2>1, <2>2, <2>3, JobsHeldFrame
<1>15. CASE UserCreates
  <2>1. ~ obj.live /\ JobNames' = JobNames /\ UNCHANGED <<pc, snap>>
    BY <1>15 DEF UserCreates, operator, JobNames
  <2>2. JobNames' = {}
    BY <2>1 DEF JobsAreHeld
  <2>3. pc[op] # "update_status_completed"
    BY <1>0, <2>1, CallSets DEF HeldInWork
  <2> QED
    BY <2>1, <2>2, <2>3, NoJobsHeld DEF OwnCompletion
<1>16. CASE UserDeletes
  <2>1. JobNames' = JobNames /\ UNCHANGED <<pc, snap, todo>>
    BY <1>16 DEF UserDeletes, operator, JobNames
  <2>2. obj'.uid = obj.uid
    BY <1>16 DEF UserDeletes, TypeOK, Objects
  <2>3. CASE obj.finalizer
    <3>1. obj'.live = obj.live /\ obj'.finalizer = obj.finalizer
      BY <1>16, <2>3 DEF UserDeletes, TypeOK, Objects
    <3> QED
      BY <2>1, <2>2, <3>1, JobsHeldFrame
  <2>4. CASE ~ obj.finalizer
    <3>1. JobNames' = {}
      BY <2>1, <2>4 DEF JobsAreHeld
    <3> QED
      BY <2>1, <2>2, <3>1, NoJobsHeld DEF OwnCompletion
  <2> QED
    BY <2>3, <2>4
<1>17. CASE AddFinalizer(op) \/ RemoveFinalizer(op)
  BY <1>3, <1>4, <1>12, <1>17
<1> QED
  BY <1>2, <1>5, <1>6, <1>7, <1>9, <1>10, <1>11, <1>12, <1>13, <1>14, <1>15, <1>16,
     <1>17
  DEF Next, Reconcile, Environment

\* The calls before a completion is reported, among the others.
LEMMA UnfinishedCallSets ==
  /\ UnfinishedCalls \subseteq WorkCalls \cup {"add_finalizer"}
  /\ CreateCalls \subseteq UnfinishedCalls
  /\ {"idle", "update_status_paused", "update_status_completed"}
       \cap UnfinishedCalls = {}
  /\ UnfinishedCalls \cap CleanupCalls = {}
  BY DEF UnfinishedCalls, CreateCalls, WorkCalls, CleanupCalls, Calls

\* A step keeps CompletionIsKept when it leaves what the status says and the annotation
\* alone, and the operator stays where it is, stops, cleans up or goes on from a call
\* before the completion to another or to the report of the completion.
LEMMA KeptFrame ==
  ASSUME NEW op, Replicas = {op}, CompletionIsKept,
         obj'.live =>
           /\ obj.live /\ obj'.info = obj.info /\ obj'.paused = obj.paused
           /\ obj'.uid = obj.uid
           /\ obj.finalizer => obj'.finalizer
           /\ IsComplete(obj') = IsComplete(obj),
         toggles' = toggles,
         \/ pc'[op] = pc[op] /\ snap'[op] = snap[op]
         \/ pc'[op] \in CleanupCalls \cup {"idle"}
         \/ /\ pc[op] \in UnfinishedCalls /\ snap'[op] = snap[op]
            /\ pc'[op] \in UnfinishedCalls \cup {"update_status_completed"}
  PROVE  CompletionIsKept'
<1>0. pc'[op] = "update_status_paused" /\ snap'[op].info => snap'[op].finalizer
  BY CallSets, UnfinishedCallSets DEF CompletionIsKept
<1>1. CASE ~ obj'.live
  BY <1>0, <1>1 DEF CompletionIsKept
<1>2. ASSUME obj'.live
      PROVE
      /\ /\ pc'[op] \in WorkCalls \cup {"add_finalizer"}
         /\ obj'.paused /\ snap'[op].uid = obj'.uid
         => toggles = MaxToggles
      /\ pc'[op] \in UnfinishedCalls => ~ obj'.info
      /\ pc'[op] = "update_status_paused" /\ (obj'.info \/ snap'[op].info) =>
           obj'.info /\ obj'.paused /\ toggles = MaxToggles
  BY <1>2, CallSets, UnfinishedCallSets DEF CompletionIsKept
<1>3. ASSUME obj'.live, obj'.info
      PROVE  /\ obj'.finalizer
             /\ obj'.paused => toggles' = MaxToggles
             /\ IsComplete(obj') \/ obj'.paused
  BY <1>3 DEF CompletionIsKept
<1>4. CASE obj'.live
  BY <1>0, <1>2, <1>3, <1>4
  DEF CompletionIsKept, WorkCalls, UnfinishedCalls, CreateCalls
<1> QED
  BY <1>1, <1>4

\* The same for a step that goes on and touches neither the object nor the annotation.
LEMMA GotoKept ==
  ASSUME NEW op, Replicas = {op}, KeptInv, NEW call, Goto(op, call),
         UNCHANGED <<obj, toggles>>,
         \/ call \in CleanupCalls \cup {"idle"}
         \/ /\ pc[op] \in UnfinishedCalls
            /\ call \in UnfinishedCalls \cup {"update_status_completed"}
  PROVE  CompletionIsKept'
<1>1. pc'[op] = call /\ (call # "idle" => snap'[op] = snap[op])
  BY GotoMoves DEF KeptInv
<1>2. IsComplete(obj') = IsComplete(obj)
  OBVIOUS
<1> QED
  BY <1>1, <1>2, KeptFrame DEF KeptInv

\* A reconciliation starts on the object as it is: towards a Job only if it has not
\* completed.
LEMMA StartKept ==
  ASSUME CacheLag = FALSE, NEW op, Replicas = {op}, KeptInv, StartReconcile(op)
  PROVE  CompletionIsKept'
<1>1. /\ pc'[op] = FirstCall(obj) /\ snap'[op] = obj /\ obj.live
      /\ UNCHANGED <<obj, toggles>>
  BY DEF StartReconcile, kube, bounds, KeptInv, TypeOK
<1>2. IsComplete(obj') = IsComplete(obj)
  BY <1>1
<1>3. CASE pc'[op] \in CleanupCalls \cup {"idle"}
  BY <1>1, <1>2, <1>3, KeptFrame DEF KeptInv
<1>4. CASE pc'[op] \notin CleanupCalls \cup {"idle"}
  <2>1. /\ pc'[op] \in {"update_status_paused", "add_finalizer", "list_jobs"}
        /\ pc'[op] = "update_status_paused" <=> obj.paused
        /\ ~ obj.paused => ~ obj.finalizer \/ ~ IsComplete(obj)
    BY <1>1, <1>4 DEF FirstCall, AfterFinalizer, CleanupCalls
  <2>2. ~ obj.paused => ~ obj.info
    BY <1>1, <2>1 DEF KeptInv, CompletionIsKept
  <2>3. obj.info /\ obj.paused => toggles = MaxToggles
    BY <1>1 DEF KeptInv, CompletionIsKept
  <2>4. /\ pc'[op] \in WorkCalls \cup {"add_finalizer"} => ~ obj'.paused
        /\ pc'[op] \in UnfinishedCalls => ~ obj'.info
        /\ pc'[op] = "update_status_paused" /\ (obj'.info \/ snap'[op].info) =>
             obj'.info /\ obj'.paused /\ toggles = MaxToggles
    BY <1>1, <2>1, <2>2, <2>3, CallSets, UnfinishedCallSets
  <2>5. obj'.info => /\ obj'.finalizer
                     /\ obj'.paused => toggles' = MaxToggles
                     /\ IsComplete(obj') \/ obj'.paused
    BY <1>1, <1>2 DEF KeptInv, CompletionIsKept
  <2>6. snap'[op].info => snap'[op].finalizer
    BY <1>1, <2>5
  <2> QED
    BY <1>1, <2>4, <2>5, <2>6
    DEF CompletionIsKept, WorkCalls, UnfinishedCalls, CreateCalls
<1> QED
  BY <1>3, <1>4

\* A status patch keeps CompletionIsKept: a completion is written over by a pause only.
LEMMA PatchKept ==
  ASSUME NEW op, Replicas = {op}, KeptInv,
         \/ UpdateStatusRunning(op) \/ UpdateStatusCompleted(op)
         \/ UpdateStatusFailed(op) \/ UpdateStatusError(op)
         \/ UpdateStatusReconciliationPaused(op)
  PROVE  CompletionIsKept'
<1>1. CASE NotFound(op)
  BY <1>1, GotoKept DEF NotFound, kube, bounds
<1>2. CASE ~ NotFound(op)
  <2>1. PICK conditions \in {Running, Completed, Failed, Unresolved, Paused},
             call \in Calls, info \in {TRUE, obj.info, obj.info \/ snap[op].info} :
          /\ PatchStatus(op, call, conditions, info)
          /\ \/ call \in UnfinishedCalls /\ info = obj.info
             \/ /\ call = "update_status_completed" /\ conditions = Completed
                /\ info = TRUE
             \/ call = "update_status_paused" /\ info = (obj.info \/ snap[op].info)
    BY DEF UpdateStatusRunning, UpdateStatusCompleted, UpdateStatusFailed,
           UpdateStatusError, UpdateStatusReconciliationPaused, UnfinishedCalls, Calls
  <2>2. /\ pc[op] = call /\ obj.live /\ Goto(op, "idle") /\ toggles' = toggles
        /\ obj' = [obj EXCEPT !.conditions = conditions,
                              !.observed = snap[op].generation, !.info = info]
    BY <1>2, <2>1 DEF PatchStatus, bounds
  <2>3. pc'[op] = "idle"
    BY <2>2, GotoMoves DEF KeptInv
  <2>4. /\ obj'.live /\ obj'.info = info /\ obj'.conditions = conditions
        /\ obj'.paused = obj.paused /\ obj'.finalizer = obj.finalizer
    BY <2>2 DEF KeptInv, TypeOK, Objects
  <2>5. is_condition_true(Completed, "RestoreComplete")
    BY DEF is_condition_true, Completed, ready, new_condition
  <2>6. info => /\ obj.paused => toggles = MaxToggles
                /\ IsComplete(obj') \/ obj.paused
    <3>1. CASE call \in UnfinishedCalls /\ info = obj.info
      BY <2>2, <3>1 DEF KeptInv, CompletionIsKept
    <3>2. CASE call = "update_status_completed" /\ conditions = Completed
      <4>1. snap[op].uid = obj.uid
        BY <2>2, <3>2 DEF KeptInv, OwnCompletion
      <4> QED
        BY <2>2, <2>4, <2>5, <3>2, <4>1, CallSets
        DEF KeptInv, CompletionIsKept, IsComplete
    <3>3. CASE call = "update_status_paused" /\ info = (obj.info \/ snap[op].info)
      BY <2>2, <3>3 DEF KeptInv, CompletionIsKept
    <3> QED
      BY <2>1, <3>1, <3>2, <3>3
  <2>7. info => obj.finalizer
    <3>1. CASE call = "update_status_paused" /\ info = (obj.info \/ snap[op].info)
      BY <2>2, <3>1 DEF KeptInv, CompletionIsKept
    <3>2. CASE call \in UnfinishedCalls /\ info = obj.info
      BY <2>2, <3>2 DEF KeptInv, CompletionIsKept
    <3>3. CASE call = "update_status_completed"
      BY <2>2, <3>3, CallSets DEF KeptInv, HeldInWork
    <3> QED
      BY <2>1, <3>1, <3>2, <3>3
  <2> QED
    BY <2>2, <2>3, <2>4, <2>6, <2>7, CallSets, UnfinishedCallSets
    DEF CompletionIsKept, WorkCalls, UnfinishedCalls, CreateCalls
<1> QED
  BY <1>1, <1>2

\* CompletionIsKept is inductive as long as a completion is reported to the object that
\* was listed.
LEMMA KeptStep ==
  ASSUME CacheLag = FALSE, MaxToggles <= 1, NEW op, Replicas = {op}, KeptInv,
         [Next]_vars
  PROVE  TypeOK' /\ HeldInWork' /\ CompletionIsKept'
<1> USE RestoreConstants
<1>0. TypeOK' /\ HeldInWork' /\ op \in Replicas /\ TypeOK
  BY TypeStep, HeldStep DEF KeptInv
<1>1. SUFFICES CompletionIsKept'
  BY <1>0
<1>2. CASE Reconcile(op)
  <2>1. CASE StartReconcile(op)
    BY <2>1, StartKept
  <2>2. CASE AddFinalizer(op)
    <3>1. CASE NotFound(op)
      BY <3>1, GotoKept DEF NotFound, kube, bounds
    <3>2. CASE ~ NotFound(op)
      <4>1. /\ pc[op] = "add_finalizer" /\ Goto(op, AfterFinalizer(snap[op]))
            /\ obj' = [obj EXCEPT !.finalizer = TRUE] /\ obj.live /\ toggles' = toggles
        BY <2>2, <3>2 DEF AddFinalizer, bounds
      <4>2. PICK call \in {"idle", "list_jobs"} : Goto(op, call)
        BY <4>1, FirstCallType
      <4>3. pc'[op] = call /\ (call # "idle" => snap'[op] = snap[op])
        BY <1>0, <4>2, GotoMoves
      <4>4. /\ obj'.uid = obj.uid
            /\ obj'.info = obj.info /\ obj'.paused = obj.paused /\ obj'.finalizer
            /\ IsComplete(obj') = IsComplete(obj)
        BY <1>0, <4>1 DEF TypeOK, Objects, IsComplete
      <4>5. pc[op] \in UnfinishedCalls /\ "list_jobs" \in UnfinishedCalls
        BY <4>1 DEF UnfinishedCalls
      <4> QED
        BY <4>1, <4>2, <4>3, <4>4, <4>5, KeptFrame DEF KeptInv
    <3> QED
      BY <3>1, <3>2
  <2>3. CASE ListJobs(op)
    <3> DEFINE call == CallFor(classify_jobs({jobs[j] : j \in JobNames}), snap[op])
    <3>1. call \in UnfinishedCalls \cup {"idle", "update_status_completed"}
      BY CallForType, ClassifyType DEF UnfinishedCalls, CreateCalls
    <3>2. /\ pc[op] \in UnfinishedCalls /\ Goto(op, call)
          /\ UNCHANGED <<obj, toggles>>
      BY <2>3 DEF ListJobs, kube, bounds, UnfinishedCalls
    <3> QED
      BY <3>1, <3>2, GotoKept
  <2>4. CASE \/ GetBackup(op) \/ ResolveCluster(op) \/ BuildConfig(op)
             \/ CreateOrUpdateConfigMap(op) \/ CreateJob(op)
    <3>1. \E call \in UnfinishedCalls \cup {"idle"} : Goto(op, call)
      BY <2>4
      DEF GetBackup, ResolveCluster, BuildConfig, CreateOrUpdateConfigMap, CreateJob,
          UnfinishedCalls, CreateCalls
    <3>2. pc[op] \in UnfinishedCalls /\ UNCHANGED <<obj, toggles>>
      BY <2>4
      DEF GetBackup, ResolveCluster, BuildConfig, CreateOrUpdateConfigMap, CreateJob,
          UnfinishedCalls, CreateCalls, kube, bounds
    <3> QED
      BY <3>1, <3>2, GotoKept
  <2>5. CASE \/ UpdateStatusRunning(op) \/ UpdateStatusCompleted(op)
             \/ UpdateStatusFailed(op) \/ UpdateStatusError(op)
             \/ UpdateStatusReconciliationPaused(op)
    BY <2>5, PatchKept
  <2>6. CASE CleanupList(op) \/ CleanupJobs(op) \/ CleanupConfigMap(op)
    <3>1. /\ UNCHANGED <<obj, toggles>>
          /\ \/ \E call \in CleanupCalls : Goto(op, call)
             \/ UNCHANGED <<pc, snap>>
      BY <2>6 DEF CleanupList, CleanupJobs, CleanupConfigMap, CleanupCalls, kube, bounds
    <3>2. CASE UNCHANGED <<pc, snap>>
      BY <3>1, <3>2, KeptFrame DEF KeptInv
    <3> QED
      BY <3>1, <3>2, GotoKept
  <2>7. CASE RemoveFinalizer(op)
    <3>1. CASE NotFound(op)
      BY <3>1, GotoKept DEF NotFound, kube, bounds
    <3>2. CASE ~ NotFound(op)
      <4>1. /\ pc[op] = "remove_finalizer" /\ Goto(op, "idle")
            /\ obj' = [obj EXCEPT !.finalizer = FALSE, !.live = ~ obj.deleting]
        BY <2>7, <3>2 DEF RemoveFinalizer
      <4>2. obj.deleting
        BY <1>0, <4>1 DEF KeptInv, HeldInWork, CleanupCalls
      <4>3. ~ obj'.live
        BY <1>0, <4>1, <4>2 DEF TypeOK, Objects
      <4>4. pc'[op] = "idle"
        BY <1>0, <4>1, GotoMoves
      <4> QED
        BY <4>3, <4>4 DEF CompletionIsKept
    <3> QED
      BY <3>1, <3>2
  <2> QED
    BY <1>2, <2>1, <2>2, <2>3, <2>4, <2>5, <2>6, <2>7 DEF Reconcile
<1>3. CASE Abort(op)
  BY <1>3, GotoKept DEF Abort, kube
<1>4. CASE \/ SyncCache(op) \/ JobRuns \/ JobDeleted \/ GarbageCollect \/ Tick
           \/ DependencyChanges \/ UNCHANGED vars
  <2>1. UNCHANGED <<obj, toggles, pc, snap>>
    BY <1>4
    DEF SyncCache, JobRuns, JobDeleted, GarbageCollect, Tick, DependencyChanges, vars,
        kube, operator, bounds
  <2>2. IsComplete(obj') = IsComplete(obj)
    BY <2>1
  <2> QED
    BY <2>1, <2>2, KeptFrame DEF KeptInv
<1>5. CASE UserCreates
  <2>1. /\ ~ obj.live /\ UNCHANGED <<pc, snap>>
        /\ \E p \in BOOLEAN :
             obj' = [NoObject EXCEPT !.live = TRUE, !.uid = obj.uid + 1,
                                     !.generation = 1, !.paused = p]
    BY <1>5 DEF UserCreates, operator
  <2>2. obj'.uid = obj.uid + 1 /\ ~ obj'.info
    BY <2>1 DEF NoObject
  <2>3. pc[op] # "idle" => /\ snap[op].uid <= obj.uid /\ ~ snap[op].finalizer
                           /\ pc[op] \notin WorkCalls
    BY <2>1 DEF KeptInv, HeldInWork
  <2>4. obj.uid \in Nat /\ snap[op].uid \in Nat
    BY <1>0 DEF TypeOK, Objects
  <2>5. pc'[op] # "idle" => snap'[op].uid # obj'.uid
    BY <2>1, <2>2, <2>3, <2>4
  <2>6. pc'[op] = "update_status_paused" => ~ snap'[op].info
    BY <2>1, <2>3 DEF KeptInv, CompletionIsKept
  <2> QED
    BY <2>1, <2>2, <2>5, <2>6
    DEF CompletionIsKept, WorkCalls, UnfinishedCalls, CreateCalls
<1>6. CASE UserTogglesPause
  <2>1. /\ obj.live /\ toggles < MaxToggles /\ toggles' = toggles + 1
        /\ obj' = [obj EXCEPT !.paused = ~ obj.paused] /\ UNCHANGED <<pc, snap>>
    BY <1>6 DEF UserTogglesPause, operator
  <2>2. toggles' = MaxToggles /\ toggles # MaxToggles
    BY <1>0, <2>1 DEF TypeOK
  <2>3. /\ obj'.info = obj.info /\ obj'.finalizer = obj.finalizer
        /\ obj'.uid = obj.uid /\ obj'.paused = ~ obj.paused /\ IsComplete(obj') = IsComplete(obj)
    BY <1>0, <2>1 DEF TypeOK, Objects, IsComplete
  <2>4. obj.info => ~ obj.paused /\ obj'.paused /\ obj.finalizer
    BY <2>1, <2>2, <2>3 DEF KeptInv, CompletionIsKept
  <2>5. /\ pc'[op] \in UnfinishedCalls => ~ obj'.info
        /\ pc'[op] = "update_status_paused" => ~ obj'.info /\ ~ snap'[op].info
    BY <2>1, <2>2, <2>3 DEF KeptInv, CompletionIsKept
  <2>6. pc'[op] = "update_status_paused" /\ snap'[op].info => snap'[op].finalizer
    BY <2>1 DEF KeptInv, CompletionIsKept
  <2> QED
    BY <2>1, <2>2, <2>3, <2>4, <2>5, <2>6
    DEF CompletionIsKept, WorkCalls, UnfinishedCalls, CreateCalls
<1>7. CASE UserEditsSpec \/ UserDeletes
  <2>1. /\ obj.live /\ obj'.info = obj.info /\ obj'.paused = obj.paused
        /\ obj'.finalizer = obj.finalizer /\ obj'.uid = obj.uid
        /\ IsComplete(obj') = IsComplete(obj) /\ UNCHANGED <<pc, snap, toggles>>
    BY <1>0, <1>7
    DEF UserEditsSpec, UserDeletes, TypeOK, Objects, IsComplete, operator, bounds
  <2> QED
    BY <2>1, KeptFrame DEF KeptInv
<1> QED
  BY <1>2, <1>3, <1>4, <1>5, <1>6, <1>7 DEF Next, Environment

\* "Check if restore is already completed - don't re-run": with one replica that reads a
\* current cache, and the pause annotation set or removed at most once, no Job is created
\* for a resource whose restore has completed, whoever deletes Jobs and whichever calls
\* fail, unless both the name is reused at once and a cleanup that failed was ignored.
\* With two changes of the annotation it is not so: see run restore_pause_rerun.
THEOREM CompletedStaysCompleted ==
  ASSUME PromptRecreate = FALSE \/ CleanupErrors = FALSE,
         CacheLag = FALSE, MaxToggles <= 1, NEW CONSTANT op, Replicas = {op}
  PROVE  Spec => CompletedIsNotRerun
<1> DEFINE NotRerun ==
      \A r \in Replicas : pc[r] = "create_job" /\ pc'[r] = "update_status_running"
        /\ obj.live /\ snap[r].uid = obj.uid => ~ obj.info
<1>1. Init => KeptInv /\ JobsAreHeld
  <2>1. Init => TypeOK
    BY TypeInit
  <2>2. Init => HeldInWork /\ OwnCompletion /\ CompletionIsKept /\ JobsAreHeld
    BY CallSets
    DEF Init, NoObject, HeldInWork, OwnCompletion, CompletionIsKept, JobsAreHeld,
        JobNames
  <2> QED
    BY <2>1, <2>2 DEF KeptInv
<1>2. KeptInv => NotRerun
  BY DEF KeptInv, CompletionIsKept, UnfinishedCalls, CreateCalls
<1>3. CASE PromptRecreate = FALSE
  <2>1. Init => GuardInv
    BY GuardInit
  <2>2. GuardInv /\ KeptInv /\ [Next]_vars => GuardInv' /\ KeptInv'
    <3>1. SUFFICES ASSUME GuardInv, KeptInv, [Next]_vars PROVE GuardInv' /\ KeptInv'
      OBVIOUS
    <3>2. GuardInv' /\ TypeOK' /\ HeldInWork' /\ CompletionIsKept'
      BY <1>3, <3>1, GuardStep, KeptStep
    <3>3. OwnCompletion'
      BY <3>2 DEF GuardInv, OneIdentity, OwnCompletion
    <3> QED
      BY <3>2, <3>3 DEF KeptInv
  <2> QED
    BY <1>1, <1>2, <2>1, <2>2, PTL DEF Spec, CompletedIsNotRerun
<1>4. CASE CleanupErrors = FALSE
  <2>1. JobsAreHeld /\ KeptInv /\ [Next]_vars => JobsAreHeld' /\ KeptInv'
    <3>1. SUFFICES ASSUME JobsAreHeld, KeptInv, [Next]_vars
                   PROVE  JobsAreHeld' /\ KeptInv'
      OBVIOUS
    <3>2. TypeOK' /\ HeldInWork' /\ CompletionIsKept'
      BY <3>1, KeptStep
    <3>3. JobsAreHeld' /\ OwnCompletion'
      BY <1>4, <3>1, JobsHeldStep DEF KeptInv
    <3> QED
      BY <3>2, <3>3 DEF KeptInv
  <2> QED
    BY <1>1, <1>2, <2>1, PTL DEF Spec, CompletedIsNotRerun
<1> QED
  BY <1>3, <1>4
=============================================================================
