---------------------------- MODULE BackupProofs ----------------------------
(***************************************************************************)
(* Type correctness of the backup controller, and what holds of it for     *)
(* every value of the constants, lagging cache and faults included: the    *)
(* finalizer covers what it created, and a resource paused from birth      *)
(* stays untouched (GuardInv).                                             *)
(***************************************************************************)
EXTENDS BackupReconciler, SetLemmas

\* Latest is a finished Job, and the newest of them.
LEMMA LatestIsNewest ==
  ASSUME Terminal # {}
  PROVE  Latest \in Terminal /\ \A j \in Terminal : j <= Latest
<1>1. Terminal \in SUBSET (1..(2 * MaxClock)) /\ 2 * MaxClock \in Nat
  BY BackupConstants DEF Terminal, JobNames, Names
<1> QED
  BY <1>1, LargestName DEF Latest

\* The history of runs counts on, up to its bound.
LEMMA RunsCount ==
  ASSUME NEW a \in Nat, NEW b \in Nat
  PROVE  Min({a, b}) \in Nat /\ Min({a, b}) <= a /\ Min({a, b}) <= b
                      /\ Min({a, b}) \in {a, b}
<1>1. \E x \in {a, b} : \A y \in {a, b} : x =< y
  OBVIOUS
<1>2. Min({a, b}) \in {a, b} /\ \A y \in {a, b} : Min({a, b}) =< y
  BY <1>1 DEF Min
<1> QED
  BY <1>2

\* The object before its creation is an object.
LEMMA NoObjectType == NoObject \in Objects
<1>1. {} \in ConditionLists
  BY DEF ConditionLists
<1>2. 0 \in 0..MaxGeneration
  BY BackupConstants
<1> QED
  BY <1>1, <1>2 DEF NoObject, Objects

\* The sets of calls do not overlap.
LEMMA CallSets ==
  /\ WorkCalls \cap CleanupCalls = {}
  /\ {"idle", "add_finalizer", "update_status_paused"}
       \cap (WorkCalls \cup CleanupCalls) = {}
  /\ WorkCalls \subseteq Calls /\ CleanupCalls \subseteq Calls
  /\ {"resolve_cluster", "build_config", "apply_config_map", "apply_cronjob",
      "update_status_scheduled", "list_jobs", "create_job", "update_status_running",
      "remove_trigger", "check_job_completion", "update_status_completed",
      "update_status_failed", "update_status_error"} \subseteq WorkCalls
  BY DEF WorkCalls, CleanupCalls, Calls

-----------------------------------------------------------------------------
(***************************************************************************)
(* Types.                                                                  *)
(***************************************************************************)

\* Going on to a call keeps the types of pc and snap.
LEMMA GotoType ==
  ASSUME TypeOK, NEW call \in Calls, Goto(call)
  PROVE  pc' \in Calls /\ snap' \in Objects
  BY NoObjectType DEF Goto, TypeOK

\* A patch with a well-formed status keeps the types.
LEMMA PatchType ==
  ASSUME TypeOK, NEW new \in Objects, NEW call \in Calls, PatchStatus(new, call)
  PROVE  TypeOK' /\ triggers' = triggers /\ requests' = requests
         /\ obj'.generation = new.generation
<1>1. pc' \in Calls /\ snap' \in Objects
  BY GotoType DEF PatchStatus
<1>2. obj' = [new EXCEPT !.observed = snap.generation]
  BY DEF PatchStatus
<1>3. obj' \in Objects /\ obj'.generation = new.generation
  BY <1>2 DEF TypeOK, Objects
<1> QED
  BY <1>1, <1>3 DEF PatchStatus, TypeOK, history, bounds, MaxRuns

\* A step of the reconciliation that only goes on keeps the types.
LEMMA InnerType ==
  ASSUME TypeOK, NEW call \in Calls, Goto(call), found' \in Names \cup {0},
         todo' \subseteq Names,
         UNCHANGED <<kube, history, cache, lastTransition, toggles, triggers>>,
         faults' \in 0..MaxFaults
  PROVE  TypeOK'
<1>1. pc' \in Calls /\ snap' \in Objects
  BY GotoType
<1> QED
  BY <1>1 DEF TypeOK, kube, history, MaxRuns

\* A call that finds the object gone keeps the types.
LEMMA NotFoundType ==
  ASSUME TypeOK, NotFound
  PROVE  TypeOK' /\ UNCHANGED <<obj, triggers, requests>>
<1>1. /\ Goto("idle") /\ found' = 0 /\ todo' = {}
      /\ UNCHANGED <<kube, history, bounds, cache, lastTransition>>
  BY DEF NotFound
<1> QED
  BY <1>1, InnerType DEF Calls, bounds, kube, history, TypeOK

\* The calls the operator's decisions lead to.
LEMMA DecisionType ==
  ASSUME NEW o
  PROVE  /\ FirstCall(o) \in Calls /\ AfterSchedule(o) \in Calls
         /\ AfterCreate(o) \in Calls
  BY DEF FirstCall, AfterSchedule, AfterCreate, Calls

\* A Job's step leaves it a Job.
LEMMA JobRunsStep ==
  ASSUME JobRuns, TypeOK
  PROVE  \E j \in JobNames, q \in Phases :
           /\ jobs[j] \in {"pending", "active"}
           /\ jobs' = [jobs EXCEPT ![j] = q]
<1>1. PICK j \in JobNames,
           step \in {<<"pending", "active">>, <<"active", "pending">>,
                     <<"active", "succeeded">>, <<"active", "failed">>} :
        jobs[j] = step[1] /\ jobs' = [jobs EXCEPT ![j] = step[2]]
  BY DEF JobRuns
<1>2. step[1] \in {"pending", "active"} /\ step[2] \in Phases
  BY DEF Phases
<1> QED
  BY <1>1, <1>2

\* The status conditions that the patches write are well formed.
LEMMA ConditionTypes ==
  /\ {Running, Scheduled, Suspended, Completed, Unresolved, Paused} \subseteq ConditionLists
  /\ \A j \in Names : JobFailed(j) \in ConditionLists
  BY DEF ConditionLists

\* The six calls that report in the status.
StatusCall ==
  \/ UpdateStatusScheduled \/ UpdateStatusRunning \/ UpdateStatusCompleted
  \/ UpdateStatusFailed \/ UpdateStatusError \/ UpdateStatusReconciliationPaused

\* The status `new` that the report of a call writes, before its observedGeneration: the
\* object with other conditions, a record that only two of the calls touch, and the next
\* run.
Reported(new) ==
  /\ new \in Objects
  /\ \A f \in DOMAIN obj \ {"conditions", "lastBackup", "backupHistory", "next"} :
       new[f] = obj[f]
  /\ pc = "update_status_completed" =>
       new.lastBackup = found /\ new.backupHistory = obj.backupHistory \cup {found}
  /\ pc = "update_status_paused" =>
       /\ new.lastBackup \in {obj.lastBackup, snap.lastBackup}
       /\ new.backupHistory \in {obj.backupHistory, snap.backupHistory}
  /\ pc \notin {"update_status_completed", "update_status_paused"} =>
       new.lastBackup = obj.lastBackup /\ new.backupHistory = obj.backupHistory

\* The call that follows a report.
AfterStatus ==
  IF pc = "update_status_scheduled" THEN AfterSchedule(snap)
  ELSE IF pc = "update_status_running" THEN AfterCreate(snap)
  ELSE "idle"

\* A report finds the object gone, is skipped, or patches the status.
LEMMA StatusIsPatch ==
  ASSUME TypeInv, StatusCall
  PROVE  /\ pc \in {"update_status_scheduled", "update_status_running",
                    "update_status_completed", "update_status_failed",
                    "update_status_error", "update_status_paused"}
         /\ \/ NotFound
            \/ /\ obj.live /\ Goto(AfterStatus)
               /\ UNCHANGED <<kube, history, bounds, cache, found, todo, lastTransition>>
            \/ \E new : Reported(new) /\ PatchStatus(new, AfterStatus)
<1>1. /\ obj \in Objects /\ snap \in Objects
      /\ pc = "update_status_completed" => found \in Names
      /\ pc = "update_status_failed" => found \in Names
  BY DEF TypeInv, TypeOK, FoundIsJob
<1>2. CASE UpdateStatusScheduled /\ ~ NotFound
  <2> DEFINE suspended == snap.schedule = "suspended"
             reason == IF suspended THEN "BackupSuspended" ELSE "BackupScheduled"
             after == AfterSchedule(snap)
             new == [obj EXCEPT !.conditions = {ready(reason)}, !.next = ~ suspended]
  <2>1. {ready(reason)} \in ConditionLists
    BY ConditionTypes DEF Scheduled, Suspended
  <2>2. pc = "update_status_scheduled"
    BY <1>2 DEF UpdateStatusScheduled
  <2>3. Reported(new) /\ after = AfterStatus
    BY <1>1, <2>1, <2>2 DEF Objects, Reported, AfterStatus
  <2>4. \/ /\ obj.live /\ Goto(after)
           /\ UNCHANGED <<kube, history, bounds, cache, found, todo, lastTransition>>
        \/ PatchStatus(new, after)
    BY <1>2 DEF UpdateStatusScheduled
  <2> HIDE DEF new, after
  <2> QED
    BY <2>2, <2>3, <2>4
<1>3. CASE UpdateStatusRunning /\ ~ NotFound
  <2> DEFINE new == [obj EXCEPT !.conditions = Running]
  <2>1. pc = "update_status_running" /\ PatchStatus(new, AfterCreate(snap))
    BY <1>3 DEF UpdateStatusRunning
  <2>2. Reported(new) /\ AfterCreate(snap) = AfterStatus
    BY <1>1, <2>1, ConditionTypes DEF Objects, Reported, AfterStatus
  <2> HIDE DEF new
  <2> QED
    BY <2>1, <2>2
<1>4. CASE UpdateStatusCompleted /\ ~ NotFound
  <2> DEFINE new == [obj EXCEPT !.conditions = Completed, !.lastBackup = found,
                                !.backupHistory = @ \cup {found}]
  <2>1. pc = "update_status_completed" /\ PatchStatus(new, "idle")
    BY <1>4 DEF UpdateStatusCompleted
  <2>2. Reported(new) /\ AfterStatus = "idle"
    BY <1>1, <2>1, ConditionTypes DEF Objects, Reported, AfterStatus
  <2> HIDE DEF new
  <2> QED
    BY <2>1, <2>2
<1>5. CASE UpdateStatusFailed /\ ~ NotFound
  <2> DEFINE new == [obj EXCEPT !.conditions = JobFailed(found)]
  <2>1. pc = "update_status_failed" /\ PatchStatus(new, "idle")
    BY <1>5 DEF UpdateStatusFailed
  <2>2. JobFailed(found) \in ConditionLists
    BY <1>1, <2>1, ConditionTypes
  <2>3. Reported(new) /\ AfterStatus = "idle"
    BY <1>1, <2>1, <2>2 DEF Objects, Reported, AfterStatus
  <2> HIDE DEF new
  <2> QED
    BY <2>1, <2>3
<1>6. CASE UpdateStatusError /\ ~ NotFound
  <2> DEFINE new == [obj EXCEPT !.conditions = Unresolved]
  <2>1. pc = "update_status_error" /\ PatchStatus(new, "idle")
    BY <1>6 DEF UpdateStatusError
  <2>2. Reported(new) /\ AfterStatus = "idle"
    BY <1>1, <2>1, ConditionTypes DEF Objects, Reported, AfterStatus
  <2> HIDE DEF new
  <2> QED
    BY <2>1, <2>2
<1>7. CASE UpdateStatusReconciliationPaused /\ ~ NotFound
  <2> DEFINE last == IF snap.lastBackup = 0 THEN obj.lastBackup ELSE snap.lastBackup
             past == IF snap.backupHistory = {} THEN obj.backupHistory
                     ELSE snap.backupHistory
             next == obj.next \/ snap.next
             new == [obj EXCEPT !.conditions = Paused, !.lastBackup = last,
                                !.backupHistory = past, !.next = next]
  <2>0. /\ last \in Names \cup {0} /\ past \in SUBSET Names /\ next \in BOOLEAN
        /\ last \in {obj.lastBackup, snap.lastBackup}
        /\ past \in {obj.backupHistory, snap.backupHistory}
        /\ Paused \in ConditionLists
    BY <1>1, ConditionTypes DEF Objects
  <2>1. pc = "update_status_paused" /\ PatchStatus(new, "idle")
    BY <1>7 DEF UpdateStatusReconciliationPaused
  <2> HIDE DEF last, past, next
  <2>2. /\ new.lastBackup \in {obj.lastBackup, snap.lastBackup}
        /\ new.backupHistory \in {obj.backupHistory, snap.backupHistory}
    BY <1>1, <2>0 DEF Objects
  <2>3. new \in Objects
    BY <1>1, <2>0 DEF Objects
  <2>4. \A f \in DOMAIN obj \ {"conditions", "lastBackup", "backupHistory", "next"} :
          new[f] = obj[f]
    BY <1>1 DEF Objects
  <2>5. Reported(new) /\ AfterStatus = "idle"
    <3> HIDE DEF new
    <3> QED
      BY <2>1, <2>2, <2>3, <2>4 DEF Reported, AfterStatus
  <2> HIDE DEF new
  <2> QED
    BY <2>1, <2>5
<1> QED
  BY <1>2, <1>3, <1>4, <1>5, <1>6, <1>7
  DEF StatusCall, UpdateStatusScheduled, UpdateStatusRunning, UpdateStatusCompleted,
      UpdateStatusFailed, UpdateStatusError, UpdateStatusReconciliationPaused

\* The fields of a report that are the object's.
LEMMA ReportedKeeps ==
  ASSUME TypeInv, NEW new, Reported(new)
  PROVE  /\ new.live = obj.live /\ new.generation = obj.generation
         /\ new.deleting = obj.deleting /\ new.finalizer = obj.finalizer
         /\ new.paused = obj.paused /\ new.trigger = obj.trigger
         /\ new.schedule = obj.schedule
  BY DEF Reported, TypeInv, TypeOK, Objects

\* A report keeps the types.
LEMMA StatusType ==
  ASSUME TypeInv, StatusCall
  PROVE  TypeOK' /\ RequestsBounded'
<1>0. TypeOK /\ RequestsBounded /\ AfterStatus \in Calls
  BY DecisionType DEF TypeInv, AfterStatus, Calls
<1>1. CASE NotFound
  BY <1>0, <1>1, NotFoundType DEF RequestsBounded
<1>2. CASE /\ Goto(AfterStatus)
           /\ UNCHANGED <<kube, history, bounds, cache, found, todo, lastTransition>>
  <2>1. found' \in Names \cup {0} /\ todo' \subseteq Names /\ faults' \in 0..MaxFaults
    BY <1>0, <1>2 DEF TypeOK, bounds
  <2>2. UNCHANGED <<kube, history, cache, lastTransition, toggles, triggers>>
    BY <1>2 DEF bounds
  <2>3. UNCHANGED <<obj, requests, triggers>>
    BY <1>2 DEF kube, history, bounds
  <2> QED
    BY <1>0, <1>2, <2>1, <2>2, <2>3, InnerType DEF RequestsBounded
<1>3. CASE \E new : Reported(new) /\ PatchStatus(new, AfterStatus)
  <2>1. PICK new : Reported(new) /\ PatchStatus(new, AfterStatus)
    BY <1>3
  <2>2. new \in Objects /\ new.generation = obj.generation
    BY <2>1, ReportedKeeps DEF Reported
  <2> QED
    BY <1>0, <2>1, <2>2, PatchType DEF RequestsBounded
<1> QED
  BY <1>1, <1>2, <1>3, StatusIsPatch

\* Every step keeps the types.
LEMMA TypeStep == TypeInv /\ [Next]_vars => TypeOK' /\ RequestsBounded'
<1> SUFFICES ASSUME TypeInv, [Next]_vars PROVE TypeOK' /\ RequestsBounded'
  OBVIOUS
<1> USE BackupConstants
<1>0. TypeOK /\ RequestsBounded
  BY DEF TypeInv
<1>1. ASSUME NEW call \in Calls, Goto(call), found' \in Names \cup {0},
             todo' \subseteq Names,
             UNCHANGED <<kube, history, bounds, cache, lastTransition>>
      PROVE  TypeOK' /\ RequestsBounded'
  <2>1. faults' \in 0..MaxFaults
    BY <1>0, <1>1 DEF TypeOK, bounds
  <2>2. UNCHANGED <<kube, history, cache, lastTransition, toggles, triggers>>
    BY <1>1 DEF bounds
  <2>3. UNCHANGED <<obj, requests, triggers>>
    BY <1>1 DEF kube, history, bounds
  <2> QED
    BY <1>0, <1>1, <2>1, <2>2, <2>3, InnerType DEF RequestsBounded
<1>2. CASE StartReconcile
  BY <1>0, <1>2, DecisionType
  DEF StartReconcile, TypeOK, RequestsBounded, kube, history, bounds, MaxRuns
<1>3. CASE ResolveCluster \/ BuildConfig \/ ListJobs
  <2>1. /\ \E call \in Calls : Goto(call)
        /\ UNCHANGED <<kube, history, bounds, cache, found, todo, lastTransition>>
    BY <1>3, DecisionType DEF ResolveCluster, BuildConfig, ListJobs, Calls
  <2>2. found' \in Names \cup {0} /\ todo' \subseteq Names
    BY <1>0, <2>1 DEF TypeOK
  <2>3. UNCHANGED <<kube, history, bounds, cache, lastTransition>>
    BY <2>1
  <2> QED
    BY <1>1, <2>1, <2>2, <2>3
<1>4. CASE AddFinalizer \/ RemoveTriggerAnnotation \/ RemoveFinalizer
  <2>1. CASE NotFound
    BY <1>0, <2>1, NotFoundType DEF RequestsBounded
  <2>2. CASE ~ NotFound
    <3>1. /\ \E call \in Calls : Goto(call)
          /\ \/ obj' = [obj EXCEPT !.finalizer = TRUE]
             \/ obj' = [obj EXCEPT !.trigger = FALSE]
             \/ obj' = [obj EXCEPT !.finalizer = FALSE, !.live = ~ obj.deleting]
          /\ UNCHANGED <<jobs, cronJob, configMap, missing, clock, history, bounds,
                         cache, found, todo, lastTransition>>
      BY <1>4, <2>2 DEF AddFinalizer, RemoveTriggerAnnotation, RemoveFinalizer, Calls
    <3>2. obj' \in Objects /\ obj'.generation = obj.generation
      <4>1. obj \in Objects /\ (~ obj.deleting) \in BOOLEAN
        BY <1>0 DEF TypeOK
      <4>2. CASE obj' = [obj EXCEPT !.finalizer = TRUE]
        BY <4>1, <4>2 DEF Objects
      <4>3. CASE obj' = [obj EXCEPT !.trigger = FALSE]
        BY <4>1, <4>3 DEF Objects
      <4>4. CASE obj' = [obj EXCEPT !.finalizer = FALSE, !.live = ~ obj.deleting]
        BY <4>1, <4>4 DEF Objects
      <4> QED
        BY <3>1, <4>2, <4>3, <4>4
    <3>3. pc' \in Calls /\ snap' \in Objects
      BY <1>0, <3>1, GotoType
    <3> QED
      BY <1>0, <3>1, <3>2, <3>3 DEF TypeOK, RequestsBounded, history, bounds, MaxRuns
  <2> QED
    BY <2>1, <2>2
<1>5. CASE CreateOrUpdateConfigMap \/ ApplyCronJob \/ CleanupCronJob \/ CleanupConfigMap
  <2>1. /\ \E call \in Calls : Goto(call)
        /\ cronJob' \in {"absent", "active", "suspended"} /\ configMap' \in BOOLEAN
        /\ UNCHANGED <<obj, jobs, missing, clock, history, bounds, cache, found, todo,
                       lastTransition>>
    BY <1>0, <1>5, DecisionType
    DEF CreateOrUpdateConfigMap, ApplyCronJob, CleanupCronJob, CleanupConfigMap, Calls,
        build_backup_cronjob, TypeOK
  <2>2. pc' \in Calls /\ snap' \in Objects
    BY <1>0, <2>1, GotoType
  <2> QED
    BY <1>0, <2>1, <2>2 DEF TypeOK, RequestsBounded, history, bounds, MaxRuns
<1>6. CASE CreateJob
  <2>1. /\ \E call \in Calls : Goto(call)
        /\ UNCHANGED <<obj, cronJob, configMap, missing, clock, bounds, requests,
                       everActive, cache, found, todo, lastTransition>>
    BY <1>6 DEF CreateJob, Calls
  <2>2. jobs' \in [Names -> Phases \cup {Absent}]
    BY <1>0, <1>6 DEF CreateJob, TypeOK, build_backup_job, Phases
  <2>3. runs' \in 0..MaxRuns
    <3>1. runs \in Nat /\ runs <= MaxRuns /\ MaxRuns \in Nat
      BY <1>0 DEF TypeOK, MaxRuns
    <3>2. runs' = runs \/ runs' = Min({runs + 1, MaxRuns})
      BY <1>6 DEF CreateJob
    <3> QED
      BY <3>1, <3>2, RunsCount
  <2>4. pc' \in Calls /\ snap' \in Objects
    BY <1>0, <2>1, GotoType
  <2> QED
    BY <1>0, <2>1, <2>2, <2>3, <2>4 DEF TypeOK, RequestsBounded, bounds, MaxRuns
<1>7. CASE CheckJobCompletion
  <2>1. /\ \E call \in Calls : Goto(call)
        /\ found' = found \/ (Terminal # {} /\ found' = Latest)
        /\ UNCHANGED <<kube, history, bounds, cache, todo, lastTransition>>
    BY <1>7 DEF CheckJobCompletion, Calls
  <2>2. found' \in Names \cup {0} /\ todo' \subseteq Names
    BY <1>0, <2>1, LatestIsNewest DEF TypeOK, Terminal, JobNames
  <2>3. UNCHANGED <<kube, history, bounds, cache, lastTransition>>
    BY <2>1
  <2> QED
    BY <1>1, <2>1, <2>2, <2>3
<1>8. CASE StatusCall
  BY <1>8, StatusType
<1>9. CASE CleanupList
  <2>1. /\ Goto("cleanup_jobs") /\ todo' \subseteq Names
        /\ UNCHANGED <<kube, history, bounds, cache, lastTransition>>
        /\ found' = found
    BY <1>9 DEF CleanupList, JobNames
  <2>2. found' \in Names \cup {0}
    BY <1>0, <2>1 DEF TypeOK
  <2> QED
    BY <1>1, <2>1, <2>2 DEF Calls
<1>10. CASE CleanupJobs
  <2>1. pc' \in Calls /\ snap' \in Objects
    <3>1. UNCHANGED <<pc, snap>> \/ Goto("cleanup_cronjob")
      BY <1>10 DEF CleanupJobs
    <3>2. CASE UNCHANGED <<pc, snap>>
      BY <1>0, <3>2 DEF TypeOK
    <3> QED
      BY <1>0, <3>1, <3>2, GotoType DEF Calls
  <2>2. todo' \subseteq Names /\ jobs' \in [Names -> Phases \cup {Absent}]
    BY <1>0, <1>10 DEF CleanupJobs, TypeOK
  <2> QED
    BY <1>0, <1>10, <2>1, <2>2
    DEF CleanupJobs, TypeOK, RequestsBounded, history, bounds, MaxRuns
<1>11. CASE Abort
  <2>1. /\ Goto("idle") /\ found' = 0 /\ todo' = {} /\ faults' = faults + 1
        /\ faults < MaxFaults
        /\ UNCHANGED <<kube, history, cache, lastTransition, toggles, triggers>>
    BY <1>11 DEF Abort
  <2>2. faults' \in 0..MaxFaults
    BY <1>0, <2>1 DEF TypeOK
  <2>3. UNCHANGED <<obj, requests, triggers>>
    BY <2>1 DEF kube, history
  <2> QED
    BY <1>0, <2>1, <2>2, <2>3, InnerType DEF RequestsBounded, Calls
<1>12. CASE SyncCache
  BY <1>0, <1>12 DEF SyncCache, TypeOK, RequestsBounded, kube, history, bounds, MaxRuns
<1>13. CASE CronFires \/ JobRuns \/ JobDeleted \/ GarbageCollect
  <2>1. jobs' \in [Names -> Phases \cup {Absent}]
    <3>1. CASE JobRuns
      BY <1>0, <3>1, JobRunsStep DEF TypeOK
    <3>2. CASE CronFires
      BY <1>0, <3>2 DEF CronFires, TypeOK, Phases
    <3>3. CASE JobDeleted \/ GarbageCollect
      BY <1>0, <3>3 DEF JobDeleted, GarbageCollect, TypeOK
    <3> QED
      BY <1>13, <3>1, <3>2, <3>3
  <2>2. /\ cronJob' \in {cronJob, "absent"} /\ configMap' \in {configMap, FALSE}
        /\ UNCHANGED <<obj, missing, clock, operator, history, bounds, lastTransition>>
    BY <1>13 DEF CronFires, JobRuns, JobDeleted, GarbageCollect
  <2> QED
    BY <1>0, <2>1, <2>2
    DEF TypeOK, RequestsBounded, operator, history, bounds, MaxRuns
<1>14. CASE Tick \/ DependencyChanges
  <2>1. clock' \in 1..MaxClock
    BY <1>0, <1>14 DEF Tick, DependencyChanges, TypeOK
  <2>2. missing' \subseteq Dependencies
    BY <1>0, <1>14 DEF Tick, DependencyChanges, TypeOK
  <2> QED
    BY <1>0, <1>14, <2>1, <2>2
    DEF Tick, DependencyChanges, TypeOK, RequestsBounded, operator, history, bounds, MaxRuns
<1>15. CASE UserCreates
  <2>1. PICK p \in BOOLEAN, s \in Schedules :
          /\ obj' = [NoObject EXCEPT !.live = TRUE, !.generation = 1, !.paused = p,
                                     !.schedule = s]
          /\ requests' \in {0, 1} /\ everActive' = ~ p
    BY <1>15 DEF UserCreates
  <2>2. obj' \in Objects /\ obj'.generation = 1
    <3>1. 1 \in 0..MaxGeneration
      OBVIOUS
    <3> QED
      BY <2>1, <3>1, NoObjectType DEF Objects
  <2>3. UNCHANGED <<jobs, cronJob, configMap, missing, clock, operator, bounds, runs,
                    lastTransition>>
    BY <1>15 DEF UserCreates
  <2>4. everActive' \in BOOLEAN
    BY <2>1
  <2> QED
    BY <1>0, <2>1, <2>2, <2>3, <2>4
    DEF TypeOK, RequestsBounded, operator, bounds, MaxRuns
<1>16. CASE UserTogglesPause
  <2>1. obj' \in Objects /\ obj'.generation = obj.generation
    BY <1>0, <1>16 DEF UserTogglesPause, TypeOK, Objects
  <2>2. everActive' \in BOOLEAN
    BY <1>16 DEF UserTogglesPause
  <2> QED
    BY <1>0, <1>16, <2>1, <2>2 DEF UserTogglesPause, TypeOK, RequestsBounded, operator, MaxRuns
<1>17. CASE UserTriggers
  <2>1. obj' \in Objects /\ obj'.generation = obj.generation
        /\ obj.generation \in 0..MaxGeneration
    BY <1>0, <1>17 DEF UserTriggers, TypeOK, Objects
  <2>2. /\ triggers < MaxTriggers /\ triggers' = triggers + 1 /\ requests' = requests + 1
        /\ UNCHANGED <<jobs, cronJob, configMap, missing, clock, operator, toggles,
                       faults, runs, everActive, lastTransition>>
    BY <1>17 DEF UserTriggers
  <2>3. /\ triggers' \in 0..MaxTriggers
        /\ requests' \in 0..(MaxTriggers + MaxGeneration)
        /\ requests' <= triggers' + obj'.generation
    BY <1>0, <2>1, <2>2 DEF TypeOK, RequestsBounded
  <2> QED
    BY <1>0, <2>1, <2>2, <2>3 DEF TypeOK, RequestsBounded, operator, MaxRuns
<1>18. CASE UserEditsSchedule
  <2>1. /\ obj' \in Objects /\ obj'.generation = obj.generation + 1
        /\ obj'.generation \in 0..MaxGeneration
    <3>1. PICK t \in Schedules : obj' = [obj EXCEPT !.schedule = t, !.generation = @ + 1]
      BY <1>18 DEF UserEditsSchedule
    <3>2. obj.generation \in 0..MaxGeneration /\ obj.generation < MaxGeneration
      BY <1>0, <1>18 DEF UserEditsSchedule, TypeOK, Objects
    <3>3. obj.generation + 1 \in 0..MaxGeneration
      BY <3>2
    <3>4. obj'.generation = obj.generation + 1 /\ obj' \in Objects
      BY <1>0, <3>1, <3>3 DEF TypeOK, Objects
    <3> QED
      BY <3>3, <3>4
  <2>2. /\ requests' \in {requests, requests + 1}
        /\ UNCHANGED <<jobs, cronJob, configMap, missing, clock, operator, bounds, runs,
                       everActive, lastTransition>>
    BY <1>18 DEF UserEditsSchedule
  <2>3. /\ obj.generation \in 0..MaxGeneration /\ triggers' = triggers
        /\ triggers \in 0..MaxTriggers /\ requests \in 0..(MaxTriggers + MaxGeneration)
        /\ requests <= triggers + obj.generation
    BY <1>0, <2>2 DEF TypeOK, Objects, RequestsBounded, bounds
  <2>4. /\ requests' \in 0..(MaxTriggers + MaxGeneration)
        /\ requests' <= triggers' + obj'.generation
    BY <2>1, <2>2, <2>3
  <2> QED
    BY <1>0, <2>1, <2>2, <2>4 DEF TypeOK, RequestsBounded, operator, bounds, MaxRuns
<1>19. CASE UserDeletes
  <2>1. obj' \in Objects /\ obj'.generation = obj.generation
    BY <1>0, <1>19 DEF UserDeletes, TypeOK, Objects
  <2> QED
    BY <1>0, <1>19, <2>1
    DEF UserDeletes, TypeOK, RequestsBounded, operator, history, bounds, MaxRuns
<1>20. CASE UNCHANGED vars
  BY <1>0, <1>20 DEF TypeOK, RequestsBounded, vars, MaxRuns
<1> QED
  BY <1>2, <1>3, <1>4, <1>5, <1>6, <1>7, <1>8, <1>9, <1>10, <1>11, <1>12, <1>13, <1>14,
     <1>15, <1>16, <1>17, <1>18, <1>19, <1>20 DEF Next, Reconcile, Environment, StatusCall

\* An outcome is only recorded after check_job_completion has found its Job.
LEMMA FoundStep == TypeInv /\ [Next]_vars => FoundIsJob'
<1> SUFFICES ASSUME TypeInv, [Next]_vars PROVE FoundIsJob'
  OBVIOUS
<1> DEFINE Recording == {"update_status_completed", "update_status_failed"}
<1>1. CASE UNCHANGED <<pc, found>>
  BY <1>1 DEF TypeInv, FoundIsJob
<1>2. CASE pc' \notin Recording
  BY <1>2 DEF FoundIsJob
<1>3. CASE CheckJobCompletion
  <2>1. pc' = "idle" \/ (Terminal # {} /\ found' = Latest)
    BY <1>3 DEF CheckJobCompletion, Goto
  <2>2. Terminal # {} => Latest # 0
    BY BackupConstants, LatestIsNewest DEF Terminal, JobNames, Names
  <2> QED
    BY <2>1, <2>2 DEF FoundIsJob
<1>4. CASE Reconcile /\ ~ CheckJobCompletion
  <2>1. CASE StartReconcile
    BY <1>2, <2>1 DEF StartReconcile, FirstCall
  <2>2. CASE \/ AddFinalizer \/ ResolveCluster \/ BuildConfig \/ CreateJob
             \/ RemoveTriggerAnnotation \/ CleanupList \/ CleanupCronJob \/ CleanupConfigMap
             \/ RemoveFinalizer
    BY <1>2, <2>2
    DEF AddFinalizer, ResolveCluster, BuildConfig, CreateJob, RemoveTriggerAnnotation,
        CleanupList, CleanupCronJob, CleanupConfigMap, RemoveFinalizer, NotFound, Goto
  <2>3. CASE CreateOrUpdateConfigMap \/ ApplyCronJob \/ ListJobs
    BY <1>2, <2>3
    DEF CreateOrUpdateConfigMap, ApplyCronJob, ListJobs, AfterSchedule, AfterCreate, Goto
  <2>4. CASE \/ UpdateStatusScheduled \/ UpdateStatusRunning \/ UpdateStatusCompleted
             \/ UpdateStatusFailed \/ UpdateStatusError
             \/ UpdateStatusReconciliationPaused
    BY <1>2, <2>4
    DEF UpdateStatusScheduled, UpdateStatusRunning, UpdateStatusCompleted,
        UpdateStatusFailed, UpdateStatusError, UpdateStatusReconciliationPaused,
        NotFound, PatchStatus, AfterSchedule, AfterCreate, Goto
  <2>5. CASE CleanupJobs
    BY <1>1, <1>2, <2>5 DEF CleanupJobs, Goto
  <2> QED
    BY <1>4, <2>1, <2>2, <2>3, <2>4, <2>5 DEF Reconcile
<1>5. CASE Abort
  BY <1>2, <1>5 DEF Abort, Goto
<1>6. CASE SyncCache \/ Environment \/ UNCHANGED vars
  BY <1>1, <1>6
  DEF SyncCache, Environment, CronFires, JobRuns, JobDeleted, GarbageCollect, Tick,
      DependencyChanges, UserCreates, UserTogglesPause, UserTriggers, UserEditsSchedule,
      UserDeletes, operator, vars
<1> QED
  BY <1>3, <1>4, <1>5, <1>6 DEF Next

\* The initial state is well typed.
LEMMA TypeInit == Init => TypeInv
<1> SUFFICES ASSUME Init PROVE TypeInv
  OBVIOUS
<1> USE BackupConstants
<1>1. obj \in Objects /\ cache \in Objects /\ snap \in Objects /\ obj.generation = 0
  BY NoObjectType DEF Init, NoObject
<1>2. TypeOK
  <2>1. jobs \in [Names -> Phases \cup {Absent}]
    BY DEF Init
  <2>2. /\ cronJob \in {"absent", "active", "suspended"}
        /\ configMap \in BOOLEAN /\ missing \subseteq Dependencies
        /\ pc \in Calls /\ found \in Names \cup {0} /\ todo \subseteq Names
        /\ lastTransition \in BOOLEAN /\ everActive \in BOOLEAN
    BY DEF Init, Calls
  <2>3. /\ clock \in 1..MaxClock /\ toggles \in 0..MaxToggles
        /\ triggers \in 0..MaxTriggers /\ faults \in 0..MaxFaults
        /\ requests \in 0..(MaxTriggers + MaxGeneration) /\ runs \in 0..MaxRuns
    BY DEF Init, MaxRuns
  <2> QED
    BY <1>1, <2>1, <2>2, <2>3 DEF TypeOK
<1>3. RequestsBounded /\ FoundIsJob
  BY <1>1 DEF Init, RequestsBounded, FoundIsJob
<1> QED
  BY <1>2, <1>3 DEF TypeInv

\* Every reachable state of the backup controller is well typed: the runs asked for stay
\* within the triggers and the generations, and an outcome is recorded of a Job.
THEOREM BackupTypeCorrect == Spec => []TypeOK
<1>1. Init => TypeInv
  BY TypeInit
<1>2. TypeInv /\ [Next]_vars => TypeInv'
  BY TypeStep, FoundStep DEF TypeInv
<1>3. TypeInv => TypeOK
  BY DEF TypeInv
<1> QED
  BY <1>1, <1>2, <1>3, PTL DEF Spec

-----------------------------------------------------------------------------
(***************************************************************************)
(* The finalizer and the pause.                                            *)
(***************************************************************************)

\* What has to be true of the call the operator is at after a step.
GuardedAt ==
  /\ pc' \in CleanupCalls => obj.deleting
  /\ pc' \in WorkCalls /\ obj'.live => obj'.finalizer
  /\ pc' \in WorkCalls \cup {"add_finalizer"} => everActive

\* A step keeps GuardInv when it takes the finalizer from no live object, adds Jobs, a
\* CronJob and a ConfigMap only under the finalizer and after the object was seen active,
\* and takes the operator to a call it may be at.
LEMMA GuardFrame ==
  ASSUME GuardInv, TypeInv',
         obj.generation = 0 =>
           UNCHANGED <<obj, jobs, cronJob, configMap, pc, runs, triggers>>,
         obj.generation # 0 => obj'.generation # 0,
         obj.deleting => obj'.deleting, obj'.live => obj.live,
         obj'.live /\ obj.finalizer => obj'.finalizer,
         obj'.live /\ (~ obj'.paused \/ obj'.finalizer) => everActive',
         everActive => everActive',
         HasResources' => HasResources \/ (everActive /\ (obj'.live => obj'.finalizer)),
         cache' = cache \/ (cache' = obj /\ UNCHANGED obj),
         pc' = pc \/ GuardedAt
  PROVE  GuardInv'
<1>1. NothingBefore'
  <2>1. obj'.generation = 0 => obj.generation = 0
    OBVIOUS
  <2>2. obj.generation = 0 => HasResources' = HasResources
    BY DEF HasResources, JobNames
  <2>3. ~ NoObject.live
    BY DEF NoObject
  <2> QED
    BY <2>1, <2>2, <2>3 DEF GuardInv, NothingBefore
<1>2. HeldIsEarlier'
  <2>1. cache'.live => /\ cache'.deleting => obj'.deleting
                       /\ cache'.finalizer /\ obj'.live => obj'.finalizer
    BY DEF GuardInv, HeldIsEarlier
  <2>2. /\ pc' \in CleanupCalls => obj'.deleting
        /\ pc' \in WorkCalls /\ obj'.live => obj'.finalizer
    BY DEF GuardInv, HeldIsEarlier, GuardedAt
  <2> QED
    BY <2>1, <2>2 DEF HeldIsEarlier, WorkCalls
<1>3. OnlyForActive'
  <2>1. cache'.live /\ ~ cache'.paused => everActive'
    BY DEF GuardInv, OnlyForActive
  <2>2. pc' \in WorkCalls \cup {"add_finalizer"} => everActive'
    BY DEF GuardInv, OnlyForActive, GuardedAt
  <2>3. HasResources' => everActive'
    BY DEF GuardInv, OnlyForActive
  <2> QED
    BY <2>1, <2>2, <2>3 DEF OnlyForActive, WorkCalls
<1>4. FinalizerGuardsResources'
  <2>1. obj.live /\ HasResources => obj.finalizer
    BY DEF GuardInv, FinalizerGuardsResources, HasResources
  <2>2. obj'.live /\ HasResources' => obj'.finalizer
    BY <2>1
  <2> QED
    BY <2>2 DEF FinalizerGuardsResources, HasResources
<1> QED
  BY <1>1, <1>2, <1>3, <1>4 DEF GuardInv

\* The object has been created once the operator is at work, or once it is live.
LEMMA Created ==
  ASSUME GuardInv, pc # "idle" \/ obj.live \/ HasResources \/ cache.live
  PROVE  obj.generation # 0
  BY DEF GuardInv, NothingBefore, NoObject

\* A step of the reconciliation from a call to another of the same kind, or to its end,
\* keeps GuardInv if it leaves the object alone and adds resources from work only.
LEMMA GotoGuards ==
  ASSUME GuardInv, TypeInv', NEW call, Goto(call), pc # "idle",
         call \in CleanupCalls => pc \in CleanupCalls,
         call \in WorkCalls => pc \in WorkCalls,
         call # "add_finalizer",
         HasResources' => HasResources \/ pc \in WorkCalls,
         UNCHANGED <<obj, everActive, cache>>
  PROVE  GuardInv'
<1>1. pc' = call
  BY DEF Goto
<1>2. obj.generation # 0
  BY Created
<1>3. GuardedAt
  BY <1>1, CallSets DEF GuardedAt, GuardInv, HeldIsEarlier, OnlyForActive
<1>4. HasResources' => HasResources \/ (everActive /\ (obj'.live => obj'.finalizer))
  BY DEF GuardInv, HeldIsEarlier, OnlyForActive
<1>5. obj.live /\ (~ obj.paused \/ obj.finalizer) => everActive
  BY DEF GuardInv, OnlyForActive
<1> QED
  BY <1>2, <1>3, <1>4, <1>5, GuardFrame

\* A call that finds the object gone keeps GuardInv.
LEMMA NotFoundGuards ==
  ASSUME GuardInv, TypeInv', pc # "idle", NotFound
  PROVE  GuardInv'
<1>1. Goto("idle") /\ UNCHANGED <<obj, everActive, cache>>
  BY DEF NotFound, kube, history
<1>2. HasResources' = HasResources
  BY DEF NotFound, kube, HasResources, JobNames
<1> QED
  BY <1>1, <1>2, CallSets, GotoGuards

\* A status patch keeps GuardInv: it touches neither the metadata nor the resources.
LEMMA PatchGuards ==
  ASSUME GuardInv, TypeInv', NEW new, NEW call, PatchStatus(new, call), pc # "idle",
         new \in Objects,
         /\ new.live = obj.live /\ new.generation = obj.generation
         /\ new.deleting = obj.deleting /\ new.finalizer = obj.finalizer
         /\ new.paused = obj.paused,
         call = "idle" \/ (call \in WorkCalls /\ pc \in WorkCalls)
  PROVE  GuardInv'
<1>1. /\ pc' = call /\ obj' = [new EXCEPT !.observed = snap.generation] /\ obj.live
      /\ UNCHANGED <<jobs, cronJob, configMap, everActive, cache>>
  BY DEF PatchStatus, Goto, history
<1>2. /\ obj'.live = obj.live /\ obj'.generation = obj.generation
      /\ obj'.deleting = obj.deleting /\ obj'.finalizer = obj.finalizer
      /\ obj'.paused = obj.paused
  BY <1>1 DEF Objects
<1>3. obj.generation # 0
  BY <1>1, Created
<1>4. GuardedAt
  BY <1>1, <1>2, CallSets DEF GuardedAt, GuardInv, HeldIsEarlier, OnlyForActive
<1>5. HasResources' = HasResources
  BY <1>1 DEF HasResources, JobNames
<1>6. obj.live /\ (~ obj.paused \/ obj.finalizer) => everActive
  BY DEF GuardInv, OnlyForActive
<1> QED
  BY <1>1, <1>2, <1>3, <1>4, <1>5, <1>6, GuardFrame

\* A report keeps GuardInv.
LEMMA StatusGuards ==
  ASSUME GuardInv, TypeInv', StatusCall
  PROVE  GuardInv'
<1>0. TypeInv /\ pc # "idle"
  BY StatusIsPatch DEF GuardInv
<1>1. AfterStatus = "idle" \/ (AfterStatus \in WorkCalls /\ pc \in WorkCalls)
  BY CallSets DEF AfterStatus, AfterSchedule, AfterCreate
<1>2. CASE NotFound
  BY <1>0, <1>2, NotFoundGuards
<1>3. CASE /\ Goto(AfterStatus)
           /\ UNCHANGED <<kube, history, bounds, cache, found, todo, lastTransition>>
  <2>1. UNCHANGED <<obj, everActive, cache>> /\ HasResources' = HasResources
    BY <1>3 DEF kube, history, HasResources, JobNames
  <2> QED
    BY <1>0, <1>1, <1>3, <2>1, CallSets, GotoGuards
<1>4. CASE \E new : Reported(new) /\ PatchStatus(new, AfterStatus)
  <2>1. PICK new : Reported(new) /\ PatchStatus(new, AfterStatus)
    BY <1>4
  <2>2. /\ new \in Objects
        /\ new.live = obj.live /\ new.generation = obj.generation
        /\ new.deleting = obj.deleting /\ new.finalizer = obj.finalizer
        /\ new.paused = obj.paused
    BY <1>0, <2>1, ReportedKeeps DEF Reported
  <2> QED
    BY <1>0, <1>1, <2>1, <2>2, PatchGuards
<1> QED
  BY <1>0, <1>2, <1>3, <1>4, StatusIsPatch

\* GuardInv is inductive.
LEMMA GuardStep == GuardInv /\ [Next]_vars => GuardInv'
<1> SUFFICES ASSUME GuardInv, [Next]_vars PROVE GuardInv'
  OBVIOUS
<1> USE BackupConstants
<1>0. TypeInv' /\ TypeOK /\ obj \in Objects
  BY TypeStep, FoundStep DEF GuardInv, TypeInv, TypeOK
<1>a. obj.live /\ (~ obj.paused \/ obj.finalizer) => everActive
  BY DEF GuardInv, OnlyForActive
<1>1. CASE StartReconcile
  <2>1. /\ pc' = FirstCall(cache) /\ cache.live
        /\ UNCHANGED <<obj, jobs, cronJob, configMap, everActive, cache, runs, triggers>>
    BY <1>1 DEF StartReconcile, kube, history, bounds
  <2>2. /\ pc' \in CleanupCalls => cache.deleting
        /\ pc' \in WorkCalls => cache.finalizer /\ ~ cache.paused
        /\ pc' = "add_finalizer" => ~ cache.paused
    BY <2>1, CallSets DEF FirstCall, CleanupCalls
  <2>3. GuardedAt
    BY <2>1, <2>2 DEF GuardedAt, GuardInv, HeldIsEarlier, OnlyForActive
  <2>4. obj.generation # 0 /\ HasResources' = HasResources
    BY <2>1, Created DEF HasResources, JobNames
  <2> QED
    BY <1>0, <1>a, <2>1, <2>3, <2>4, GuardFrame
<1>2. CASE AddFinalizer
  <2>1. CASE NotFound
    BY <1>0, <1>2, <2>1, NotFoundGuards DEF AddFinalizer
  <2>2. CASE ~ NotFound
    <3>1. /\ pc = "add_finalizer" /\ pc' = "resolve_cluster" /\ obj.live
          /\ obj' = [obj EXCEPT !.finalizer = TRUE]
          /\ UNCHANGED <<jobs, cronJob, configMap, everActive, cache>>
      BY <1>2, <2>2 DEF AddFinalizer, Goto, history
    <3>2. /\ obj'.finalizer /\ obj'.live = obj.live /\ obj'.paused = obj.paused
          /\ obj'.deleting = obj.deleting /\ obj'.generation = obj.generation
      BY <1>0, <3>1 DEF Objects
    <3>3. everActive
      BY <3>1 DEF GuardInv, OnlyForActive
    <3>4. GuardedAt
      BY <3>1, <3>2, <3>3, CallSets DEF GuardedAt
    <3>5. obj.generation # 0 /\ HasResources' = HasResources
      BY <3>1, Created DEF HasResources, JobNames
    <3> QED
      BY <1>0, <3>1, <3>2, <3>3, <3>4, <3>5, GuardFrame
  <2> QED
    BY <2>1, <2>2
<1>3. CASE \/ ResolveCluster \/ BuildConfig \/ ListJobs \/ CheckJobCompletion
           \/ CreateOrUpdateConfigMap \/ ApplyCronJob \/ CreateJob
  <2>1. /\ pc \in WorkCalls /\ pc # "idle" /\ UNCHANGED <<obj, everActive, cache>>
    BY <1>3, CallSets
    DEF ResolveCluster, BuildConfig, ListJobs, CheckJobCompletion,
        CreateOrUpdateConfigMap, ApplyCronJob, CreateJob, kube, history
  <2>2. \E call \in WorkCalls \cup {"idle"} : Goto(call)
    BY <1>3, CallSets
    DEF ResolveCluster, BuildConfig, ListJobs, CheckJobCompletion, AfterSchedule,
        AfterCreate, CreateOrUpdateConfigMap, ApplyCronJob, CreateJob
  <2> QED
    BY <1>0, <2>1, <2>2, CallSets, GotoGuards
<1>4. CASE StatusCall
  BY <1>0, <1>4, StatusGuards
<1>5. CASE RemoveTriggerAnnotation
  <2>1. CASE NotFound
    BY <1>0, <1>5, <2>1, NotFoundGuards DEF RemoveTriggerAnnotation
  <2>2. CASE ~ NotFound
    <3>1. /\ pc = "remove_trigger" /\ pc' = "check_job_completion" /\ obj.live
          /\ obj' = [obj EXCEPT !.trigger = FALSE]
          /\ UNCHANGED <<jobs, cronJob, configMap, everActive, cache>>
      BY <1>5, <2>2 DEF RemoveTriggerAnnotation, Goto, history
    <3>2. /\ obj'.finalizer = obj.finalizer /\ obj'.live = obj.live
          /\ obj'.paused = obj.paused /\ obj'.deleting = obj.deleting
          /\ obj'.generation = obj.generation
      BY <1>0, <3>1 DEF Objects
    <3>3. GuardedAt
      BY <3>1, <3>2, CallSets DEF GuardedAt, GuardInv, HeldIsEarlier, OnlyForActive
    <3>4. obj.generation # 0 /\ HasResources' = HasResources
      BY <3>1, Created DEF HasResources, JobNames
    <3> QED
      BY <1>0, <1>a, <3>1, <3>2, <3>3, <3>4, GuardFrame
  <2> QED
    BY <2>1, <2>2
<1>6. CASE CleanupList \/ CleanupCronJob \/ CleanupConfigMap
  <2>1. /\ pc \in CleanupCalls /\ pc # "idle" /\ UNCHANGED <<obj, everActive, cache>>
        /\ \E call \in CleanupCalls : Goto(call)
    BY <1>6
    DEF CleanupList, CleanupCronJob, CleanupConfigMap, CleanupCalls, kube, history
  <2>2. HasResources' => HasResources
    BY <1>6
    DEF CleanupList, CleanupCronJob, CleanupConfigMap, kube, HasResources, JobNames
  <2> QED
    BY <1>0, <2>1, <2>2, CallSets, GotoGuards
<1>7. CASE CleanupJobs
  <2>1. /\ pc \in CleanupCalls /\ pc' \in CleanupCalls
        /\ UNCHANGED <<obj, everActive, cache, cronJob, configMap>>
    BY <1>7 DEF CleanupJobs, Goto, CleanupCalls, history
  <2>2. HasResources' => HasResources
    <3>1. JobNames' \subseteq JobNames
      BY <1>0, <1>7 DEF CleanupJobs, JobNames, TypeOK
    <3> QED
      BY <2>1, <3>1 DEF HasResources
  <2>3. GuardedAt /\ obj.generation # 0
    BY <2>1, CallSets, Created DEF GuardedAt, GuardInv, HeldIsEarlier
  <2> QED
    BY <1>0, <1>a, <2>1, <2>2, <2>3, GuardFrame
<1>8. CASE RemoveFinalizer
  <2>1. CASE NotFound
    BY <1>0, <1>8, <2>1, NotFoundGuards DEF RemoveFinalizer
  <2>2. CASE ~ NotFound
    <3>1. /\ pc = "remove_finalizer" /\ pc' = "idle" /\ obj.live
          /\ obj' = [obj EXCEPT !.finalizer = FALSE, !.live = ~ obj.deleting]
          /\ UNCHANGED <<jobs, cronJob, configMap, everActive, cache>>
      BY <1>8, <2>2 DEF RemoveFinalizer, Goto, history
    <3>2. obj.deleting
      BY <3>1 DEF GuardInv, HeldIsEarlier, CleanupCalls
    <3>3. ~ obj'.live /\ obj'.deleting /\ obj'.generation = obj.generation
      BY <1>0, <3>1, <3>2 DEF Objects
    <3>4. GuardedAt
      BY <3>1, CallSets DEF GuardedAt
    <3>5. obj.generation # 0 /\ HasResources' = HasResources
      BY <3>1, Created DEF HasResources, JobNames
    <3> QED
      BY <1>0, <3>1, <3>3, <3>4, <3>5, GuardFrame
  <2> QED
    BY <2>1, <2>2
<1>9. CASE Abort
  <2>1. /\ pc # "idle" /\ Goto("idle") /\ UNCHANGED <<obj, everActive, cache>>
    BY <1>9 DEF Abort, kube, history
  <2>2. HasResources' = HasResources
    BY <1>9 DEF Abort, kube, HasResources, JobNames
  <2> QED
    BY <1>0, <2>1, <2>2, CallSets, GotoGuards
<1>10. CASE SyncCache \/ Tick \/ DependencyChanges \/ UNCHANGED vars
  <2>1. /\ UNCHANGED <<obj, jobs, cronJob, configMap, pc, runs, triggers, everActive>>
        /\ cache' = cache \/ cache' = obj
    BY <1>10
    DEF SyncCache, Tick, DependencyChanges, vars, kube, operator, history, bounds
  <2>2. HasResources' = HasResources
    BY <2>1 DEF HasResources, JobNames
  <2> QED
    BY <1>0, <1>a, <2>1, <2>2, GuardFrame
<1>11. CASE CronFires \/ JobRuns \/ JobDeleted \/ GarbageCollect
  <2>1. UNCHANGED <<obj, pc, runs, triggers, everActive, cache>>
    BY <1>11 DEF CronFires, JobRuns, JobDeleted, GarbageCollect, operator, history, bounds
  <2>2. HasResources
    BY <1>11 DEF CronFires, JobRuns, JobDeleted, GarbageCollect, HasResources
  <2>3. obj.generation # 0
    BY <2>2, Created
  <2> QED
    BY <1>0, <1>a, <2>1, <2>2, <2>3, GuardFrame
<1>12. CASE UserCreates
  <2>1. /\ obj = NoObject /\ pc' = pc /\ cache' = cache
        /\ UNCHANGED <<jobs, cronJob, configMap>>
        /\ \E p \in BOOLEAN, s \in Schedules :
             /\ obj' = [NoObject EXCEPT !.live = TRUE, !.generation = 1, !.paused = p,
                                        !.schedule = s]
             /\ everActive' = ~ p
    BY <1>12 DEF UserCreates, operator
  <2>2. /\ obj'.generation = 1 /\ ~ obj'.finalizer /\ (~ obj'.paused => everActive')
    BY <2>1 DEF NoObject
  <2>3. pc = "idle" /\ ~ cache.live /\ ~ HasResources
    BY <2>1 DEF GuardInv, NothingBefore, NoObject
  <2>4. ~ HasResources'
    BY <2>1, <2>3 DEF HasResources, JobNames
  <2>5. NothingBefore'
    BY <2>2 DEF NothingBefore
  <2>6. HeldIsEarlier' /\ OnlyForActive'
    BY <2>1, <2>2, <2>3, <2>4, CallSets
    DEF HeldIsEarlier, OnlyForActive, WorkCalls, CleanupCalls
  <2>7. FinalizerGuardsResources'
    BY <2>4 DEF FinalizerGuardsResources, HasResources
  <2> QED
    BY <1>0, <2>5, <2>6, <2>7 DEF GuardInv
<1>13. CASE UserTogglesPause \/ UserTriggers \/ UserEditsSchedule \/ UserDeletes
  <2>1. obj.live /\ UNCHANGED <<jobs, cronJob, configMap, pc, cache>>
    BY <1>13
    DEF UserTogglesPause, UserTriggers, UserEditsSchedule, UserDeletes, operator
  <2>2. obj.generation # 0 /\ obj.generation \in Nat /\ HasResources' = HasResources
    BY <1>0, <2>1, Created DEF HasResources, JobNames, Objects
  <2>3. CASE UserTogglesPause
    <3>1. /\ obj'.finalizer = obj.finalizer /\ obj'.live = obj.live
          /\ obj'.deleting = obj.deleting /\ obj'.generation = obj.generation
          /\ obj'.paused = ~ obj.paused
      BY <1>0, <2>3 DEF UserTogglesPause, Objects
    <3>2. everActive' = (everActive \/ obj.paused)
      BY <2>3 DEF UserTogglesPause
    <3> QED
      BY <1>0, <1>a, <2>1, <2>2, <3>1, <3>2, GuardFrame
  <2>4. CASE UserTriggers \/ UserEditsSchedule
    <3>1. /\ obj'.finalizer = obj.finalizer /\ obj'.live = obj.live
          /\ obj'.deleting = obj.deleting /\ obj'.paused = obj.paused
          /\ obj'.generation \in {obj.generation, obj.generation + 1}
      BY <1>0, <2>4 DEF UserTriggers, UserEditsSchedule, Objects
    <3>2. everActive' = everActive
      BY <2>4 DEF UserTriggers, UserEditsSchedule, history
    <3> QED
      BY <1>0, <1>a, <2>1, <2>2, <3>1, <3>2, GuardFrame
  <2>5. CASE UserDeletes
    <3>1. /\ obj'.finalizer = obj.finalizer /\ (obj'.live => obj.live)
          /\ (obj.deleting => obj'.deleting) /\ obj'.paused = obj.paused
          /\ obj'.generation = obj.generation
      BY <1>0, <2>5 DEF UserDeletes, Objects
    <3>2. everActive' = everActive
      BY <2>5 DEF UserDeletes, history
    <3> QED
      BY <1>0, <1>a, <2>1, <2>2, <3>1, <3>2, GuardFrame
  <2> QED
    BY <1>13, <2>3, <2>4, <2>5
<1> QED
  BY <1>1, <1>2, <1>3, <1>4, <1>5, <1>6, <1>7, <1>8, <1>9, <1>10, <1>11, <1>12, <1>13
  DEF Next, Reconcile, Environment, StatusCall

\* Initially there is no object and nothing was created.
LEMMA GuardInit == Init => GuardInv
<1> SUFFICES ASSUME Init PROVE GuardInv
  OBVIOUS
<1>1. /\ obj = NoObject /\ ~ cache.live /\ ~ obj.live /\ pc = "idle" /\ runs = 0
      /\ triggers = 0
  BY DEF Init, NoObject
<1>2. ~ HasResources
  BY DEF Init, HasResources, JobNames
<1>3. NothingBefore /\ HeldIsEarlier /\ OnlyForActive /\ FinalizerGuardsResources
  BY <1>1, <1>2, CallSets
  DEF NothingBefore, HeldIsEarlier, OnlyForActive, FinalizerGuardsResources
<1> QED
  BY <1>3, TypeInit DEF GuardInv

\* Whatever the operator created for a live KafkaBackup - Jobs, CronJob, ConfigMap - is
\* under the finalizer, however far the cache lags, whichever calls fail and whoever
\* deletes Jobs: a deletion goes through handle_cleanup.
THEOREM BackupFinalizerGuards == Spec => []FinalizerGuardsResources
<1>1. Init => GuardInv
  BY GuardInit
<1>2. GuardInv /\ [Next]_vars => GuardInv'
  BY GuardStep
<1>3. GuardInv => FinalizerGuardsResources
  BY DEF GuardInv
<1> QED
  BY <1>1, <1>2, <1>3, PTL DEF Spec

\* A KafkaBackup created paused and never resumed gains no finalizer and no resources,
\* whatever is triggered, edited or missed meanwhile.
THEOREM BackupPauseIsRespected == Spec => []PausedFromBirthIsInert
<1>1. Init => GuardInv
  BY GuardInit
<1>2. GuardInv /\ [Next]_vars => GuardInv'
  BY GuardStep
<1>3. GuardInv => PausedFromBirthIsInert
  BY DEF GuardInv, OnlyForActive, HasResources, PausedFromBirthIsInert
<1> QED
  BY <1>1, <1>2, <1>3, PTL DEF Spec
=============================================================================
