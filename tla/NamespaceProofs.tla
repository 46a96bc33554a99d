--------------------------- MODULE NamespaceProofs ---------------------------
(***************************************************************************)
(* Backups and a restore that share a namespace and a storage, for any     *)
(* number of resources, runs and edits: a pod reads the configuration of   *)
(* its own resource (ConfigInv), a resource knows and prunes what belongs  *)
(* to it by name (OwnInv), retention deletes only what has passed limits   *)
(* and what a restore was pointed at is available (AvailableInv).          *)
(***************************************************************************)
EXTENDS SharedNamespace, SetLemmas

\* The largest run of a resource that has finished is one of them.
LEMMA LatestIsTerminal ==
  ASSUME NEW b, Terminal(b) # {}
  PROVE  Max(Terminal(b)) \in Terminal(b) /\ Terminal(b) \subseteq Runs
<1>1. Terminal(b) \in SUBSET (1..MaxRuns) /\ MaxRuns \in Nat
  BY NamespaceConstants DEF Terminal, RunsOf, Runs
<1> QED
  BY <1>1, LargestName DEF Runs

\* The time is a number, not before the start of any Job.
LEMMA TimeOfLatest ==
  /\ Now \in Int /\ \A k \in Runs : jobs[k] # NoJob => k <= Now
  /\ Now = 1 \/ (Now \in Runs /\ jobs[Now] # NoJob)
<1> DEFINE S == {1} \cup {k \in Runs : jobs[k] # NoJob}
<1>1. S \in SUBSET (1..(MaxRuns + 1)) /\ MaxRuns + 1 \in Nat /\ S # {} /\ S \subseteq Int
  BY NamespaceConstants DEF Runs
<1>2. Now = Max(S)
  BY DEF Now
<1>3. Max(S) \in S /\ \A y \in S : y <= Max(S)
  <2> HIDE DEF S
  <2> QED
    BY <1>1, LargestName
<1>4. Max(S) \in Int
  <2> HIDE DEF S
  <2> QED
    BY <1>1, <1>3
<1> QED
  BY <1>2, <1>3, <1>4

\* What the policy selects is part of what it is given.
LEMMA SelectedIsPart ==
  ASSUME NEW h, NEW start, NEW now
  PROVE  evaluate_retention(h, start, now) \subseteq h
  BY DEF evaluate_retention, Excess, Expired

\* The values before anything is there are of their types, and told apart from others.
LEMMA Nothing ==
  /\ NoJob \in Jobs /\ NoConfig.kind = "none" /\ NoConfig.file = "none"
  /\ NoJob.phase = Absent /\ NoJob.read = NoConfig
  /\ \A c \in Configs : c.kind \in {"backup", "restore"} /\ c # NoConfig
  /\ 0 \in 0..MaxGeneration /\ 0 \in 0..MaxRuns /\ Absent \notin Phases
  /\ Generations \subseteq 0..MaxGeneration /\ Runs \subseteq 0..MaxRuns /\ 1 \in Generations
  /\ \A b \in Backups : b \in Names
<1>1. 0 \in 0..MaxGeneration
  BY NamespaceConstants
<1>2. NoJob \in Jobs
  BY <1>1 DEF NoJob, Jobs
<1> QED
  BY <1>1, <1>2, NamespaceConstants
  DEF NoJob, NoConfig, Configs, Absent, Phases, Generations, Runs, Names

\* The end of a pass keeps the types.
LEMMA ReturnType ==
  ASSUME TypeInv, NEW b \in Backups, Return(b)
  PROVE  /\ pc' = [pc EXCEPT ![b] = "idle"] /\ pc'[b] = "idle"
         /\ pc' \in [Backups -> {"idle", "config_map", "cron_job", "completion", "retention",
                                 "prune"}]
         /\ snap' \in [Backups -> 0..MaxGeneration]
         /\ merged' \in [Backups -> SUBSET Entries]
         /\ toPrune' \in [Backups -> SUBSET Ids]
         /\ \A c \in Backups : pc'[c] # "idle" => snap'[c] # 0
  BY Nothing DEF TypeInv, TypeOK, Return

\* What discovery finds are entries.
LEMMA DiscoveredType ==
  ASSUME TypeInv, NEW b \in Backups
  PROVE  Discovered(b) \subseteq Entries
<1>1. \A i \in Ids : store[i] # 0 => store[i] \in Runs
  BY NamespaceConstants DEF TypeInv, TypeOK, Runs
<1> QED
  BY <1>1 DEF Discovered, Entries, Stored

\* The reconciler of a KafkaBackup keeps the types.
LEMMA BackupTypeStep ==
  ASSUME TypeInv, NEW b \in Backups, ReconcileBackup(b) \/ AbortBackup(b)
  PROVE  TypeInv'
<1> USE Nothing
<1>0. TypeOK /\ b \in Names
  BY DEF TypeInv
<1>1. CASE StartReconcile(b)
  <2>1. /\ pc' \in [Backups -> {"idle", "config_map", "cron_job", "completion",
                                "retention", "prune"}]
        /\ snap' \in [Backups -> 0..MaxGeneration]
        /\ \A c \in Backups : pc'[c] # "idle" => snap'[c] # 0
    BY <1>1, NamespaceConstants DEF StartReconcile, TypeInv, TypeOK, Generations
  <2> QED
    BY <1>1, <2>1 DEF StartReconcile, TypeInv, TypeOK, restoreSide
<1>2. CASE CreateOrUpdateConfigMap(b)
  <2>1. /\ pc' \in [Backups -> {"idle", "config_map", "cron_job", "completion",
                                "retention", "prune"}]
        /\ \A c \in Backups : pc'[c] # "idle" => pc[c] # "idle"
    BY <1>2 DEF CreateOrUpdateConfigMap, TypeInv, TypeOK
  <2>2. snap[b] \in Generations
    BY <1>2, NamespaceConstants DEF CreateOrUpdateConfigMap, TypeInv, TypeOK, Generations
  <2>3. configMap' \in [Names -> Configs \cup {NoConfig}]
    BY <1>0, <1>2, <2>2 DEF CreateOrUpdateConfigMap, TypeOK, Configs, ConfigFile
  <2> QED
    BY <1>2, <2>1, <2>3 DEF CreateOrUpdateConfigMap, TypeInv, TypeOK, restoreSide
<1>3. CASE ApplyCronJob(b)
  <2>1. /\ pc' \in [Backups -> {"idle", "config_map", "cron_job", "completion",
                                "retention", "prune"}]
        /\ \A c \in Backups : pc'[c] # "idle" => pc[c] # "idle"
        /\ cronJob' \in [Backups -> 0..MaxGeneration]
    BY <1>3 DEF ApplyCronJob, TypeInv, TypeOK
  <2> QED
    BY <1>3, <2>1 DEF ApplyCronJob, TypeInv, TypeOK, restoreSide
<1>4. CASE CheckJobCompletion(b)
  <2>1. lastBackup' \in [Backups -> Ids \cup {NoId}] /\ history' \in [Backups -> SUBSET Entries]
    <3> DEFINE k == Max(Terminal(b))
    <3>1. CASE Terminal(b) # {} /\ job_succeeded(jobs[k].phase) /\ lastBackup[b] # <<b, k>>
      <4>1. k \in Runs
        BY <3>1, LatestIsTerminal
      <4>2. <<b, k>> \in Ids /\ [id |-> <<b, k>>, start |-> k] \in Entries
        BY <4>1 DEF Ids, Entries
      <4>3. /\ lastBackup' = [lastBackup EXCEPT ![b] = <<b, k>>]
            /\ history' = [history EXCEPT ![b] = Upsert(@, [id |-> <<b, k>>, start |-> k])]
        BY <1>4, <3>1 DEF CheckJobCompletion
      <4> HIDE DEF k
      <4> QED
        BY <1>0, <4>2, <4>3 DEF TypeInv, TypeOK, Upsert
    <3>2. CASE ~ (Terminal(b) # {} /\ job_succeeded(jobs[k].phase) /\ lastBackup[b] # <<b, k>>)
      BY <1>4, <3>2 DEF CheckJobCompletion, TypeInv, TypeOK
    <3> QED
      BY <3>1, <3>2
  <2>2. /\ pc' \in [Backups -> {"idle", "config_map", "cron_job", "completion",
                                "retention", "prune"}]
        /\ snap' \in [Backups -> 0..MaxGeneration]
        /\ merged' \in [Backups -> SUBSET Entries] /\ toPrune' \in [Backups -> SUBSET Ids]
        /\ \A c \in Backups : pc'[c] # "idle" => snap'[c] # 0
    <3>1. CASE b \in Retained
      BY <1>4, <3>1 DEF CheckJobCompletion, TypeInv, TypeOK
    <3>2. CASE b \notin Retained
      BY <1>4, <3>2, ReturnType DEF CheckJobCompletion
    <3> QED
      BY <3>1, <3>2
  <2> QED
    BY <1>4, <2>1, <2>2 DEF CheckJobCompletion, TypeInv, TypeOK, restoreSide
<1>5. CASE ApplyRetentionPolicy(b)
  <2> DEFINE h == Merge(history[b], Discovered(b))
             ids == {e.id : e \in h}
             start == [i \in ids |-> (CHOOSE e \in h : e.id = i).start]
  <2>1. h \subseteq Entries
    BY <1>0, DiscoveredType DEF Merge, TypeInv
  <2>2. ids \subseteq Ids
    BY <2>1 DEF Entries
  <2>3. evaluate_retention(ids, start, Now) \subseteq ids
    BY SelectedIsPart
  <2>4. /\ merged' = [merged EXCEPT ![b] = h]
        /\ toPrune' = [toPrune EXCEPT
             ![b] = evaluate_retention(ids, start, Now) \ active_backup_ids(b)]
        /\ pc[b] # "idle" /\ pc' = [pc EXCEPT ![b] = "prune"]
    BY <1>5 DEF ApplyRetentionPolicy
  <2> HIDE DEF h, ids, start
  <2>5. /\ merged' \in [Backups -> SUBSET Entries] /\ toPrune' \in [Backups -> SUBSET Ids]
        /\ pc' \in [Backups -> {"idle", "config_map", "cron_job", "completion",
                                "retention", "prune"}]
        /\ \A c \in Backups : pc'[c] # "idle" => pc[c] # "idle"
    BY <1>0, <2>1, <2>2, <2>3, <2>4 DEF TypeInv, TypeOK
  <2> QED
    BY <1>5, <2>5 DEF ApplyRetentionPolicy, TypeInv, TypeOK, restoreSide
<1>6. CASE PruneBackup(b)
  <2>1. /\ merged' \in [Backups -> SUBSET Entries] /\ toPrune' \in [Backups -> SUBSET Ids]
        /\ store' \in [Ids -> 0..MaxRuns]
    BY <1>6 DEF PruneBackup, TypeInv, TypeOK
  <2> QED
    BY <1>6, <2>1 DEF PruneBackup, TypeInv, TypeOK, restoreSide
<1>7. CASE PatchBackupHistory(b)
  <2>1. history' \in [Backups -> SUBSET Entries] /\ Return(b)
    BY <1>7 DEF PatchBackupHistory, TypeInv, TypeOK
  <2> QED
    BY <1>7, <2>1, ReturnType DEF PatchBackupHistory, TypeInv, TypeOK, restoreSide
<1>8. CASE AbortBackup(b)
  BY <1>8, ReturnType DEF AbortBackup, TypeInv, TypeOK, restoreSide
<1> QED
  BY <1>1, <1>2, <1>3, <1>4, <1>5, <1>6, <1>7, <1>8 DEF ReconcileBackup

\* The reconciler of the KafkaRestore keeps the types.
LEMMA RestoreTypeStep ==
  ASSUME TypeInv, ReconcileRestore \/ AbortRestore
  PROVE  TypeInv'
<1> USE Nothing
<1>0. TypeOK /\ RestoreName \in Names
  BY DEF TypeInv, Names
<1>1. CASE GetBackup
  <2>1. resolve_backup_id(restore.ref) \in Ids \cup {NoId}
    BY <1>0, NamespaceConstants DEF resolve_backup_id, TypeOK
  <2>2. generation[Source] \in Generations /\ generation[Source] # 0
    BY <1>0, NamespaceConstants DEF TypeOK, Generations
  <2>3. /\ source' \in [id : Ids \cup {NoId}, generation : 0..MaxGeneration]
        /\ source'.generation # 0
    BY <1>1, <2>1, <2>2 DEF GetBackup
  <2> QED
    BY <1>1, <2>3 DEF GetBackup, TypeInv, TypeOK, backupSide
<1>2. CASE RestoreConfigMap
  <2>1. source.generation \in Generations
    BY <1>0, <1>2, NamespaceConstants DEF RestoreConfigMap, TypeInv, TypeOK, Generations
  <2>2. configMap' \in [Names -> Configs \cup {NoConfig}]
    BY <1>0, <1>2, <2>1 DEF RestoreConfigMap, TypeOK, Configs, ConfigFile
  <2> QED
    BY <1>2, <2>2 DEF RestoreConfigMap, TypeInv, TypeOK, backupSide
<1>3. CASE CreateRestoreJob
  <2>1. restoreJob' \in Jobs /\ restoreJob'.of = RestoreName
    BY <1>0, <1>3 DEF CreateRestoreJob, TypeOK, Jobs, NoJob, Phases
  <2> QED
    BY <1>3, <2>1 DEF CreateRestoreJob, TypeInv, TypeOK, backupSide
<1>4. CASE CleanupRestoreJobs
  BY <1>4 DEF CleanupRestoreJobs, TypeInv, TypeOK, backupSide
<1>5. CASE CleanupRestoreConfigMap
  <2>1. /\ configMap' \in [Names -> Configs \cup {NoConfig}]
        /\ restore' \in [phase : {"none", "live", "deleting", "gone"},
                         ref : Ids \cup {NoId, Latest}]
        /\ source' \in [id : Ids \cup {NoId}, generation : 0..MaxGeneration]
    BY <1>0, <1>5 DEF CleanupRestoreConfigMap, TypeOK, NoSource
  <2> QED
    BY <1>5, <2>1 DEF CleanupRestoreConfigMap, TypeInv, TypeOK, backupSide
<1>6. CASE AbortRestore
  BY <1>6 DEF AbortRestore, TypeInv, TypeOK, backupSide
<1> QED
  BY <1>1, <1>2, <1>3, <1>4, <1>5, <1>6 DEF ReconcileRestore

\* A Job whose pod has ended.
Ended(job, phase) == [job EXCEPT !.phase = phase, !.read = NoConfig]

\* It is a Job still, of the same resource.
LEMMA EndedType ==
  ASSUME NEW job \in Jobs, NEW phase \in {"pending", "succeeded", "failed"}
  PROVE  Ended(job, phase) \in Jobs /\ Ended(job, phase).of = job.of
  BY DEF Ended, Jobs, Phases

\* A pod that starts leaves a Job with its owner and generation, either running on the
\* configuration it mounts, which has the file of its kind, or failed.
LEMMA PodStartsType ==
  ASSUME TypeOK, NEW job \in Jobs, NEW kind \in {"backup", "restore"},
         job.phase # Absent, job.of \in Names, configMap[job.of] # NoConfig
  PROVE  LET new == PodStarts(job, kind)
         IN /\ new \in Jobs /\ new.of = job.of /\ new.generation = job.generation
            /\ new.phase \in {"active", "failed"}
            /\ \/ new.read = job.read
               \/ new.read = configMap[job.of] /\ configMap[job.of].file = ConfigFile(kind)
<1>1. CASE configMap[job.of].file = ConfigFile(kind)
  BY <1>1 DEF PodStarts, TypeOK, Jobs, Phases
<1>2. CASE configMap[job.of].file # ConfigFile(kind)
  BY <1>2 DEF PodStarts, TypeOK, Jobs, Phases
<1> QED
  BY <1>1, <1>2

\* The users, the CronJobs and the pods keep the types.
LEMMA OthersTypeStep ==
  ASSUME TypeInv,
         \/ \E b \in Backups : UserEditsSpec(b) \/ CronFires(b)
         \/ UserCreatesRestore \/ UserDeletesRestore
         \/ \E k \in Runs : BackupPodStarts(k) \/ BackupPodFails(k) \/ BackupEnds(k)
         \/ RestorePodStarts \/ RestoreEnds
  PROVE  TypeInv'
<1> USE Nothing
<1>0. TypeOK /\ RestoreName \in Names
  BY DEF TypeInv, Names
<1>1. ASSUME NEW b \in Backups, UserEditsSpec(b) PROVE TypeInv'
  <2>1. generation' \in [Backups -> Generations]
    BY <1>0, <1>1, NamespaceConstants DEF UserEditsSpec, TypeOK, Generations
  <2> QED
    BY <1>1, <2>1 DEF UserEditsSpec, TypeInv, TypeOK, restoreSide
<1>2. ASSUME NEW b \in Backups, CronFires(b) PROVE TypeInv'
  <2> DEFINE new == [NoJob EXCEPT !.of = b, !.phase = "pending", !.generation = cronJob[b]]
  <2>1. new \in Jobs /\ new.of = b
    BY <1>0 DEF TypeOK, Jobs, NoJob, Phases
  <2>2. \E k \in Runs : jobs' = [jobs EXCEPT ![k] = new]
    BY <1>2 DEF CronFires
  <2> HIDE DEF new
  <2>3. /\ jobs' \in [Runs -> Jobs]
        /\ \A k \in Runs : jobs'[k].phase # Absent => jobs'[k].of \in Backups
    BY <1>0, <2>1, <2>2 DEF TypeInv, TypeOK
  <2> QED
    BY <1>2, <2>3 DEF CronFires, TypeInv, TypeOK, backupSide, restoreSide
<1>3. CASE UserCreatesRestore \/ UserDeletesRestore
  <2>1. restore' \in [phase : {"none", "live", "deleting", "gone"},
                      ref : Ids \cup {NoId, Latest}]
    BY <1>0, <1>3 DEF UserCreatesRestore, UserDeletesRestore, TypeOK, Stored
  <2> QED
    BY <1>3, <2>1 DEF UserCreatesRestore, UserDeletesRestore, TypeInv, TypeOK, backupSide
<1>4. ASSUME NEW k \in Runs, BackupPodStarts(k) PROVE TypeInv'
  <2>1. jobs[k] \in Jobs /\ jobs[k].phase # Absent /\ jobs[k].of \in Backups
    BY <1>0, <1>4 DEF BackupPodStarts, TypeInv, TypeOK, Absent
  <2>2. PodStarts(jobs[k], "backup") \in Jobs /\ PodStarts(jobs[k], "backup").of = jobs[k].of
    BY <1>0, <1>4, <2>1, PodStartsType DEF BackupPodStarts
  <2>3. /\ jobs' \in [Runs -> Jobs]
        /\ \A l \in Runs : jobs'[l].phase # Absent => jobs'[l].of \in Backups
    BY <1>0, <1>4, <2>1, <2>2 DEF BackupPodStarts, TypeInv, TypeOK
  <2> QED
    BY <1>4, <2>3 DEF BackupPodStarts, TypeInv, TypeOK, backupSide, restoreSide
<1>5. ASSUME NEW k \in Runs, BackupPodFails(k) PROVE TypeInv'
  <2>1. /\ jobs' \in [Runs -> Jobs]
        /\ \A l \in Runs : jobs'[l].phase # Absent => jobs'[l].of \in Backups
    <3>1. jobs[k] \in Jobs /\ jobs[k].phase # Absent /\ jobs \in [Runs -> Jobs]
      BY <1>0, <1>5 DEF BackupPodFails, TypeOK, Absent
    <3>2. jobs' = [jobs EXCEPT ![k] = Ended(jobs[k], "pending")]
      BY <1>5 DEF BackupPodFails, Ended
    <3> QED
      BY <3>1, <3>2, EndedType DEF TypeInv
  <2> QED
    BY <1>5, <2>1 DEF BackupPodFails, TypeInv, TypeOK, backupSide, restoreSide
<1>6. ASSUME NEW k \in Runs, BackupEnds(k) PROVE TypeInv'
  <2>1. /\ jobs' \in [Runs -> Jobs]
        /\ \A l \in Runs : jobs'[l].phase # Absent => jobs'[l].of \in Backups
    <3>1. jobs[k] \in Jobs /\ jobs[k].phase # Absent /\ jobs \in [Runs -> Jobs]
      BY <1>0, <1>6 DEF BackupEnds, TypeOK, Absent
    <3>2. \E phase \in {"succeeded", "failed"} :
            jobs' = [jobs EXCEPT ![k] = Ended(jobs[k], phase)]
      BY <1>6 DEF BackupEnds, Ended
    <3> QED
      BY <3>1, <3>2, EndedType DEF TypeInv
  <2>2. backup_id(jobs[k].of, k) \in Ids
    BY <1>0, <1>6 DEF BackupEnds, backup_id, Ids, Absent, TypeInv
  <2>3. store' \in [Ids -> 0..MaxRuns]
    <3>1. store[backup_id(jobs[k].of, k)] \in 0..MaxRuns /\ k \in 0..MaxRuns
      BY <1>0, <2>2 DEF TypeOK
    <3> QED
      BY <1>0, <1>6, <2>2, <3>1 DEF BackupEnds, TypeOK
  <2> QED
    BY <1>6, <2>1, <2>3 DEF BackupEnds, TypeInv, TypeOK, backupSide, restoreSide
<1>7. CASE RestorePodStarts
  <2>1. restoreJob \in Jobs /\ restoreJob.phase # Absent /\ restoreJob.of = RestoreName
    BY <1>0, <1>7 DEF RestorePodStarts, TypeInv, TypeOK, Absent
  <2>2. restoreJob' \in Jobs /\ restoreJob'.of = RestoreName
    BY <1>0, <1>7, <2>1, PodStartsType DEF RestorePodStarts
  <2> QED
    BY <1>7, <2>2 DEF RestorePodStarts, TypeInv, TypeOK, backupSide
<1>8. CASE RestoreEnds
  <2>1. restoreJob' \in Jobs /\ restoreJob'.of = RestoreName
    <3>1. restoreJob \in Jobs /\ restoreJob.of = RestoreName
      BY <1>0, <1>8 DEF RestoreEnds, TypeInv, TypeOK, Absent
    <3>2. \E phase \in {"succeeded", "failed"} : restoreJob' = Ended(restoreJob, phase)
      BY <1>8 DEF RestoreEnds, Ended
    <3> QED
      BY <3>1, <3>2, EndedType
  <2> QED
    BY <1>8, <2>1 DEF RestoreEnds, TypeInv, TypeOK, backupSide
<1> QED
  BY <1>1, <1>2, <1>3, <1>4, <1>5, <1>6, <1>7, <1>8

\* TypeInv is inductive.
LEMMA TypeStep ==
  ASSUME TypeInv, [Next]_vars
  PROVE  TypeInv'
<1>1. CASE UNCHANGED vars
  BY <1>1 DEF vars, TypeInv, TypeOK
<1>2. CASE Next
  BY <1>2, BackupTypeStep, RestoreTypeStep, OthersTypeStep DEF Next
<1> QED
  BY <1>1, <1>2

\* The first state has the types.
LEMMA TypeInit == Init => TypeInv
<1> USE Nothing, NamespaceConstants
<1>1. Init => TypeOK
  BY DEF Init, TypeOK, NoSource
<1> QED
  BY <1>1 DEF Init, TypeInv

\* Type correctness of the resources that share the namespace.
THEOREM NamespaceTypeCorrect == Spec => []TypeOK
<1>1. TypeInv /\ [Next]_vars => TypeInv'
  BY TypeStep
<1>2. TypeInv => TypeOK
  BY DEF TypeInv
<1> QED
  BY <1>1, <1>2, TypeInit, PTL DEF Spec

-----------------------------------------------------------------------------
(***************************************************************************)
(* Configurations.                                                         *)
(***************************************************************************)

\* The steps of a KafkaBackup's reconciler that apply nothing.
LateStep(b) ==
  \/ CheckJobCompletion(b) \/ ApplyRetentionPolicy(b) \/ PruneBackup(b)
  \/ PatchBackupHistory(b) \/ AbortBackup(b)

\* The steps of the users and the CronJobs, and those of the pods.
PodStep ==
  \/ \E k \in Runs : BackupPodStarts(k) \/ BackupPodFails(k) \/ BackupEnds(k)
  \/ RestorePodStarts \/ RestoreEnds

\* A step that applies nothing takes its reconciliation on with the same generation, or
\* ends it.
LEMMA LateFrame ==
  ASSUME TypeInv, NEW b \in Backups, LateStep(b)
  PROVE  /\ UNCHANGED <<generation, cronJob, configMap, jobs, restoreSide>>
         /\ \A c \in Backups :
              \/ pc'[c] = pc[c] /\ snap'[c] = snap[c]
              \/ pc'[c] = "idle" /\ snap'[c] = 0
              \/ pc[c] # "idle" /\ pc'[c] \in {"retention", "prune"} /\ snap'[c] = snap[c]
<1>0. TypeOK
  BY DEF TypeInv
<1>1. UNCHANGED <<generation, cronJob, configMap, jobs, restoreSide>>
  BY DEF LateStep, CheckJobCompletion, ApplyRetentionPolicy, PruneBackup, PatchBackupHistory,
         AbortBackup
<1>2. /\ pc' = [pc EXCEPT ![b] = pc'[b]] /\ snap' = [snap EXCEPT ![b] = snap'[b]]
      /\ \/ pc'[b] = pc[b] /\ snap'[b] = snap[b]
         \/ pc'[b] = "idle" /\ snap'[b] = 0
         \/ pc[b] # "idle" /\ pc'[b] \in {"retention", "prune"} /\ snap'[b] = snap[b]
  <2>1. CASE Return(b)
    BY <1>0, <2>1 DEF Return, TypeOK
  <2>2. CASE ~ Return(b)
    BY <1>0, <2>2
    DEF LateStep, CheckJobCompletion, ApplyRetentionPolicy, PruneBackup, PatchBackupHistory,
        AbortBackup, TypeOK
  <2> QED
    BY <2>1, <2>2
<1> QED
  BY <1>0, <1>1, <1>2 DEF TypeOK

\* ConfigMap and CronJob of a KafkaBackup go up to the same generation, the ConfigMap
\* first.
LEMMA CurrentStep ==
  ASSUME TypeInv, ConfigIsCurrent, [Next]_vars
  PROVE  ConfigIsCurrent'
<1>0. /\ TypeOK
      /\ \A b \in Backups : /\ generation[b] \in Nat /\ cronJob[b] \in Nat /\ snap[b] \in Nat
                            /\ configMap[b].generation \in Nat /\ b \in Names
  BY Nothing, NamespaceConstants
  DEF TypeInv, TypeOK, Generations, Configs, NoConfig
<1>1. ASSUME NEW b \in Backups, StartReconcile(b) PROVE ConfigIsCurrent'
  BY <1>0, <1>1 DEF StartReconcile, ConfigIsCurrent, TypeOK
<1>2. ASSUME NEW b \in Backups, CreateOrUpdateConfigMap(b) PROVE ConfigIsCurrent'
  BY <1>0, <1>2 DEF CreateOrUpdateConfigMap, ConfigIsCurrent, TypeOK
<1>3. ASSUME NEW b \in Backups, ApplyCronJob(b) PROVE ConfigIsCurrent'
  BY <1>0, <1>3 DEF ApplyCronJob, ConfigIsCurrent, TypeOK
<1>4. ASSUME NEW b \in Backups, LateStep(b) PROVE ConfigIsCurrent'
  <2>1. UNCHANGED <<generation, cronJob, configMap>>
    BY <1>4, LateFrame
  <2> QED
    BY <1>0, <1>4, <2>1, LateFrame DEF ConfigIsCurrent
<1>5. ASSUME NEW b \in Backups, UserEditsSpec(b) PROVE ConfigIsCurrent'
  BY <1>0, <1>5 DEF UserEditsSpec, ConfigIsCurrent, TypeOK
<1>6. CASE RestoreConfigMap \/ CleanupRestoreConfigMap
  <2>1. UNCHANGED <<generation, cronJob, snap, pc>>
    BY <1>6 DEF RestoreConfigMap, CleanupRestoreConfigMap, backupSide
  <2>2. \A b \in Backups : configMap'[b] = configMap[b] \/ configMap'[b].kind # "backup"
    BY <1>0, <1>6 DEF RestoreConfigMap, CleanupRestoreConfigMap, NoConfig, TypeOK, Names
  <2> QED
    BY <2>1, <2>2 DEF ConfigIsCurrent
<1>7. CASE \/ \E b \in Backups : CronFires(b)
           \/ GetBackup \/ CreateRestoreJob \/ CleanupRestoreJobs \/ AbortRestore
           \/ UserCreatesRestore \/ UserDeletesRestore \/ PodStep \/ UNCHANGED vars
  <2>1. UNCHANGED <<generation, cronJob, snap, pc, configMap>>
    BY <1>7
    DEF CronFires, GetBackup, CreateRestoreJob, CleanupRestoreJobs, AbortRestore,
        UserCreatesRestore, UserDeletesRestore, PodStep, BackupPodStarts, BackupPodFails,
        BackupEnds, RestorePodStarts, RestoreEnds, vars, backupSide
  <2> QED
    BY <2>1 DEF ConfigIsCurrent
<1> QED
  BY <1>1, <1>2, <1>3, <1>4, <1>5, <1>6, <1>7
  DEF Next, ReconcileBackup, ReconcileRestore, LateStep, PodStep

\* The file in a ConfigMap is that of the kind that wrote it.
LEMMA FileStep ==
  ASSUME TypeInv, FileFitsKind, [Next]_vars
  PROVE  FileFitsKind'
<1>0. TypeOK /\ \A b \in Backups : b \in Names
  BY Nothing DEF TypeInv
<1>1. ASSUME NEW b \in Backups, CreateOrUpdateConfigMap(b) PROVE FileFitsKind'
  BY <1>0, <1>1 DEF CreateOrUpdateConfigMap, FileFitsKind, TypeOK
<1>2. CASE RestoreConfigMap \/ CleanupRestoreConfigMap
  BY <1>0, <1>2
  DEF RestoreConfigMap, CleanupRestoreConfigMap, FileFitsKind, NoConfig, TypeOK
<1>3. CASE ~ ((\E b \in Backups : CreateOrUpdateConfigMap(b))
               \/ RestoreConfigMap \/ CleanupRestoreConfigMap)
  <2>1. UNCHANGED configMap
    BY <1>3
    DEF Next, ReconcileBackup, StartReconcile, ApplyCronJob, CheckJobCompletion,
        ApplyRetentionPolicy, PruneBackup, PatchBackupHistory, AbortBackup, UserEditsSpec,
        CronFires, ReconcileRestore, GetBackup, CreateRestoreJob, CleanupRestoreJobs,
        AbortRestore, UserCreatesRestore, UserDeletesRestore, BackupPodStarts,
        BackupPodFails, BackupEnds, RestorePodStarts, RestoreEnds, vars
  <2> QED
    BY <2>1 DEF FileFitsKind
<1> QED
  BY <1>1, <1>2, <1>3

\* A file that fits a pod of a kind was written by that kind.
LEMMA FileTellsKind ==
  ASSUME TypeOK, FileFitsKind, NEW n \in Names, configMap[n] # NoConfig,
         NEW kind \in {"backup", "restore"}, configMap[n].file = ConfigFile(kind)
  PROVE  configMap[n].kind = kind
<1>1. configMap[n].kind \in {"backup", "restore"}
  BY Nothing DEF TypeOK
<1>2. configMap[n].file = ConfigFile(configMap[n].kind)
  BY <1>1 DEF FileFitsKind
<1> QED
  BY <1>1, <1>2 DEF ConfigFile

\* A backup Job's generation and the configuration its pod has read.
BackupPodReadsOwn(job) ==
  job.read # NoConfig => job.read.kind = "backup" /\ job.read.generation >= job.generation

\* The Jobs of the CronJobs stay behind them, and their pods read what explains them.
LEMMA JobsStep ==
  ASSUME TypeInv, ConfigIsCurrent, FileFitsKind, JobFollowsCronJob,
         \A k \in Runs : BackupPodReadsOwn(jobs[k]), [Next]_vars
  PROVE  JobFollowsCronJob' /\ \A k \in Runs : BackupPodReadsOwn(jobs'[k])
<1>0. /\ TypeOK
      /\ \A k \in Runs : jobs[k] \in Jobs /\ jobs[k].generation \in Nat
      /\ \A b \in Backups : cronJob[b] \in Nat /\ snap[b] \in Nat /\ b \in Names
  BY Nothing, NamespaceConstants DEF TypeInv, TypeOK, Jobs
<1>1. ASSUME NEW b \in Backups, ApplyCronJob(b)
      PROVE  JobFollowsCronJob' /\ \A k \in Runs : BackupPodReadsOwn(jobs'[k])
  <2>1. \A c \in Backups : cronJob[c] <= cronJob'[c] /\ cronJob'[c] \in Nat
    BY <1>0, <1>1 DEF ApplyCronJob, ConfigIsCurrent, TypeOK
  <2>2. UNCHANGED jobs
    BY <1>1 DEF ApplyCronJob
  <2>3. \A k \in Runs : jobs[k].phase # Absent => jobs[k].generation <= cronJob'[jobs[k].of]
    BY <1>0, <2>1 DEF JobFollowsCronJob, TypeInv
  <2> QED
    BY <2>2, <2>3 DEF JobFollowsCronJob
<1>2. ASSUME NEW k \in Runs, NEW job \in Jobs, jobs' = [jobs EXCEPT ![k] = job],
             UNCHANGED cronJob, BackupPodReadsOwn(job),
             job.phase # Absent => job.generation <= cronJob[job.of]
      PROVE  JobFollowsCronJob' /\ \A l \in Runs : BackupPodReadsOwn(jobs'[l])
  BY <1>0, <1>2 DEF JobFollowsCronJob, TypeOK
<1>3. ASSUME NEW b \in Backups, CronFires(b)
      PROVE  JobFollowsCronJob' /\ \A k \in Runs : BackupPodReadsOwn(jobs'[k])
  <2> DEFINE new == [NoJob EXCEPT !.of = b, !.phase = "pending", !.generation = cronJob[b]]
  <2>1. new \in Jobs /\ new.of = b /\ new.generation = cronJob[b] /\ new.read = NoConfig
    BY <1>0, Nothing DEF TypeOK, Jobs, NoJob, Phases
  <2>2. UNCHANGED cronJob /\ \E k \in Runs : jobs' = [jobs EXCEPT ![k] = new]
    BY <1>3 DEF CronFires, backupSide
  <2> HIDE DEF new
  <2>3. BackupPodReadsOwn(new) /\ new.generation <= cronJob[new.of]
    BY <1>0, <2>1 DEF BackupPodReadsOwn
  <2> QED
    BY <1>2, <2>1, <2>2, <2>3
<1>4. ASSUME NEW k \in Runs, BackupPodStarts(k)
      PROVE  JobFollowsCronJob' /\ \A l \in Runs : BackupPodReadsOwn(jobs'[l])
  <2> DEFINE new == PodStarts(jobs[k], "backup")
  <2>0. /\ jobs[k].phase # Absent /\ jobs[k].of \in Backups /\ jobs[k].of \in Names
        /\ configMap[jobs[k].of] # NoConfig
    BY <1>0, <1>4 DEF BackupPodStarts, TypeInv, Absent
  <2>1. /\ new \in Jobs /\ new.of = jobs[k].of /\ new.generation = jobs[k].generation
        /\ \/ new.read = jobs[k].read
           \/ /\ new.read = configMap[jobs[k].of]
              /\ configMap[jobs[k].of].file = ConfigFile("backup")
    BY <1>0, <2>0, PodStartsType
  <2>2. jobs' = [jobs EXCEPT ![k] = new] /\ UNCHANGED cronJob
    BY <1>4 DEF BackupPodStarts, backupSide
  <2> HIDE DEF new
  <2>3. jobs[k].generation <= cronJob[jobs[k].of]
    BY <2>0 DEF JobFollowsCronJob
  <2>4. BackupPodReadsOwn(new)
    <3>1. CASE new.read = jobs[k].read
      BY <2>1, <3>1 DEF BackupPodReadsOwn
    <3>2. CASE new.read # jobs[k].read
      <4>1. configMap[jobs[k].of].kind = "backup" /\ new.read = configMap[jobs[k].of]
        BY <1>0, <2>0, <2>1, <3>2, FileTellsKind
      <4>2. /\ cronJob[jobs[k].of] <= configMap[jobs[k].of].generation
            /\ configMap[jobs[k].of].generation \in Nat
        BY <1>0, <2>0, <4>1, NamespaceConstants
        DEF ConfigIsCurrent, TypeOK, Configs, NoConfig, Generations
      <4> QED
        BY <1>0, <2>0, <2>1, <2>3, <4>1, <4>2 DEF BackupPodReadsOwn
    <3> QED
      BY <3>1, <3>2
  <2> QED
    BY <1>2, <2>1, <2>2, <2>3, <2>4
<1>5. ASSUME NEW k \in Runs, BackupPodFails(k) \/ BackupEnds(k)
      PROVE  JobFollowsCronJob' /\ \A l \in Runs : BackupPodReadsOwn(jobs'[l])
  <2>1. PICK phase \in Phases : jobs' = [jobs EXCEPT ![k].phase = phase, ![k].read = NoConfig]
    BY <1>5 DEF BackupPodFails, BackupEnds, Phases
  <2> DEFINE new == [jobs[k] EXCEPT !.phase = phase, !.read = NoConfig]
  <2>2. /\ new \in Jobs /\ new.of = jobs[k].of /\ new.generation = jobs[k].generation
        /\ new.read = NoConfig
    BY <1>0 DEF Jobs
  <2>3. jobs' = [jobs EXCEPT ![k] = new] /\ UNCHANGED cronJob
    BY <1>0, <1>5, <2>1 DEF BackupPodFails, BackupEnds, backupSide, TypeOK
  <2>4. jobs[k].phase # Absent
    BY <1>5 DEF BackupPodFails, BackupEnds, Absent
  <2> HIDE DEF new
  <2> QED
    BY <1>2, <2>2, <2>3, <2>4 DEF BackupPodReadsOwn, JobFollowsCronJob
<1>6. CASE UNCHANGED <<jobs, cronJob>>
  BY <1>6 DEF JobFollowsCronJob
<1>7. CASE ~ \/ \E b \in Backups : ApplyCronJob(b) \/ CronFires(b)
             \/ \E k \in Runs : BackupPodStarts(k) \/ BackupPodFails(k) \/ BackupEnds(k)
  <2>1. UNCHANGED <<jobs, cronJob>>
    BY <1>7
    DEF Next, ReconcileBackup, StartReconcile, CreateOrUpdateConfigMap, CheckJobCompletion,
        ApplyRetentionPolicy, PruneBackup, PatchBackupHistory, AbortBackup, UserEditsSpec,
        ReconcileRestore, GetBackup, RestoreConfigMap, CreateRestoreJob, CleanupRestoreJobs,
        CleanupRestoreConfigMap, AbortRestore, UserCreatesRestore, UserDeletesRestore,
        RestorePodStarts, RestoreEnds, vars, backupSide
  <2> QED
    BY <1>6, <2>1
<1> QED
  BY <1>1, <1>3, <1>4, <1>5, <1>7

\* The configuration the restore's pod has read, and the Job it is of.
RestorePodReadsOwn ==
  restoreJob.read # NoConfig =>
    /\ restoreJob.read.kind = "restore"
    /\ restoreJob.read.generation = restoreJob.generation
    /\ restoreJob.read.id = source.id

\* A ConfigMap of the restore that is current when its Job is created or there.
LEMMA RestoreStep ==
  ASSUME TypeInv, FileFitsKind, RestoreIsConsistent, RestorePodReadsOwn, [Next]_vars
  PROVE  RestoreIsConsistent' /\ RestorePodReadsOwn'
<1>0. TypeOK /\ RestoreName \in Names /\ restoreJob \in Jobs
  BY DEF TypeInv, TypeOK, Names
<1>1. CASE GetBackup
  <2>1. restoreJob' = NoJob /\ restorePc' = "config_map"
    BY <1>1 DEF GetBackup, RestoreIsConsistent
  <2> QED
    BY <2>1, Nothing DEF RestoreIsConsistent, RestorePodReadsOwn
<1>2. CASE RestoreConfigMap
  <2>1. /\ restoreJob' = NoJob /\ restorePc' = "create_job" /\ source' = source
        /\ configMap'[RestoreName].generation = source.generation
        /\ configMap'[RestoreName].id = source.id
    BY <1>0, <1>2 DEF RestoreConfigMap, RestoreIsConsistent, TypeOK
  <2> QED
    BY <2>1, Nothing DEF RestoreIsConsistent, RestorePodReadsOwn
<1>3. CASE CreateRestoreJob
  <2>1. /\ restoreJob'.phase = "pending" /\ restoreJob'.generation = source.generation
        /\ restoreJob'.read = NoConfig /\ restorePc' = "idle"
        /\ restorePc = "create_job" /\ UNCHANGED <<source, configMap>>
    BY <1>3 DEF CreateRestoreJob, NoJob
  <2> QED
    BY <2>1 DEF RestoreIsConsistent, RestorePodReadsOwn, Absent
<1>4. CASE CleanupRestoreJobs
  BY <1>4, Nothing DEF CleanupRestoreJobs, RestoreIsConsistent, RestorePodReadsOwn
<1>5. CASE CleanupRestoreConfigMap
  BY <1>5, Nothing DEF CleanupRestoreConfigMap, RestoreIsConsistent, RestorePodReadsOwn
<1>6. CASE AbortRestore
  BY <1>6 DEF AbortRestore, RestoreIsConsistent, RestorePodReadsOwn
<1>7. CASE RestorePodStarts
  <2>1. /\ restoreJob.phase # Absent /\ restoreJob.of = RestoreName
        /\ configMap[RestoreName] # NoConfig
        /\ UNCHANGED <<restorePc, source, configMap>>
    BY <1>7 DEF RestorePodStarts, TypeInv, Absent
  <2>2. /\ restoreJob'.generation = restoreJob.generation
        /\ restoreJob'.phase \in {"active", "failed"}
        /\ \/ restoreJob'.read = restoreJob.read
           \/ /\ restoreJob'.read = configMap[RestoreName]
              /\ configMap[RestoreName].file = ConfigFile("restore")
    BY <1>0, <1>7, <2>1, PodStartsType DEF RestorePodStarts
  <2>3. RestoreIsConsistent'
    BY <2>1, <2>2, Nothing DEF RestoreIsConsistent, Absent
  <2>4. RestorePodReadsOwn'
    <3>1. CASE restoreJob'.read = restoreJob.read
      BY <2>1, <2>2, <3>1 DEF RestorePodReadsOwn
    <3>2. CASE restoreJob'.read # restoreJob.read
      <4>1. configMap[RestoreName].kind = "restore"
        BY <1>0, <2>1, <2>2, <3>2, FileTellsKind
      <4> QED
        BY <2>1, <2>2, <3>2, <4>1 DEF RestorePodReadsOwn, RestoreIsConsistent
    <3> QED
      BY <3>1, <3>2
  <2> QED
    BY <2>3, <2>4
<1>8. CASE RestoreEnds
  <2>1. /\ restoreJob'.generation = restoreJob.generation /\ restoreJob'.read = NoConfig
        /\ restoreJob'.phase \in {"succeeded", "failed"} /\ restoreJob.phase # Absent
        /\ UNCHANGED <<restorePc, source, configMap>>
    BY <1>0, <1>8 DEF RestoreEnds, Jobs, Absent
  <2> QED
    BY <2>1, Nothing DEF RestoreIsConsistent, RestorePodReadsOwn, Absent
<1>9. CASE /\ UNCHANGED <<restorePc, source, restoreJob>>
           /\ \/ UNCHANGED configMap
              \/ \E b \in Backups : CreateOrUpdateConfigMap(b)
  <2>1. configMap'[RestoreName] = configMap[RestoreName] \/ configMap'[RestoreName].kind = "backup"
    BY <1>0, <1>9, Nothing DEF CreateOrUpdateConfigMap, TypeOK
  <2> QED
    BY <1>9, <2>1 DEF RestoreIsConsistent, RestorePodReadsOwn
<1>10. CASE ~ (ReconcileRestore \/ AbortRestore \/ RestorePodStarts \/ RestoreEnds)
  <2>1. UNCHANGED <<restorePc, source, restoreJob>>
    BY <1>10
    DEF Next, ReconcileBackup, StartReconcile, CreateOrUpdateConfigMap, ApplyCronJob,
        CheckJobCompletion, ApplyRetentionPolicy, PruneBackup, PatchBackupHistory,
        AbortBackup, UserEditsSpec, CronFires, UserCreatesRestore, UserDeletesRestore,
        BackupPodStarts, BackupPodFails, BackupEnds, vars, restoreSide
  <2>2. UNCHANGED configMap \/ \E b \in Backups : CreateOrUpdateConfigMap(b)
    BY <1>10
    DEF Next, ReconcileBackup, StartReconcile, ApplyCronJob,
        CheckJobCompletion, ApplyRetentionPolicy, PruneBackup, PatchBackupHistory,
        AbortBackup, UserEditsSpec, CronFires, UserCreatesRestore, UserDeletesRestore,
        BackupPodStarts, BackupPodFails, BackupEnds, vars
  <2> QED
    BY <1>9, <2>1, <2>2
<1> QED
  BY <1>1, <1>2, <1>3, <1>4, <1>5, <1>6, <1>7, <1>8, <1>10 DEF ReconcileRestore

\* The two halves of PodReadsOwnConfig.
LEMMA PodReadsHalves ==
  PodReadsOwnConfig <=> (\A k \in Runs : BackupPodReadsOwn(jobs[k])) /\ RestorePodReadsOwn
  BY DEF PodReadsOwnConfig, BackupPodReadsOwn, RestorePodReadsOwn

\* For any number of backups that share the namespace, of edits, runs and faults, and a
\* restore that may be the namesake of one of them: a pod runs on a configuration of its
\* own kind and resource, a backup's at least as new as its Job, a restore's made from
\* the same reading of the source as its Job.
THEOREM PodsReadTheirOwn == Spec => []PodReadsOwnConfig
<1>1. Init => ConfigInv
  <2>1. Init => TypeInv
    BY TypeInit
  <2>2. Init => ConfigIsCurrent /\ FileFitsKind
    BY NamespaceConstants, Nothing DEF Init, ConfigIsCurrent, FileFitsKind
  <2>3. Init => JobFollowsCronJob /\ RestoreIsConsistent /\ PodReadsOwnConfig
    BY Nothing DEF Init, JobFollowsCronJob, RestoreIsConsistent, PodReadsOwnConfig
  <2> QED
    BY <2>1, <2>2, <2>3 DEF ConfigInv
<1>2. ConfigInv /\ [Next]_vars => ConfigInv'
  <2> SUFFICES ASSUME ConfigInv, [Next]_vars PROVE ConfigInv'
    OBVIOUS
  <2>0. /\ TypeInv /\ ConfigIsCurrent /\ FileFitsKind /\ JobFollowsCronJob
        /\ RestoreIsConsistent /\ PodReadsOwnConfig
    BY DEF ConfigInv
  <2>1. (\A k \in Runs : BackupPodReadsOwn(jobs[k])) /\ RestorePodReadsOwn
    BY <2>0, PodReadsHalves
  <2>2. TypeInv' /\ ConfigIsCurrent' /\ FileFitsKind'
    BY <2>0, TypeStep, CurrentStep, FileStep
  <2>3. JobFollowsCronJob' /\ \A k \in Runs : BackupPodReadsOwn(jobs'[k])
    BY <2>0, <2>1, JobsStep
  <2>4. RestoreIsConsistent' /\ RestorePodReadsOwn'
    BY <2>0, <2>1, RestoreStep
  <2>5. PodReadsOwnConfig'
    BY <2>3, <2>4 DEF PodReadsOwnConfig, BackupPodReadsOwn, RestorePodReadsOwn
  <2> QED
    BY <2>2, <2>3, <2>4, <2>5 DEF ConfigInv
<1>3. ConfigInv => PodReadsOwnConfig
  BY DEF ConfigInv
<1> QED
  BY <1>1, <1>2, <1>3, PTL DEF Spec

-----------------------------------------------------------------------------
(***************************************************************************)
(* What a resource knows of belongs to it.                                 *)
(***************************************************************************)

\* What OwnInv says of one KafkaBackup.
Own(b) ==
  /\ pc[b] \in {"retention", "prune"} => b \in Retained
  /\ pc[b] # "prune" => toPrune[b] = {}
  /\ \A e \in history[b] \cup merged[b] : backup_id_belongs_to_cr(e.id, b)
  /\ \A i \in toPrune[b] : backup_id_belongs_to_cr(i, b)

\* A step of another resource leaves a KafkaBackup's history and lists alone.
LEMMA OwnFrame ==
  ASSUME TypeInv, [Next]_vars, NEW b \in Backups, ~ ReconcileBackup(b), ~ AbortBackup(b)
  PROVE  /\ pc'[b] = pc[b] /\ history'[b] = history[b] /\ merged'[b] = merged[b]
         /\ toPrune'[b] = toPrune[b] /\ lastBackup'[b] = lastBackup[b]
<1>0. TypeOK
  BY DEF TypeInv
<1>1. ASSUME NEW c \in Backups, c # b, ReconcileBackup(c) \/ AbortBackup(c)
      PROVE  /\ pc'[b] = pc[b] /\ history'[b] = history[b] /\ merged'[b] = merged[b]
             /\ toPrune'[b] = toPrune[b] /\ lastBackup'[b] = lastBackup[b]
  <2>1. CASE StartReconcile(c) \/ CreateOrUpdateConfigMap(c) \/ ApplyCronJob(c)
    BY <1>0, <1>1, <2>1
    DEF StartReconcile, CreateOrUpdateConfigMap, ApplyCronJob, TypeInv, TypeOK
  <2>2. CASE CheckJobCompletion(c)
    <3>1. lastBackup'[b] = lastBackup[b] /\ history'[b] = history[b]
      BY <1>0, <1>1, <2>2 DEF CheckJobCompletion, TypeInv, TypeOK
    <3>2. pc'[b] = pc[b] /\ merged'[b] = merged[b] /\ toPrune'[b] = toPrune[b]
      BY <1>0, <1>1, <2>2 DEF CheckJobCompletion, Return, TypeInv, TypeOK
    <3> QED
      BY <3>1, <3>2
  <2>3. CASE ApplyRetentionPolicy(c)
    BY <1>0, <1>1, <2>3 DEF ApplyRetentionPolicy, TypeInv, TypeOK
  <2>4. CASE PruneBackup(c)
    BY <1>0, <1>1, <2>4 DEF PruneBackup, TypeInv, TypeOK
  <2>5. CASE PatchBackupHistory(c) \/ AbortBackup(c)
    BY <1>0, <1>1, <2>5 DEF PatchBackupHistory, AbortBackup, Return, TypeInv, TypeOK
  <2> QED
    BY <1>1, <2>1, <2>2, <2>3, <2>4, <2>5 DEF ReconcileBackup
<1>2. CASE ~ (\E c \in Backups : ReconcileBackup(c) \/ AbortBackup(c))
  <2>1. UNCHANGED <<pc, history, merged, toPrune, lastBackup>>
    BY <1>2
    DEF Next, ReconcileRestore, GetBackup, RestoreConfigMap, CreateRestoreJob,
        CleanupRestoreJobs, CleanupRestoreConfigMap, AbortRestore, UserEditsSpec, CronFires,
        UserCreatesRestore, UserDeletesRestore, BackupPodStarts, BackupPodFails, BackupEnds,
        RestorePodStarts, RestoreEnds, vars, backupSide
  <2> QED
    BY <2>1
<1> QED
  BY <1>1, <1>2

\* What discovery finds is stored and belongs to the resource.
LEMMA DiscoveredIsOwn ==
  ASSUME NEW b
  PROVE  \A e \in Discovered(b) :
           backup_id_belongs_to_cr(e.id, b) /\ e.id \in Stored /\ e.start = store[e.id]
  BY DEF Discovered

\* OwnInv is inductive.
LEMMA OwnStep ==
  ASSUME OwnInv, [Next]_vars
  PROVE  OwnInv'
<1>0. TypeInv /\ TypeOK /\ TypeInv' /\ \A b \in Backups : Own(b)
  BY TypeStep DEF OwnInv, TypeInv, Own
<1>1. SUFFICES ASSUME NEW b \in Backups PROVE Own(b)'
  BY <1>0 DEF OwnInv, Own
<1>2. CASE ~ ReconcileBackup(b) /\ ~ AbortBackup(b)
  BY <1>0, <1>2, OwnFrame DEF Own
<1>3. CASE StartReconcile(b) \/ CreateOrUpdateConfigMap(b) \/ ApplyCronJob(b)
  BY <1>0, <1>3 DEF StartReconcile, CreateOrUpdateConfigMap, ApplyCronJob, Own, TypeOK
<1>4. CASE CheckJobCompletion(b)
  <2>1. \A e \in history'[b] : backup_id_belongs_to_cr(e.id, b)
    <3> DEFINE new == [id |-> <<b, Max(Terminal(b))>>, start |-> Max(Terminal(b))]
    <3>1. history'[b] = history[b] \/ history'[b] = Upsert(history[b], new)
      BY <1>0, <1>4 DEF CheckJobCompletion, TypeInv
    <3>2. backup_id_belongs_to_cr(new.id, b)
      BY DEF backup_id_belongs_to_cr
    <3> HIDE DEF new
    <3> QED
      BY <1>0, <3>1, <3>2 DEF Upsert, Own
  <2>2. /\ merged'[b] \subseteq merged[b] /\ toPrune'[b] \subseteq toPrune[b]
        /\ pc'[b] \in {"idle", "retention"} /\ (pc'[b] = "retention" => b \in Retained)
    BY <1>0, <1>4 DEF CheckJobCompletion, Return, TypeInv, TypeOK
  <2>3. toPrune[b] = {}
    BY <1>0, <1>4 DEF CheckJobCompletion, Own
  <2> QED
    BY <1>0, <2>1, <2>2, <2>3 DEF Own
<1>5. CASE ApplyRetentionPolicy(b)
  <2> DEFINE h == Merge(history[b], Discovered(b))
             ids == {e.id : e \in h}
             start == [i \in ids |-> (CHOOSE e \in h : e.id = i).start]
  <2>0. b \in Retained
    BY <1>0, <1>5 DEF ApplyRetentionPolicy, Own
  <2>1. \A e \in h : backup_id_belongs_to_cr(e.id, b)
    BY <1>0, <2>0, DiscoveredIsOwn DEF Merge, Own
  <2>2. \A i \in ids : backup_id_belongs_to_cr(i, b)
    BY <2>1
  <2>3. evaluate_retention(ids, start, Now) \subseteq ids
    BY SelectedIsPart
  <2>4. /\ merged' = [merged EXCEPT ![b] = h]
        /\ toPrune' = [toPrune EXCEPT
             ![b] = evaluate_retention(ids, start, Now) \ active_backup_ids(b)]
        /\ pc' = [pc EXCEPT ![b] = "prune"] /\ UNCHANGED history
    BY <1>5 DEF ApplyRetentionPolicy
  <2> HIDE DEF h, ids, start
  <2>5. /\ merged'[b] = h /\ \A i \in toPrune'[b] : backup_id_belongs_to_cr(i, b)
        /\ pc'[b] = "prune" /\ history'[b] = history[b]
    BY <1>0, <2>2, <2>3, <2>4 DEF TypeInv, TypeOK
  <2> QED
    BY <1>0, <2>0, <2>1, <2>5 DEF Own
<1>6. CASE PruneBackup(b)
  <2>1. /\ merged'[b] \subseteq merged[b] /\ toPrune'[b] \subseteq toPrune[b]
        /\ UNCHANGED <<pc, history>>
    BY <1>0, <1>6 DEF PruneBackup, TypeInv, TypeOK
  <2> QED
    BY <1>0, <2>1 DEF Own
<1>7. CASE PatchBackupHistory(b) \/ AbortBackup(b)
  <2>1. /\ merged'[b] = {} /\ toPrune'[b] = {} /\ pc'[b] = "idle"
        /\ history'[b] \in {history[b], merged[b]}
    BY <1>0, <1>7 DEF PatchBackupHistory, AbortBackup, Return, TypeInv, TypeOK
  <2> QED
    BY <1>0, <2>1 DEF Own
<1> QED
  BY <1>2, <1>3, <1>4, <1>5, <1>6, <1>7 DEF ReconcileBackup

\* A step that takes a backup out of the storage is one that prunes it.
LEMMA OnlyPruningDeletes ==
  ASSUME TypeInv, [Next]_vars, NEW i \in Ids, store[i] # 0, store'[i] = 0
  PROVE  \E b \in Backups : PruneBackup(b) /\ i \in toPrune[b]
<1>0. TypeOK
  BY DEF TypeInv
<1>1. ASSUME NEW k \in Runs, BackupEnds(k) PROVE FALSE
  <2>1. backup_id(jobs[k].of, k) \in Ids
    BY <1>1, Nothing DEF BackupEnds, backup_id, Ids, Absent, TypeInv
  <2>2. k # 0
    BY NamespaceConstants DEF Runs
  <2> QED
    BY <1>0, <1>1, <2>1, <2>2 DEF BackupEnds, TypeOK
<1>2. ASSUME NEW b \in Backups, PruneBackup(b) PROVE i \in toPrune[b]
  BY <1>0, <1>2 DEF PruneBackup, TypeOK
<1>3. CASE ~ \/ \E k \in Runs : BackupEnds(k)
             \/ \E b \in Backups : PruneBackup(b)
  <2>1. UNCHANGED store
    BY <1>3
    DEF Next, ReconcileBackup, StartReconcile, CreateOrUpdateConfigMap, ApplyCronJob,
        CheckJobCompletion, ApplyRetentionPolicy, PatchBackupHistory, AbortBackup,
        UserEditsSpec, CronFires, ReconcileRestore, GetBackup, RestoreConfigMap,
        CreateRestoreJob, CleanupRestoreJobs, CleanupRestoreConfigMap, AbortRestore,
        UserCreatesRestore, UserDeletesRestore, BackupPodStarts, BackupPodFails,
        RestorePodStarts, RestoreEnds, vars
  <2> QED
    BY <2>1
<1> QED
  BY <1>1, <1>2, <1>3

\* OwnInv holds at the start.
LEMMA OwnInit == Init => OwnInv
  BY TypeInit DEF Init, OwnInv

-----------------------------------------------------------------------------
(***************************************************************************)
(* What retention deletes and what a restore was pointed at.               *)
(***************************************************************************)

\* No resource with retention sees the backups of an incremental one, which are all
\* stored under its own name: neither its own nor, by its name, another's.
RetentionByRun ==
  \A b \in Incremental, c \in Retained : b # c /\ <<c, b>> \notin Prefixed

\* Sets of backup ids are finite.
LEMMA IdsFinite ==
  ASSUME NEW S \in SUBSET Ids
  PROVE  IsFiniteSet(S)
<1>1. IsFiniteSet(Backups) /\ IsFiniteSet(0..MaxRuns)
  <2>1. IsFiniteSet(0..MaxRuns)
    BY NamespaceConstants, FS_Interval
  <2> QED
    BY <2>1, NamespaceConstants
<1>2. IsFiniteSet(Ids)
  BY <1>1, FS_Product DEF Ids
<1> QED
  BY <1>2, FS_Subset

\* The runs of ids that are names of Jobs are numbers and the start times.
LEMMA RunIdIs ==
  ASSUME NEW i \in RunIds
  PROVE  /\ i \in Ids /\ i[1] \in Backups /\ i[2] \in Runs /\ i[2] \in Int /\ i[2] # 0
         /\ StartOf(i) = i[2] /\ StartOf(i)' = i[2]
<1>1. i \in Ids /\ i[1] \in Backups /\ i[2] \in Runs /\ i[2] \in Int /\ i[2] # 0
  BY Nothing, NamespaceConstants DEF RunIds, Ids, Runs
<1> QED
  BY <1>1 DEF StartOf

\* Of two resources that one backup belongs to, what belongs to one belongs to the other.
LEMMA FamiliesAreNested ==
  ASSUME NEW c \in Backups, NEW d \in Backups, NEW i \in Ids,
         backup_id_belongs_to_cr(i, c), backup_id_belongs_to_cr(i, d)
  PROVE  \/ \A l \in Ids : backup_id_belongs_to_cr(l, c) => backup_id_belongs_to_cr(l, d)
         \/ \A l \in Ids : backup_id_belongs_to_cr(l, d) => backup_id_belongs_to_cr(l, c)
<1>1. \A l \in Ids : l[1] \in Backups
  BY DEF Ids
<1>2. c = d \/ <<c, d>> \in Prefixed \/ <<d, c>> \in Prefixed
  BY <1>1, PrefixesAreNested DEF backup_id_belongs_to_cr
<1>3. ASSUME NEW a \in Backups, NEW b \in Backups, a = b \/ <<a, b>> \in Prefixed, NEW l \in Ids,
             backup_id_belongs_to_cr(l, b)
      PROVE  backup_id_belongs_to_cr(l, a)
  BY <1>1, <1>3, PrefixesAreNested DEF backup_id_belongs_to_cr
<1> QED
  BY <1>2, <1>3

\* The backups of c in S that are newer than i.
NewerIn(S, c, i) == {l \in S : backup_id_belongs_to_cr(l, c) /\ l[2] > i[2]}

\* The limits of c, of a backup named after its Job when the backups in S are stored.
Passed(S, now, c, i) ==
  \/ MaxBackups # Unset /\ MaxBackups >= 0 /\ Cardinality(NewerIn(S, c, i)) >= MaxBackups
  \/ MaxAge # Unset /\ i[2] < now - MaxAge

\* If those of d newer than q in S are among those of c newer than i in T, there are not
\* fewer of the latter.
LEMMA NewerCount ==
  ASSUME MaxBackups \in Int, NEW S \in SUBSET Ids, NEW T \in SUBSET Ids, NEW c, NEW d,
         NEW q, NEW i,
         \A l \in S : backup_id_belongs_to_cr(l, d) /\ l[2] > q[2] =>
           l \in T /\ backup_id_belongs_to_cr(l, c) /\ l[2] > i[2],
         Cardinality(NewerIn(S, d, q)) >= MaxBackups
  PROVE  Cardinality(NewerIn(T, c, i)) >= MaxBackups
<1>1. NewerIn(T, c, i) \in SUBSET Ids
  BY DEF NewerIn
<1>2. IsFiniteSet(NewerIn(T, c, i))
  BY <1>1, IdsFinite
<1>3. NewerIn(S, d, q) \in SUBSET NewerIn(T, c, i)
  BY DEF NewerIn
<1> QED
  BY <1>2, <1>3, PartCount

\* What has passed the limits of c stays so when nothing of c that is newer is lost.
LEMMA PassedStays ==
  ASSUME NEW S \in SUBSET Ids, NEW T \in SUBSET Ids, NEW now \in Int, NEW later \in Int,
         now <= later, NEW c, NEW q \in RunIds, Passed(S, now, c, q),
         \A l \in S : backup_id_belongs_to_cr(l, c) /\ l[2] > q[2] => l \in T
  PROVE  Passed(T, later, c, q)
<1>1. CASE MaxAge # Unset /\ q[2] < now - MaxAge
  <2>1. MaxAge \in Int /\ q[2] \in Int
    BY <1>1, RetentionPolicyConstants, RunIdIs
  <2>2. q[2] < later - MaxAge
    BY <1>1, <2>1
  <2> QED
    BY <1>1, <2>2 DEF Passed
<1>2. CASE /\ MaxBackups # Unset /\ MaxBackups >= 0
           /\ Cardinality(NewerIn(S, c, q)) >= MaxBackups
  <2>1. MaxBackups \in Int
    BY <1>2, RetentionPolicyConstants
  <2>2. Cardinality(NewerIn(T, c, q)) >= MaxBackups
    BY <1>2, <2>1, NewerCount
  <2> QED
    BY <1>2, <2>2 DEF Passed
<1> QED
  BY <1>1, <1>2 DEF Passed

\* Of two backups of c, the older one has passed the limits of c or of d when the newer one
\* has passed those of d and nothing of d newer than that is lost: the larger of the
\* families of c and d, which one backup belongs to, has enough newer ones.
LEMMA Inherited ==
  ASSUME NEW S \in SUBSET Ids, NEW T \in SUBSET Ids, NEW now \in Int, NEW later \in Int,
         now <= later, NEW c \in Retained, NEW d \in Retained, NEW q \in RunIds,
         NEW j \in RunIds, j[2] <= q[2],
         backup_id_belongs_to_cr(q, c), backup_id_belongs_to_cr(j, c),
         backup_id_belongs_to_cr(q, d), Passed(S, now, d, q),
         \A l \in S : backup_id_belongs_to_cr(l, d) /\ l[2] > q[2] => l \in T
  PROVE  \E e \in Retained : backup_id_belongs_to_cr(j, e) /\ Passed(T, later, e, j)
<1>0. /\ q[2] \in Int /\ j[2] \in Int /\ q \in Ids /\ j \in Ids
      /\ c \in Backups /\ d \in Backups /\ \A l \in Ids : l[2] \in Int
  BY RunIdIs, NamespaceConstants DEF Ids
<1>1. CASE MaxAge # Unset /\ q[2] < now - MaxAge
  <2>1. MaxAge \in Int
    BY <1>1, RetentionPolicyConstants
  <2>2. j[2] < later - MaxAge
    BY <1>0, <1>1, <2>1
  <2> QED
    BY <1>1, <2>2 DEF Passed
<1>2. CASE /\ MaxBackups # Unset /\ MaxBackups >= 0
           /\ Cardinality(NewerIn(S, d, q)) >= MaxBackups
  <2>0. MaxBackups \in Int
    BY <1>2, RetentionPolicyConstants
  <2>1. ASSUME NEW e \in Retained, backup_id_belongs_to_cr(j, e),
               \A l \in Ids : backup_id_belongs_to_cr(l, d) => backup_id_belongs_to_cr(l, e)
        PROVE  Passed(T, later, e, j)
    <3>1. \A l \in S : backup_id_belongs_to_cr(l, d) /\ l[2] > q[2] =>
            l \in T /\ backup_id_belongs_to_cr(l, e) /\ l[2] > j[2]
      BY <1>0, <2>1
    <3>2. Cardinality(NewerIn(T, e, j)) >= MaxBackups
      BY <1>2, <2>0, <3>1, NewerCount
    <3> QED
      BY <1>2, <3>2 DEF Passed
  <2>2. CASE \A l \in Ids : backup_id_belongs_to_cr(l, d) => backup_id_belongs_to_cr(l, c)
    BY <2>1, <2>2
  <2>3. CASE \A l \in Ids : backup_id_belongs_to_cr(l, c) => backup_id_belongs_to_cr(l, d)
    BY <1>0, <2>1, <2>3
  <2> QED
    BY <1>0, <2>2, <2>3, FamiliesAreNested
<1> QED
  BY <1>1, <1>2 DEF Passed

\* What is stored and belongs to a resource with retention is named after its Job.
LEMMA RetainedByRun ==
  ASSUME RetentionByRun, StoredByRun, NEW c \in Retained, NEW l \in Stored,
         backup_id_belongs_to_cr(l, c)
  PROVE  l \in RunIds /\ store[l] = l[2]
<1>1. l[1] \in Plain
  BY DEF RetentionByRun, backup_id_belongs_to_cr, Stored, Ids, Plain
<1> QED
  BY <1>1 DEF StoredByRun

\* Superseded, in the words of Passed.
LEMMA SupersededIs ==
  ASSUME RetentionByRun, StoredByRun, NEW i \in RunIds
  PROVE  Superseded(i) <=>
           \E c \in Retained : backup_id_belongs_to_cr(i, c) /\ Passed(Stored, Now, c, i)
<1>1. ASSUME NEW c \in Retained
      PROVE  NewerStored(c, i) = NewerIn(Stored, c, i)
  <2>1. \A l \in Stored : backup_id_belongs_to_cr(l, c) => StartOf(l) = l[2]
    BY RetainedByRun, RunIdIs
  <2> QED
    BY <2>1, RunIdIs DEF NewerStored, NewerIn
<1>2. StartOf(i) = i[2]
  BY RunIdIs
<1> QED
  BY <1>1, <1>2 DEF Superseded, TooMany, TooOld, Passed

\* The same, after a step.
LEMMA SupersededIsThen ==
  ASSUME RetentionByRun, StoredByRun', NEW i \in RunIds
  PROVE  Superseded(i)' <=>
           \E c \in Retained : backup_id_belongs_to_cr(i, c) /\ Passed(Stored', Now', c, i)
<1>1. ASSUME NEW c \in Retained
      PROVE  NewerStored(c, i)' = NewerIn(Stored', c, i)
  <2>1. ASSUME NEW l \in Stored', backup_id_belongs_to_cr(l, c) PROVE StartOf(l)' = l[2]
    <3>1. l[1] \in Plain
      BY <2>1 DEF RetentionByRun, backup_id_belongs_to_cr, Stored, Ids, Plain
    <3>2. l \in RunIds
      BY <2>1, <3>1 DEF StoredByRun
    <3> QED
      BY <3>2, RunIdIs
  <2> QED
    BY <2>1, RunIdIs DEF NewerStored, NewerIn
<1>2. StartOf(i)' = i[2]
  BY RunIdIs
<1> QED
  BY <1>1, <1>2 DEF Superseded, TooMany, TooOld, Passed

\* Time does not go back.
LEMMA TimePasses ==
  ASSUME TypeInv, [Next]_vars
  PROVE  Now \in Int /\ Now' \in Int /\ Now <= Now'
<1>0. TypeOK /\ NoJob \in Jobs
  BY Nothing DEF TypeInv
<1>1. ASSUME NEW k \in Runs, jobs[k] # NoJob PROVE jobs'[k] # NoJob
  <2>1. jobs'[k] = jobs[k] \/ jobs'[k].phase # Absent
    <3>1. ASSUME NEW l \in Runs, BackupEnds(l) \/ BackupPodFails(l)
          PROVE  jobs'[k] = jobs[k] \/ jobs'[k].phase # Absent
      BY <1>0, <3>1, Nothing DEF BackupEnds, BackupPodFails, TypeOK, Jobs, Absent
    <3>2. ASSUME NEW l \in Runs, BackupPodStarts(l)
          PROVE  jobs'[k] = jobs[k] \/ jobs'[k].phase # Absent
      <4>1. CASE k = l
        <5>1. /\ jobs[k] \in Jobs /\ jobs[k].phase # Absent /\ jobs[k].of \in Names
              /\ configMap[jobs[k].of] # NoConfig
          BY <1>0, <3>2, <4>1, Nothing DEF BackupPodStarts, TypeInv, TypeOK, Absent
        <5>2. PodStarts(jobs[k], "backup").phase \in {"active", "failed"}
          BY <1>0, <5>1, PodStartsType DEF TypeInv
        <5> QED
          BY <1>0, <3>2, <4>1, <5>2 DEF BackupPodStarts, TypeOK, Absent
      <4>2. CASE k # l
        BY <1>0, <3>2, <4>2 DEF BackupPodStarts, TypeOK
      <4> QED
        BY <4>1, <4>2
    <3>3. ASSUME NEW b \in Backups, CronFires(b) PROVE jobs'[k] = jobs[k]
      BY <1>0, <1>1, <3>3 DEF CronFires, TypeOK
    <3>4. CASE ~ \/ \E b \in Backups : CronFires(b)
                 \/ \E l \in Runs : BackupPodStarts(l) \/ BackupPodFails(l) \/ BackupEnds(l)
      <4>1. UNCHANGED jobs
        BY <3>4
        DEF Next, ReconcileBackup, StartReconcile, CreateOrUpdateConfigMap, ApplyCronJob,
            CheckJobCompletion, ApplyRetentionPolicy, PruneBackup, PatchBackupHistory,
            AbortBackup, UserEditsSpec, ReconcileRestore, GetBackup, RestoreConfigMap,
            CreateRestoreJob, CleanupRestoreJobs, CleanupRestoreConfigMap, AbortRestore,
            UserCreatesRestore, UserDeletesRestore, RestorePodStarts, RestoreEnds, vars
      <4> QED
        BY <4>1
    <3> QED
      BY <3>1, <3>2, <3>3, <3>4
  <2> QED
    BY <1>1, <2>1, Nothing
<1>2. /\ Now' \in Int /\ \A k \in Runs : jobs'[k] # NoJob => k <= Now'
      /\ Now' = 1 \/ Now' \in Runs
  <2>1. (/\ Now \in Int /\ \A k \in Runs : jobs[k] # NoJob => k <= Now
         /\ Now = 1 \/ (Now \in Runs /\ jobs[Now] # NoJob))'
    BY TimeOfLatest, PTL
  <2> QED
    BY <2>1
<1>3. Now' >= 1
  BY <1>2, NamespaceConstants DEF Runs
<1> QED
  BY <1>1, <1>2, <1>3, TimeOfLatest

\* Backups of resources that are not incremental are stored by run.
LEMMA StoredByRunStep ==
  ASSUME TypeInv, StoredByRun, [Next]_vars
  PROVE  StoredByRun'
<1>0. TypeOK
  BY DEF TypeInv
<1>1. ASSUME NEW k \in Runs, BackupEnds(k) PROVE StoredByRun'
  <2> DEFINE new == backup_id(jobs[k].of, k)
  <2>1. /\ new \in Ids /\ new[1] = jobs[k].of
        /\ jobs[k].of \in Plain => new \in RunIds /\ new[2] = k
    BY <1>1, Nothing DEF BackupEnds, backup_id, Ids, Absent, TypeInv, RunIds, Plain
  <2>2. UNCHANGED store \/ \E u \in {k, store[new]} \ {0} : store' = [store EXCEPT ![new] = u]
    BY <1>1 DEF BackupEnds
  <2> HIDE DEF new
  <2>3. ASSUME NEW i \in Stored', i[1] \in Plain PROVE i \in RunIds /\ store'[i] = i[2]
    <3>1. i \in Ids /\ store'[i] # 0
      BY <2>3 DEF Stored
    <3>2. CASE store'[i] = store[i]
      BY <2>3, <3>1, <3>2 DEF StoredByRun, Stored
    <3>3. CASE store'[i] # store[i]
      <4>1. i = new /\ store'[i] = k
        BY <1>0, <2>1, <2>2, <3>1, <3>3 DEF TypeOK
      <4> QED
        BY <2>1, <2>3, <4>1
    <3> QED
      BY <3>2, <3>3
  <2> QED
    BY <2>3 DEF StoredByRun
<1>2. ASSUME NEW b \in Backups, PruneBackup(b) PROVE StoredByRun'
  <2>1. \A i \in Ids : store'[i] \in {0, store[i]}
    BY <1>0, <1>2 DEF PruneBackup, TypeOK
  <2> QED
    BY <2>1 DEF StoredByRun, Stored
<1>3. CASE ~ \/ \E k \in Runs : BackupEnds(k)
             \/ \E b \in Backups : PruneBackup(b)
  <2>1. UNCHANGED store
    BY <1>3
    DEF Next, ReconcileBackup, StartReconcile, CreateOrUpdateConfigMap, ApplyCronJob,
        CheckJobCompletion, ApplyRetentionPolicy, PatchBackupHistory, AbortBackup,
        UserEditsSpec, CronFires, ReconcileRestore, GetBackup, RestoreConfigMap,
        CreateRestoreJob, CleanupRestoreJobs, CleanupRestoreConfigMap, AbortRestore,
        UserCreatesRestore, UserDeletesRestore, BackupPodStarts, BackupPodFails,
        RestorePodStarts, RestoreEnds, vars
  <2> QED
    BY <2>1 DEF StoredByRun, Stored
<1> QED
  BY <1>1, <1>2, <1>3

\* A step takes at most one backup out of the storage, a superseded one.
LEMMA StoreLoses ==
  ASSUME RetentionByRun, AvailableInv, [Next]_vars
  PROVE  \/ \A l \in Stored : l \in Stored'
         \/ \E p \in RunIds : Superseded(p) /\ \A l \in Stored : l # p => l \in Stored'
<1>0. OwnInv /\ TypeInv /\ TypeOK
  BY DEF AvailableInv, OwnInv, TypeInv
<1>1. SUFFICES ASSUME NEW p \in Stored, p \notin Stored'
               PROVE  /\ p \in RunIds /\ Superseded(p)
                      /\ \A l \in Stored : l # p => l \in Stored'
  OBVIOUS
<1>2. p \in Ids /\ store[p] # 0 /\ store'[p] = 0
  BY <1>1 DEF Stored
<1>3. PICK b \in Backups : PruneBackup(b) /\ p \in toPrune[b]
  BY <1>0, <1>2, OnlyPruningDeletes
<1>4. b \in Plain
  BY <1>0, <1>3 DEF OwnInv, PruneBackup, RetentionByRun, Plain
<1>5. p \in RunIds /\ Superseded(p)
  BY <1>3, <1>4 DEF AvailableInv, StatusKnows
<1>6. \A l \in Stored : l # p => l \in Stored'
  BY <1>0, <1>2, <1>3 DEF PruneBackup, Stored, TypeOK
<1> QED
  BY <1>5, <1>6

\* What is available stays so, and what is superseded stays superseded.
LEMMA AvailableStays ==
  ASSUME RetentionByRun, AvailableInv, [Next]_vars, NEW i \in RunIds
  PROVE  /\ Superseded(i) => Superseded(i)'
         /\ Available(i) => Available(i)'
<1>0. /\ TypeInv /\ TypeOK /\ StoredByRun
      /\ Stored \in SUBSET Ids /\ Stored' \in SUBSET Ids
  BY DEF AvailableInv, OwnInv, TypeInv, Stored
<1>1. StoredByRun' /\ Now \in Int /\ Now' \in Int /\ Now <= Now'
  BY <1>0, StoredByRunStep, TimePasses
<1>2. ASSUME NEW q \in RunIds, NEW c \in Retained, backup_id_belongs_to_cr(q, c),
             Passed(Stored, Now, c, q),
             \A l \in Stored : backup_id_belongs_to_cr(l, c) /\ l[2] > q[2] => l \in Stored'
      PROVE  Superseded(q)'
  <2>1. Passed(Stored', Now', c, q)
    BY <1>0, <1>1, <1>2, PassedStays
  <2> QED
    BY <1>1, <1>2, <2>1, SupersededIsThen
<1>3. CASE \A l \in Stored : l \in Stored'
  BY <1>0, <1>2, <1>3, SupersededIs DEF Available
<1>4. CASE ~ (\A l \in Stored : l \in Stored')
  <2>1. PICK p \in RunIds :
          Superseded(p) /\ \A l \in Stored : l # p => l \in Stored'
    BY <1>4, StoreLoses
  <2>2. p[2] \in Int /\ i[2] \in Int /\ \A l \in Stored : l[2] \in Int
    BY <1>0, RunIdIs, NamespaceConstants DEF Ids
  <2>3. Superseded(p)'
    <3>1. PICK d \in Retained : backup_id_belongs_to_cr(p, d) /\ Passed(Stored, Now, d, p)
      BY <1>0, <2>1, SupersededIs
    <3>2. \A l \in Stored : backup_id_belongs_to_cr(l, d) /\ l[2] > p[2] => l \in Stored'
      BY <2>1, <2>2
    <3> QED
      BY <1>2, <3>1, <3>2
  <2>4. ASSUME Superseded(i) PROVE Superseded(i)'
    <3>1. CASE ~ (i[2] < p[2])
      BY <1>0, <1>2, <2>1, <2>2, <2>4, <3>1, SupersededIs
    <3>2. CASE i[2] < p[2]
      <4>1. PICK c \in Retained : backup_id_belongs_to_cr(i, c) /\ Passed(Stored, Now, c, i)
        BY <1>0, <2>4, SupersededIs
      <4>2. PICK d \in Retained : backup_id_belongs_to_cr(p, d) /\ Passed(Stored, Now, d, p)
        BY <1>0, <2>1, SupersededIs
      <4>3. i[2] <= p[2]
        BY <2>2, <3>2
      <4>4. CASE backup_id_belongs_to_cr(p, c)
        <5>1. \A l \in Stored : backup_id_belongs_to_cr(l, d) /\ l[2] > p[2] => l \in Stored'
          BY <2>1, <2>2
        <5>2. \E e \in Retained : backup_id_belongs_to_cr(i, e) /\ Passed(Stored', Now', e, i)
          BY <1>0, <1>1, <4>1, <4>2, <4>3, <4>4, <5>1, Inherited
        <5> QED
          BY <1>1, <5>2, SupersededIsThen
      <4>5. CASE ~ backup_id_belongs_to_cr(p, c)
        <5>1. \A l \in Stored : backup_id_belongs_to_cr(l, c) /\ l[2] > i[2] => l \in Stored'
          BY <2>1, <4>5
        <5> QED
          BY <1>2, <4>1, <5>1
      <4> QED
        BY <4>4, <4>5
    <3> QED
      BY <3>1, <3>2
  <2>5. i \in Stored => i \in Stored' \/ Superseded(i)'
    BY <2>1, <2>3
  <2> QED
    BY <2>4, <2>5 DEF Available
<1> QED
  BY <1>3, <1>4

\* Among available backups of c, one with as many newer ones as the limit is superseded,
\* although some of the newer ones may be gone from the storage.
LEMMA ExcessIsSuperseded ==
  ASSUME RetentionByRun, StoredByRun, MaxBackups # Unset, MaxBackups >= 0,
         NEW c \in Retained, NEW S \in SUBSET RunIds,
         \A j \in S : backup_id_belongs_to_cr(j, c) /\ (j \in Stored \/ Superseded(j)),
         NEW i \in S, Cardinality(NewerIn(S, c, i)) >= MaxBackups
  PROVE  Superseded(i)
<1>0. MaxBackups \in Int /\ Now \in Int /\ Now <= Now
  BY RetentionPolicyConstants, TimeOfLatest
<1>1. /\ S \in SUBSET Ids /\ Stored \in SUBSET Ids /\ i \in RunIds
      /\ \A j \in S : j[2] \in Int
  BY RunIdIs DEF Stored
<1>2. CASE \A l \in S : l[2] > i[2] => l \in Stored
  <2>1. \A l \in S : backup_id_belongs_to_cr(l, c) /\ l[2] > i[2] =>
          l \in Stored /\ backup_id_belongs_to_cr(l, c) /\ l[2] > i[2]
    BY <1>2
  <2>2. Cardinality(NewerIn(Stored, c, i)) >= MaxBackups
    BY <1>0, <1>1, <2>1, NewerCount
  <2> QED
    BY <1>1, <2>2, SupersededIs DEF Passed
<1>3. CASE ~ (\A l \in S : l[2] > i[2] => l \in Stored)
  <2>1. PICK j \in S : j[2] > i[2] /\ Superseded(j)
    BY <1>3
  <2>2. PICK d \in Retained : backup_id_belongs_to_cr(j, d) /\ Passed(Stored, Now, d, j)
    BY <2>1, SupersededIs
  <2>3. i[2] <= j[2] /\ backup_id_belongs_to_cr(j, c) /\ backup_id_belongs_to_cr(i, c)
    BY <1>1, <2>1
  <2>4. \E e \in Retained : backup_id_belongs_to_cr(i, e) /\ Passed(Stored, Now, e, i)
    BY <1>0, <1>1, <2>2, <2>3, Inherited
  <2> QED
    BY <1>1, <2>4, SupersededIs
<1> QED
  BY <1>2, <1>3

\* Of available backups of c, dated by their runs, the policy selects superseded ones.
LEMMA SelectedIsSuperseded ==
  ASSUME RetentionByRun, StoredByRun, NEW c \in Retained, NEW h, NEW start, NEW ids,
         ids = {e.id : e \in h}, start = [i \in ids |-> (CHOOSE e \in h : e.id = i).start],
         \A e \in h : /\ Available(e.id) /\ e.start = e.id[2]
                      /\ backup_id_belongs_to_cr(e.id, c),
         NEW i \in evaluate_retention(ids, start, Now)
  PROVE  i \in RunIds /\ Superseded(i)
<1>1. /\ i \in ids
      /\ i \in Excess(ids, start) \/ i \in Expired(ids, start, Now)
      /\ ids \in SUBSET RunIds
      /\ \A j \in ids : backup_id_belongs_to_cr(j, c) /\ (j \in Stored \/ Superseded(j))
  BY DEF evaluate_retention, Excess, Expired, Available
<1>2. \A j \in ids : start[j] = j[2]
  <2> SUFFICES ASSUME NEW j \in ids PROVE start[j] = j[2]
    OBVIOUS
  <2>1. \E e \in h : e.id = j
    OBVIOUS
  <2>2. (CHOOSE e \in h : e.id = j) \in h /\ (CHOOSE e \in h : e.id = j).id = j
    BY <2>1
  <2> QED
    BY <2>2
<1>3. CASE i \in Excess(ids, start)
  <2>1. /\ MaxBackups # Unset /\ MaxBackups >= 0
        /\ Cardinality(Newer(ids, start, i)) >= MaxBackups
    BY <1>3 DEF Excess
  <2>2. Newer(ids, start, i) = NewerIn(ids, c, i)
    BY <1>1, <1>2 DEF Newer, NewerIn
  <2> QED
    BY <1>1, <2>1, <2>2, ExcessIsSuperseded
<1>4. CASE i \in Expired(ids, start, Now)
  BY <1>1, <1>2, <1>4, RunIdIs DEF Expired, Superseded, TooOld
<1> QED
  BY <1>1, <1>3, <1>4

\* A reconciler records, discovers and lists what is available, and selects what is
\* superseded.  (Every id is that of a run: what held stays.)
LEMMA StatusStep ==
  ASSUME RetentionByRun, AvailableInv, [Next]_vars, NEW b \in Plain
  PROVE  StatusKnows(b)'
<1>0. /\ OwnInv /\ TypeInv /\ TypeOK /\ StoredByRun /\ StatusKnows(b) /\ b \in Backups
      /\ \A k \in Runs : jobs[k].of = b /\ jobs[k].phase = "succeeded" => Available(<<b, k>>)
  BY DEF AvailableInv, OwnInv, TypeInv, SucceededIsAvailable, Plain
<1>1. \A i : Available(i) => Available(i)'
  BY AvailableStays DEF Available
<1>2. \A i \in RunIds : Superseded(i) => Superseded(i)'
  BY AvailableStays
<1>3. SUFFICES /\ \A e \in history'[b] \cup merged'[b] :
                    Available(e.id) /\ e.start = e.id[2]
               /\ lastBackup'[b] = NoId \/ Available(lastBackup'[b])
               /\ \A i \in toPrune'[b] : i \in RunIds /\ Superseded(i)
  BY <1>1, <1>2 DEF StatusKnows
<1>4. CASE ~ ReconcileBackup(b) /\ ~ AbortBackup(b)
  BY <1>0, <1>4, OwnFrame DEF StatusKnows
<1>5. CASE StartReconcile(b) \/ CreateOrUpdateConfigMap(b) \/ ApplyCronJob(b)
  BY <1>0, <1>5 DEF StartReconcile, CreateOrUpdateConfigMap, ApplyCronJob, StatusKnows
<1>6. CASE CheckJobCompletion(b)
  <2> DEFINE k == Max(Terminal(b))
             new == [id |-> <<b, k>>, start |-> k]
  <2>1. \/ UNCHANGED <<history, lastBackup>>
        \/ /\ Terminal(b) # {} /\ job_succeeded(jobs[k].phase)
           /\ history'[b] = Upsert(history[b], new)
           /\ lastBackup'[b] = <<b, k>>
    BY <1>0, <1>6 DEF CheckJobCompletion, TypeInv, TypeOK
  <2>2. Terminal(b) # {} /\ job_succeeded(jobs[k].phase) => Available(<<b, k>>)
    BY <1>0, LatestIsTerminal DEF Terminal, RunsOf, job_succeeded
  <2>3. new.id = <<b, k>> /\ new.start = new.id[2]
    OBVIOUS
  <2>4. merged'[b] \subseteq merged[b] /\ toPrune'[b] \subseteq toPrune[b]
    BY <1>0, <1>6 DEF CheckJobCompletion, Return, TypeInv, TypeOK
  <2> HIDE DEF k, new
  <2>5. /\ \A e \in history'[b] : Available(e.id) /\ e.start = e.id[2]
        /\ lastBackup'[b] = NoId \/ Available(lastBackup'[b])
    BY <1>0, <2>1, <2>2, <2>3 DEF Upsert, StatusKnows
  <2> QED
    BY <1>0, <2>4, <2>5 DEF StatusKnows
<1>7. CASE ApplyRetentionPolicy(b)
  <2> DEFINE h == Merge(history[b], Discovered(b))
             ids == {e.id : e \in h}
             start == [i \in ids |-> (CHOOSE e \in h : e.id = i).start]
  <2>0. b \in Retained
    BY <1>0, <1>7 DEF ApplyRetentionPolicy, OwnInv
  <2>1. \A e \in Discovered(b) : Available(e.id) /\ e.start = e.id[2]
    BY <1>0, <2>0, DiscoveredIsOwn, RetainedByRun DEF Available
  <2>2. \A e \in h : /\ Available(e.id) /\ e.start = e.id[2]
                       /\ backup_id_belongs_to_cr(e.id, b)
    BY <1>0, <2>1, DiscoveredIsOwn DEF Merge, StatusKnows, OwnInv
  <2>3. \A i \in evaluate_retention(ids, start, Now) : i \in RunIds /\ Superseded(i)
    BY <1>0, <2>0, <2>2, SelectedIsSuperseded
  <2>4. /\ merged' = [merged EXCEPT ![b] = h]
        /\ toPrune' = [toPrune EXCEPT ![b] =
             evaluate_retention(ids, start, Now) \ active_backup_ids(b)]
        /\ UNCHANGED <<history, lastBackup>>
    BY <1>7 DEF ApplyRetentionPolicy
  <2> HIDE DEF h, ids, start
  <2>5. merged'[b] = h /\ toPrune'[b] \subseteq evaluate_retention(ids, start, Now)
    BY <1>0, <2>4 DEF TypeInv, TypeOK
  <2> QED
    BY <1>0, <2>2, <2>3, <2>4, <2>5 DEF StatusKnows
<1>8. CASE PruneBackup(b)
  <2>1. /\ merged'[b] \subseteq merged[b]
        /\ toPrune'[b] \subseteq toPrune[b] /\ UNCHANGED <<history, lastBackup>>
    BY <1>0, <1>8 DEF PruneBackup, TypeInv, TypeOK
  <2> QED
    BY <1>0, <2>1 DEF StatusKnows
<1>9. CASE PatchBackupHistory(b) \/ AbortBackup(b)
  <2>1. /\ merged'[b] = {} /\ toPrune'[b] = {} /\ UNCHANGED lastBackup
        /\ history'[b] \in {history[b], merged[b]}
    BY <1>0, <1>9 DEF PatchBackupHistory, AbortBackup, Return, TypeInv, TypeOK
  <2> QED
    BY <1>0, <2>1 DEF StatusKnows
<1> QED
  BY <1>4, <1>5, <1>6, <1>7, <1>8, <1>9 DEF ReconcileBackup

\* A Job that has just succeeded has stored its backup, under its name.
LEMMA SuccessIsStored ==
  ASSUME TypeInv, [Next]_vars, NEW b \in Plain, NEW k \in Runs,
         jobs'[k].of = b, jobs'[k].phase = "succeeded"
  PROVE  \/ jobs[k].of = b /\ jobs[k].phase = "succeeded"
         \/ <<b, k>> \in Stored'
<1>0. TypeOK /\ NoJob \in Jobs
  BY Nothing DEF TypeInv
<1>1. ASSUME NEW l \in Runs, BackupEnds(l), k = l PROVE <<b, k>> \in Stored'
  <2>1. jobs[k].of = b
    BY <1>0, <1>1 DEF BackupEnds, TypeOK, Jobs
  <2>2. backup_id(jobs[k].of, k) = <<b, k>> /\ <<b, k>> \in Ids
    BY <2>1, Nothing DEF backup_id, Ids, Plain
  <2>3. \E u \in {k, store[<<b, k>>]} \ {0} : store' = [store EXCEPT ![<<b, k>>] = u]
    <3> DEFINE i == backup_id(jobs[k].of, k)
    <3>1. PICK phase \in {"succeeded", "failed"} :
            /\ jobs' = [jobs EXCEPT ![k].phase = phase, ![k].read = NoConfig]
            /\ \/ store' \in {[store EXCEPT ![i] = u] : u \in {k, store[i]} \ {0}}
               \/ phase = "failed"
      <4>1. BackupEnds(k)
        BY <1>1
      <4> QED
        BY <4>1, Zenon DEF BackupEnds
    <3>2. phase = "succeeded"
      BY <1>0, <3>1 DEF TypeOK, Jobs
    <3> QED
      BY <2>2, <3>1, <3>2
  <2> QED
    BY <1>0, <2>2, <2>3 DEF Stored, TypeOK
<1>2. ASSUME NEW l \in Runs, BackupPodStarts(l) \/ BackupPodFails(l) \/ BackupEnds(l), k # l
      PROVE  jobs'[k] = jobs[k]
  BY <1>0, <1>2 DEF BackupPodStarts, BackupPodFails, BackupEnds, TypeOK
<1>3. ASSUME BackupPodStarts(k) \/ BackupPodFails(k) PROVE FALSE
  <2>1. CASE BackupPodFails(k)
    BY <1>0, <2>1 DEF BackupPodFails, TypeOK, Jobs
  <2>2. CASE BackupPodStarts(k)
    <3>1. /\ jobs[k] \in Jobs /\ jobs[k].phase # Absent /\ jobs[k].of \in Names
          /\ configMap[jobs[k].of] # NoConfig
      BY <1>0, <2>2, Nothing DEF BackupPodStarts, TypeInv, TypeOK, Absent
    <3>2. PodStarts(jobs[k], "backup").phase \in {"active", "failed"}
      BY <1>0, <3>1, PodStartsType
    <3> QED
      BY <1>0, <2>2, <3>2 DEF BackupPodStarts, TypeOK
  <2> QED
    BY <1>3, <2>1, <2>2
<1>4. ASSUME NEW c \in Backups, CronFires(c) PROVE jobs'[k] = jobs[k]
  BY <1>0, <1>4 DEF CronFires, TypeOK, NoJob
<1>5. CASE ~ \/ \E c \in Backups : CronFires(c)
             \/ \E l \in Runs : BackupPodStarts(l) \/ BackupPodFails(l) \/ BackupEnds(l)
  <2>1. UNCHANGED jobs
    BY <1>5
    DEF Next, ReconcileBackup, StartReconcile, CreateOrUpdateConfigMap, ApplyCronJob,
        CheckJobCompletion, ApplyRetentionPolicy, PruneBackup, PatchBackupHistory,
        AbortBackup, UserEditsSpec, ReconcileRestore, GetBackup, RestoreConfigMap,
        CreateRestoreJob, CleanupRestoreJobs, CleanupRestoreConfigMap, AbortRestore,
        UserCreatesRestore, UserDeletesRestore, RestorePodStarts, RestoreEnds, vars
  <2> QED
    BY <2>1
<1> QED
  BY <1>1, <1>2, <1>3, <1>4, <1>5

\* The restore is pointed at what is available and keeps to it.
LEMMA RestoreKnowsStep ==
  ASSUME RetentionByRun, Source \in Plain, AvailableInv, [Next]_vars
  PROVE  RestoreKnows'
<1>0. /\ TypeInv /\ TypeOK /\ StoredByRun /\ RestoreKnows
      /\ lastBackup[Source] = NoId \/ Available(lastBackup[Source])
  BY DEF AvailableInv, OwnInv, TypeInv, StatusKnows
<1>1. \A i : Available(i) => Available(i)'
  BY AvailableStays DEF Available
<1>2. SUFFICES /\ restore'.ref \in {NoId, Latest} \/ Available(restore'.ref)
               /\ source'.id = NoId \/ Available(source'.id)
               /\ restorePc' \in {"config_map", "create_job"} \/ restoreJob'.phase # Absent =>
                    source'.id # NoId
               /\ restorePc' = "cleanup_config_map" => restoreJob'.phase = Absent
  BY <1>1 DEF RestoreKnows
<1>3. CASE GetBackup
  <2>1. resolve_backup_id(restore.ref) # NoId => Available(resolve_backup_id(restore.ref))
    BY <1>0 DEF resolve_backup_id, RestoreKnows
  <2>2. /\ source'.id = resolve_backup_id(restore.ref) /\ source'.id # NoId
        /\ UNCHANGED <<restore, restoreJob>> /\ restorePc' = "config_map"
    BY <1>3 DEF GetBackup
  <2> QED
    BY <1>0, <2>1, <2>2 DEF RestoreKnows
<1>4. CASE RestoreConfigMap \/ CreateRestoreJob
  BY <1>0, <1>4 DEF RestoreConfigMap, CreateRestoreJob, RestoreKnows
<1>5. CASE CleanupRestoreJobs
  BY <1>0, <1>5, Nothing DEF CleanupRestoreJobs, RestoreKnows
<1>6. CASE CleanupRestoreConfigMap
  BY <1>0, <1>6 DEF CleanupRestoreConfigMap, RestoreKnows, NoSource
<1>7. CASE AbortRestore
  BY <1>0, <1>7 DEF AbortRestore, RestoreKnows
<1>8. CASE UserCreatesRestore
  <2>1. restore'.ref = Latest \/ Available(restore'.ref)
    BY <1>0, <1>8 DEF UserCreatesRestore, StoredByRun, Available
  <2> QED
    BY <1>0, <1>8, <2>1 DEF UserCreatesRestore, RestoreKnows
<1>9. CASE UserDeletesRestore
  <2>1. restore'.ref = restore.ref
    BY <1>0, <1>9 DEF UserDeletesRestore, TypeOK
  <2> QED
    BY <1>0, <1>9, <2>1 DEF UserDeletesRestore, RestoreKnows
<1>10. CASE RestorePodStarts \/ RestoreEnds
  <2>1. restoreJob.phase # Absent /\ UNCHANGED <<restore, restorePc, source>>
    BY <1>10 DEF RestorePodStarts, RestoreEnds, Absent
  <2> QED
    BY <1>0, <2>1 DEF RestoreKnows
<1>11. CASE UNCHANGED restoreSide
  BY <1>0, <1>11 DEF RestoreKnows, restoreSide
<1>12. CASE ~ (ReconcileRestore \/ AbortRestore \/ RestorePodStarts \/ RestoreEnds
               \/ UserCreatesRestore \/ UserDeletesRestore)
  <2>1. UNCHANGED restoreSide
    BY <1>12
    DEF Next, ReconcileBackup, StartReconcile, CreateOrUpdateConfigMap, ApplyCronJob,
        CheckJobCompletion, ApplyRetentionPolicy, PruneBackup, PatchBackupHistory,
        AbortBackup, UserEditsSpec, CronFires, BackupPodStarts, BackupPodFails, BackupEnds,
        vars, restoreSide
  <2> QED
    BY <1>11, <2>1
<1> QED
  BY <1>3, <1>4, <1>5, <1>6, <1>7, <1>8, <1>9, <1>10, <1>12 DEF ReconcileRestore

\* AvailableInv is inductive.
LEMMA AvailableStep ==
  ASSUME RetentionByRun, AvailableInv, [Next]_vars
  PROVE  AvailableInv'
<1>0. OwnInv /\ TypeInv /\ StoredByRun /\ SucceededIsAvailable
  BY DEF AvailableInv, OwnInv
<1>1. /\ OwnInv' /\ StoredByRun' /\ (Source \in Plain => RestoreKnows')
      /\ \A b \in Plain : StatusKnows(b)'
  BY <1>0, OwnStep, StoredByRunStep, StatusStep, RestoreKnowsStep
<1>2. ASSUME NEW b \in Plain, NEW k \in Runs, jobs'[k].of = b, jobs'[k].phase = "succeeded"
      PROVE  Available(<<b, k>>)'
  <2>1. <<b, k>> \in RunIds
    BY DEF RunIds, Plain
  <2>2. CASE jobs[k].of = b /\ jobs[k].phase = "succeeded"
    BY <1>0, <2>1, <2>2, AvailableStays DEF SucceededIsAvailable
  <2>3. CASE <<b, k>> \in Stored'
    BY <2>1, <2>3 DEF Available
  <2> QED
    BY <1>0, <1>2, <2>2, <2>3, SuccessIsStored
<1>3. SucceededIsAvailable'
  BY <1>2 DEF SucceededIsAvailable
<1> QED
  BY <1>1, <1>3 DEF AvailableInv

\* AvailableInv holds at the start.
LEMMA AvailableInit == Init => AvailableInv
<1>1. Init => OwnInv
  BY OwnInit
<1>2. Init => StoredByRun /\ SucceededIsAvailable
  BY Nothing DEF Init, StoredByRun, Stored, SucceededIsAvailable, Absent
<1>3. Init => \A b \in Plain : StatusKnows(b)
  BY DEF Init, StatusKnows, Plain
<1>4. Init => RestoreKnows
  BY Nothing DEF Init, RestoreKnows, NoSource
<1> QED
  BY <1>1, <1>2, <1>3, <1>4 DEF AvailableInv

\* For any policy, any number of resources with and without retention whatever their
\* names, runs and faults: a backup is deleted only when, at that moment, it has passed
\* the limits of a resource it belongs to - although retention decides from lists that
\* are older, that others have pruned from meanwhile and that overlap when a name starts
\* with another.  (The backups of incremental resources are left out: a history calls
\* them by names they are not stored under.)
THEOREM PruningIsJustified ==
  ASSUME RetentionByRun
  PROVE  Spec => PrunesOnlySuperseded
<1> DEFINE Prunes == \A i \in Ids : store[i] # 0 /\ store'[i] = 0 => Superseded(i)
<1>1. AvailableInv /\ [Next]_vars => AvailableInv'
  BY AvailableStep
<1>2. AvailableInv /\ [Next]_vars => Prunes
  <2> SUFFICES ASSUME AvailableInv, [Next]_vars, NEW i \in Ids, store[i] # 0, store'[i] = 0
               PROVE  Superseded(i)
    OBVIOUS
  <2>1. PICK b \in Backups : PruneBackup(b) /\ i \in toPrune[b]
    BY OnlyPruningDeletes DEF AvailableInv, OwnInv
  <2>2. b \in Plain
    BY <2>1 DEF AvailableInv, OwnInv, PruneBackup, RetentionByRun, Plain
  <2> QED
    BY <2>1, <2>2 DEF AvailableInv, StatusKnows
<1> QED
  BY <1>1, <1>2, AvailableInit, PTL DEF Spec, PrunesOnlySuperseded, Prunes

\* While the Job of a restore is there, the backup the restore was pointed at - by its
\* id or as the latest - is stored, or has passed the limits of a resource it belongs to:
\* for any policy, any names, any number of resources, runs and faults, and a source that
\* is not incremental.
THEOREM RestoreFindsItsSource ==
  ASSUME RetentionByRun, Source \notin Incremental
  PROVE  Spec => []RestoreSourceStored
<1>1. AvailableInv /\ [Next]_vars => AvailableInv'
  BY AvailableStep
<1>2. AvailableInv => RestoreSourceStored
  <2>1. Source \in Plain
    BY NamespaceConstants DEF Plain
  <2> QED
    BY <2>1 DEF AvailableInv, RestoreKnows, RestoreSourceStored, Available, Absent
<1> QED
  BY <1>1, <1>2, AvailableInit, PTL DEF Spec
=============================================================================
