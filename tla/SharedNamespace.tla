--------------------------- MODULE SharedNamespace ---------------------------
(***************************************************************************)
(* Several scheduled KafkaBackups and a KafkaRestore in one namespace, on  *)
(* one object storage: what the two controllers do to each other.          *)
(*                                                                         *)
(* They meet in three places.  The ConfigMap <name>-config is written by   *)
(* the reconciler of either kind and read by a pod that starts later.  The *)
(* status of a KafkaBackup, written by its own reconciler, tells a restore *)
(* which backup is the latest.  The storage is filled by the backup Jobs,  *)
(* pruned by the retention of every resource whose name fits a backup id,  *)
(* and read by the restore Job.                                            *)
(*                                                                         *)
(* The runs of all resources are numbered in the order they start in, so a *)
(* number is a start time as well.  <<b, k>> is the backup id that is the  *)
(* name of Job k of resource b, and <<b, 0>> the id that is b's own name.  *)
(***************************************************************************)
EXTENDS Integers, FiniteSets, FiniteSetsExt, JobState, RetentionPolicy

CONSTANTS
  Backups,       \* names of the KafkaBackups
  Incremental,   \* those with offsetStorage that are not continuous
  Retained,      \* those with spec.retention and pruneOnSchedule
  Prefixed,      \* <<a, b>> when the name b is a's name, a dash and something more
  RestoreName,   \* name of the KafkaRestore, maybe one of Backups
  Source,        \* its backupRef.name
  Edited,        \* those whose spec the user edits
  MaxRuns,       \* bound: Jobs the CronJobs create
  MaxGeneration, \* bound: spec generations of a KafkaBackup
  LateEdits      \* bound: whether one is edited after a Job of it has ended, too

ASSUME NamespaceConstants ==
  /\ Incremental \subseteq Backups /\ Retained \subseteq Backups
  /\ Edited \subseteq Backups
  /\ Prefixed \subseteq Backups \X Backups
  /\ Source \in Backups
  /\ MaxRuns \in Nat /\ MaxGeneration \in Nat \ {0} /\ LateEdits \in BOOLEAN
  /\ IsFiniteSet(Backups)

\* Of names: a prefix of a prefix is one, and of two prefixes one is a prefix of the other.
ASSUME PrefixesAreNested ==
  /\ \A a, b, c \in Backups : <<a, b>> \in Prefixed /\ <<b, c>> \in Prefixed =>
       <<a, c>> \in Prefixed
  /\ \A a, b, c \in Backups : <<a, c>> \in Prefixed /\ <<b, c>> \in Prefixed =>
       a = b \/ <<a, b>> \in Prefixed \/ <<b, a>> \in Prefixed

VARIABLES
  generation,  \* metadata.generation of each KafkaBackup
  cronJob,     \* generation each CronJob was applied from, 0 if there is none
  configMap,   \* content of <name>-config
  jobs,        \* the Job of each run
  store,       \* created_at of the manifest of each backup id, 0 if it is not stored
  lastBackup,  \* id of status.lastBackup of each KafkaBackup
  history,     \* status.backupHistory of each: ids and start times
  pc,          \* the call its reconciliation is about to make
  snap,        \* the generation its reconciliation was given
  merged,      \* the history apply_retention_policy works on
  toPrune,     \* the ids it has yet to prune
  restore,     \* the KafkaRestore
  restorePc,   \* the call its reconciliation is about to make
  source,      \* what that reconciliation took from the source KafkaBackup
  restoreJob   \* the Job it created

backupSide == <<generation, cronJob, lastBackup, history, pc, snap, merged, toPrune>>
restoreSide == <<restore, restorePc, source, restoreJob>>
vars == <<generation, cronJob, configMap, jobs, store, lastBackup, history, pc, snap,
          merged, toPrune, restore, restorePc, source, restoreJob>>

Names == Backups \cup {RestoreName}
Runs == 1..MaxRuns
Generations == 1..MaxGeneration
Ids == Backups \X (0..MaxRuns)
NoId == <<"none", 0>>
Latest == <<"latest", 0>>

Entries == [id : Ids, start : Runs]

\* A ConfigMap: the file in it, the kind it configures, the generation of the
\* KafkaBackup it was made from and, for a restore, the backup id.
Configs == [file : {"backup.yaml", "restore.yaml"}, kind : {"backup", "restore"},
            generation : Generations, id : Ids \cup {NoId}]
NoConfig == [file |-> "none", kind |-> "none", generation |-> 0, id |-> NoId]

\* A Job: whose it is, the generation of the KafkaBackup its pod template was made
\* from and the configuration its running pod has read.
NoJob == [of |-> "none", phase |-> Absent, generation |-> 0, read |-> NoConfig]

NoSource == [id |-> NoId, generation |-> 0]

RunsOf(b) == {k \in Runs : jobs[k].phase # Absent /\ jobs[k].of = b}

Terminal(b) == {k \in RunsOf(b) : job_succeeded(jobs[k].phase) \/ job_failed(jobs[k].phase)}

Stored == {i \in Ids : store[i] # 0}

Init ==
  /\ generation = [b \in Backups |-> 1] /\ cronJob = [b \in Backups |-> 0]
  /\ configMap = [n \in Names |-> NoConfig]
  /\ jobs = [k \in Runs |-> NoJob]
  /\ store = [i \in Ids |-> 0]
  /\ lastBackup = [b \in Backups |-> NoId] /\ history = [b \in Backups |-> {}]
  /\ pc = [b \in Backups |-> "idle"] /\ snap = [b \in Backups |-> 0]
  /\ merged = [b \in Backups |-> {}] /\ toPrune = [b \in Backups |-> {}]
  /\ restore = [phase |-> "none", ref |-> NoId] /\ restorePc = "idle"
  /\ source = NoSource /\ restoreJob = NoJob

-----------------------------------------------------------------------------
(***************************************************************************)
(* The reconciler of KafkaBackup b, whose spec has a schedule.             *)
(***************************************************************************)
\* Mutant: one file name for both kinds.
OneConfigFile(kind) == "backup.yaml"

\* The key of the ConfigMap, which is the file the container is started with.
ConfigFile(kind) == IF kind = "backup" THEN "backup.yaml" ELSE "restore.yaml"

StartReconcile(b) ==
  /\ pc[b] = "idle"
  /\ pc' = [pc EXCEPT ![b] = "config_map"]
  /\ snap' = [snap EXCEPT ![b] = generation[b]]
  /\ UNCHANGED <<generation, cronJob, configMap, jobs, store, lastBackup, history,
                 merged, toPrune, restoreSide>>

\* Server-side apply under the field manager that both reconcilers use: what the
\* manager applied before and does not apply now, the other kind's key included, is
\* removed.
CreateOrUpdateConfigMap(b) ==
  /\ pc[b] = "config_map"
  /\ configMap' = [configMap EXCEPT ![b] =
       [file |-> ConfigFile("backup"), kind |-> "backup",
        generation |-> snap[b], id |-> NoId]]
  /\ pc' = [pc EXCEPT ![b] = "cron_job"]
  /\ UNCHANGED <<generation, cronJob, jobs, store, lastBackup, history, snap, merged,
                 toPrune, restoreSide>>

ApplyCronJob(b) ==
  /\ pc[b] = "cron_job"
  /\ cronJob' = [cronJob EXCEPT ![b] = snap[b]]
  /\ pc' = [pc EXCEPT ![b] = "completion"]
  /\ UNCHANGED <<generation, configMap, jobs, store, lastBackup, history, snap, merged,
                 toPrune, restoreSide>>

\* upsert_history_entry: an entry replaces the one with its id.
Upsert(h, e) == {x \in h : x.id # e.id} \cup {e}

\* merge_backup_history.
Merge(h, discovered) ==
  {x \in h : \A e \in discovered : e.id # x.id} \cup discovered

\* The end of a pass over b, early or not.
Return(b) ==
  /\ pc' = [pc EXCEPT ![b] = "idle"]
  /\ snap' = [snap EXCEPT ![b] = 0]
  /\ merged' = [merged EXCEPT ![b] = {}]
  /\ toPrune' = [toPrune EXCEPT ![b] = {}]

\* Mutant: a failed Job is recorded as well.
CheckAnyCompletion(b) ==
  /\ pc[b] = "completion"
  /\ LET k == Max(Terminal(b))
     IN IF Terminal(b) # {} /\ lastBackup[b] # <<b, k>>
        THEN /\ lastBackup' = [lastBackup EXCEPT ![b] = <<b, k>>]
             /\ history' = [history EXCEPT
                  ![b] = Upsert(@, [id |-> <<b, k>>, start |-> k])]
        ELSE UNCHANGED <<lastBackup, history>>
  /\ IF b \in Retained
     THEN pc' = [pc EXCEPT ![b] = "retention"] /\ UNCHANGED <<snap, merged, toPrune>>
     ELSE Return(b)
  /\ UNCHANGED <<generation, cronJob, configMap, jobs, store, restoreSide>>

\* The latest terminal Job, if it succeeded and is not recorded yet, under its own
\* name; only this reconciler writes the status.  Without spec.retention the pass ends here.
CheckJobCompletion(b) ==
  /\ pc[b] = "completion"
  /\ LET k == Max(Terminal(b))
     IN IF Terminal(b) # {} /\ job_succeeded(jobs[k].phase) /\ lastBackup[b] # <<b, k>>
        THEN /\ lastBackup' = [lastBackup EXCEPT ![b] = <<b, k>>]
             /\ history' = [history EXCEPT
                  ![b] = Upsert(@, [id |-> <<b, k>>, start |-> k])]
        ELSE UNCHANGED <<lastBackup, history>>
  /\ IF b \in Retained
     THEN pc' = [pc EXCEPT ![b] = "retention"] /\ UNCHANGED <<snap, merged, toPrune>>
     ELSE Return(b)
  /\ UNCHANGED <<generation, cronJob, configMap, jobs, store, restoreSide>>

backup_id_belongs_to_cr(id, b) == id[1] = b \/ <<b, id[1]>> \in Prefixed

\* Mutant: the creation time of a manifest is lost.
DiscoveredUndated(b) ==
  {[id |-> i, start |-> 0] : i \in {i \in Stored : backup_id_belongs_to_cr(i, b)}}

\* discover_backup_history, whose entries start when the manifest was created.
Discovered(b) ==
  {[id |-> i, start |-> store[i]] : i \in {i \in Stored : backup_id_belongs_to_cr(i, b)}}

\* Names of the running Jobs, and the name of an incremental or continuous resource
\* that has one.  (A continuous resource is not told apart from others here.)
active_backup_ids(b) ==
  LET running == {k \in RunsOf(b) : jobs[k].phase = "active"}
  IN {<<b, k>> : k \in running}
       \cup (IF running # {} /\ b \in Incremental THEN {<<b, 0>>} ELSE {})

\* The time, which passes when a Job starts.
Now == Max({1} \cup {k \in Runs : jobs[k] # NoJob})

\* Discovery, the list of Jobs and the evaluation; Retention takes them one by one.
ApplyRetentionPolicy(b) ==
  /\ pc[b] = "retention"
  /\ LET h == Merge(history[b], Discovered(b))
         ids == {e.id : e \in h}
         start == [i \in ids |-> (CHOOSE e \in h : e.id = i).start]
     IN /\ merged' = [merged EXCEPT ![b] = h]
        /\ toPrune' = [toPrune EXCEPT
             ![b] = evaluate_retention(ids, start, Now) \ active_backup_ids(b)]
  /\ pc' = [pc EXCEPT ![b] = "prune"]
  /\ UNCHANGED <<generation, cronJob, configMap, jobs, store, lastBackup, history, snap,
                 restoreSide>>

\* prune_backup_ids, one backup at a time.
PruneBackup(b) ==
  /\ pc[b] = "prune"
  /\ \E i \in toPrune[b] :
       /\ store' = [store EXCEPT ![i] = 0]
       /\ toPrune' = [toPrune EXCEPT ![b] = @ \ {i}]
       /\ merged' = [merged EXCEPT ![b] = {e \in @ : e.id # i}]
  /\ UNCHANGED <<generation, cronJob, configMap, jobs, lastBackup, history, pc, snap,
                 restoreSide>>

PatchBackupHistory(b) ==
  /\ pc[b] = "prune" /\ toPrune[b] = {}
  /\ history' = [history EXCEPT ![b] = merged[b]]
  /\ Return(b)
  /\ UNCHANGED <<generation, cronJob, configMap, jobs, store, lastBackup, restoreSide>>

ReconcileBackup(b) ==
  \/ StartReconcile(b) \/ CreateOrUpdateConfigMap(b) \/ ApplyCronJob(b)
  \/ CheckJobCompletion(b) \/ ApplyRetentionPolicy(b) \/ PruneBackup(b)
  \/ PatchBackupHistory(b)

\* A call fails or the process restarts, any number of times.
AbortBackup(b) ==
  /\ pc[b] # "idle"
  /\ Return(b)
  /\ UNCHANGED <<generation, cronJob, configMap, jobs, store, lastBackup, history,
                 restoreSide>>

-----------------------------------------------------------------------------
(***************************************************************************)
(* The reconciler of the KafkaRestore, until its Job is there.             *)
(***************************************************************************)
\* Mutant: the newest Job of the source is the latest backup, whatever came of it.
ResolveNewestJob(ref) ==
  IF ref # Latest THEN ref
  ELSE IF RunsOf(Source) = {} THEN NoId ELSE <<Source, Max(RunsOf(Source))>>

\* backupRef.backupId, or else status.lastBackup.id of the source.
resolve_backup_id(ref) == IF ref # Latest THEN ref ELSE lastBackup[Source]

\* Reads the source KafkaBackup; without an id the configuration is refused and the
\* pass ends as it began.
GetBackup ==
  /\ restore.phase = "live" /\ restorePc = "idle" /\ restoreJob.phase = Absent
  /\ resolve_backup_id(restore.ref) # NoId
  /\ source' = [id |-> resolve_backup_id(restore.ref), generation |-> generation[Source]]
  /\ restorePc' = "config_map"
  /\ UNCHANGED <<backupSide, configMap, jobs, store, restore, restoreJob>>

RestoreConfigMap ==
  /\ restorePc = "config_map"
  /\ configMap' = [configMap EXCEPT ![RestoreName] =
       [file |-> ConfigFile("restore"), kind |-> "restore",
        generation |-> source.generation, id |-> source.id]]
  /\ restorePc' = "create_job"
  /\ UNCHANGED <<backupSide, jobs, store, restore, source, restoreJob>>

\* The pod of the Job gets the storage credentials of the source as it was read.
CreateRestoreJob ==
  /\ restorePc = "create_job"
  /\ restoreJob' = [NoJob EXCEPT !.of = RestoreName, !.phase = "pending",
                                 !.generation = source.generation]
  /\ restorePc' = "idle"
  /\ UNCHANGED <<backupSide, configMap, jobs, store, restore, source>>

\* handle_cleanup: the Jobs, then <name>-config whoever wrote it.  (A restore deleted
\* before it got its finalizer is not told apart.)
CleanupRestoreJobs ==
  /\ restore.phase = "deleting" /\ restorePc = "idle"
  /\ restoreJob' = NoJob
  /\ restorePc' = "cleanup_config_map"
  /\ UNCHANGED <<backupSide, configMap, jobs, store, restore, source>>

CleanupRestoreConfigMap ==
  /\ restorePc = "cleanup_config_map"
  /\ configMap' = [configMap EXCEPT ![RestoreName] = NoConfig]
  /\ restore' = [phase |-> "gone", ref |-> NoId] /\ source' = NoSource
  /\ restorePc' = "idle"
  /\ UNCHANGED <<backupSide, jobs, store, restoreJob>>

ReconcileRestore ==
  \/ GetBackup \/ RestoreConfigMap \/ CreateRestoreJob
  \/ CleanupRestoreJobs \/ CleanupRestoreConfigMap

AbortRestore ==
  /\ restorePc # "idle"
  /\ restorePc' = "idle"
  /\ UNCHANGED <<backupSide, configMap, jobs, store, restore, source, restoreJob>>

-----------------------------------------------------------------------------
(***************************************************************************)
(* The user, the CronJobs and the pods.                                    *)
(***************************************************************************)
UserEditsSpec(b) ==
  /\ b \in Edited /\ generation[b] < MaxGeneration
  /\ LateEdits \/ Terminal(b) = {}
  /\ generation' = [generation EXCEPT ![b] = @ + 1]
  /\ UNCHANGED <<cronJob, configMap, jobs, store, lastBackup, history, pc, snap, merged,
                 toPrune, restoreSide>>

\* With the id of a stored backup of the source, or without one.
UserCreatesRestore ==
  /\ restore.phase = "none"
  /\ \E ref \in {Latest} \cup {i \in Stored : i[1] = Source} :
       restore' = [phase |-> "live", ref |-> ref]
  /\ UNCHANGED <<backupSide, configMap, jobs, store, restorePc, source, restoreJob>>

UserDeletesRestore ==
  /\ restore.phase = "live"
  /\ restore' = [restore EXCEPT !.phase = "deleting"]
  /\ UNCHANGED <<backupSide, configMap, jobs, store, restorePc, source, restoreJob>>

\* concurrencyPolicy: Forbid.
CronFires(b) ==
  /\ cronJob[b] # 0 /\ RunsOf(b) = Terminal(b)
  /\ \E k \in Runs :
       /\ jobs[k] = NoJob /\ \A l \in 1..(k - 1) : jobs[l] # NoJob
       /\ jobs' = [jobs EXCEPT ![k] = [NoJob EXCEPT !.of = b, !.phase = "pending",
                                                    !.generation = cronJob[b]]]
  /\ UNCHANGED <<backupSide, configMap, store, restoreSide>>

\* A pod waits for the ConfigMap it mounts.  It runs if its file is there; otherwise
\* the container fails, and with the last attempt the Job.
PodStarts(job, kind) ==
  LET mounted == configMap[job.of]
  IN IF mounted.file = ConfigFile(kind)
     THEN [job EXCEPT !.phase = "active", !.read = mounted]
     ELSE [job EXCEPT !.phase = "failed"]

BackupPodStarts(k) ==
  /\ jobs[k].phase = "pending" /\ configMap[jobs[k].of] # NoConfig
  /\ jobs' = [jobs EXCEPT ![k] = PodStarts(@, "backup")]
  /\ UNCHANGED <<backupSide, configMap, store, restoreSide>>

\* The pod fails and backoffLimit allows another.
BackupPodFails(k) ==
  /\ jobs[k].phase = "active"
  /\ jobs' = [jobs EXCEPT ![k].phase = "pending", ![k].read = NoConfig]
  /\ UNCHANGED <<backupSide, configMap, store, restoreSide>>

\* The backup id of the generated configuration: BACKUP_ID is the Job's name.
backup_id(b, k) == IF b \in Incremental THEN <<b, 0>> ELSE <<b, k>>

\* kafka-backup stores a manifest, also when it fails after that.  A manifest that is
\* merged into the stored one keeps created_at or renews it: both are allowed for.
BackupEnds(k) ==
  LET i == backup_id(jobs[k].of, k)
  IN /\ jobs[k].phase = "active"
     /\ \E phase \in {"succeeded", "failed"} :
          /\ jobs' = [jobs EXCEPT ![k].phase = phase, ![k].read = NoConfig]
          /\ \/ store' \in {[store EXCEPT ![i] = t] : t \in {k, store[i]} \ {0}}
             \/ phase = "failed" /\ UNCHANGED store
     /\ UNCHANGED <<backupSide, configMap, restoreSide>>

RestorePodStarts ==
  /\ restoreJob.phase = "pending" /\ configMap[RestoreName] # NoConfig
  /\ restoreJob' = PodStarts(restoreJob, "restore")
  /\ UNCHANGED <<backupSide, configMap, jobs, store, restore, restorePc, source>>

\* A restore whose backup is not in the storage fails; another may fail.
RestoreEnds ==
  /\ restoreJob.phase = "active"
  /\ \E phase \in {"succeeded", "failed"} :
       /\ phase = "succeeded" => restoreJob.read.id \in Stored
       /\ restoreJob' = [restoreJob EXCEPT !.phase = phase, !.read = NoConfig]
  /\ UNCHANGED <<backupSide, configMap, jobs, store, restore, restorePc, source>>

Next ==
  \/ \E b \in Backups : \/ ReconcileBackup(b) \/ AbortBackup(b)
                        \/ UserEditsSpec(b) \/ CronFires(b)
  \/ ReconcileRestore \/ AbortRestore \/ UserCreatesRestore \/ UserDeletesRestore
  \/ \E k \in Runs : BackupPodStarts(k) \/ BackupPodFails(k) \/ BackupEnds(k)
  \/ RestorePodStarts \/ RestoreEnds

Spec == Init /\ [][Next]_vars

-----------------------------------------------------------------------------
Jobs == [of : Names \cup {"none"}, phase : Phases \cup {Absent},
         generation : 0..MaxGeneration, read : Configs \cup {NoConfig}]

\* The types of all variables.
TypeOK ==
  /\ generation \in [Backups -> Generations]
  /\ cronJob \in [Backups -> 0..MaxGeneration]
  /\ configMap \in [Names -> Configs \cup {NoConfig}]
  /\ jobs \in [Runs -> Jobs] /\ restoreJob \in Jobs
  /\ store \in [Ids -> 0..MaxRuns]
  /\ lastBackup \in [Backups -> Ids \cup {NoId}]
  /\ \A b \in Backups : history[b] \subseteq Entries /\ merged[b] \subseteq Entries
  /\ pc \in [Backups -> {"idle", "config_map", "cron_job", "completion", "retention",
                         "prune"}]
  /\ snap \in [Backups -> 0..MaxGeneration]
  /\ toPrune \in [Backups -> SUBSET Ids]
  /\ restore \in [phase : {"none", "live", "deleting", "gone"},
                  ref : Ids \cup {NoId, Latest}]
  /\ restorePc \in {"idle", "config_map", "create_job", "cleanup_config_map"}
  /\ source \in [id : Ids \cup {NoId}, generation : 0..MaxGeneration]

\* Start time of a backup that is stored or named after its Job.
StartOf(i) == IF i[2] # 0 THEN i[2] ELSE store[i]

\* The limits of retention, of resource c: as many newer backups that belong to c are
\* stored as it keeps, or backup i has passed maxAge.
NewerStored(c, i) ==
  {l \in Stored : backup_id_belongs_to_cr(l, c) /\ StartOf(l) > StartOf(i)}

TooMany(c, i) ==
  MaxBackups # Unset /\ MaxBackups >= 0 /\ Cardinality(NewerStored(c, i)) >= MaxBackups

TooOld(i) == MaxAge # Unset /\ StartOf(i) < Now - MaxAge

Superseded(i) ==
  \E c \in Retained : backup_id_belongs_to_cr(i, c) /\ (TooMany(c, i) \/ TooOld(i))

\* "Specific backup ID to restore from (latest if omitted)": from the moment its Job
\* is created to the end of the Job, the backup a restore was pointed at is in the
\* storage, unless it has passed the limits of a retention it is subject to.
RestoreSourceStored ==
  restoreJob.phase \in {"pending", "active"} =>
    source.id \in Stored \/ Superseded(source.id)

\* A backup is deleted only when it has passed the limits of a resource it belongs to by
\* its name at that very moment: maxBackups newer ones are really in the storage, or it
\* is too old.  The lists this is decided from are older than the deletion, name backups
\* that others have pruned meanwhile, and overlap: the retention of `daily` works on the
\* backups of `daily-weekly` as well (and deletes them: ids start with names, and a
\* backup belongs to every resource whose name its id starts with).
PrunesOnlySuperseded ==
  [][\A i \in Ids : store[i] # 0 /\ store'[i] = 0 => Superseded(i)]_vars

\* A pod runs on the configuration of its own resource, even when a namesake of the
\* other kind writes the same ConfigMap.  A backup's is at least as new as the Job, so
\* that what it mounts is explained by it; a restore's was made from the same reading
\* of the source as the Job.
PodReadsOwnConfig ==
  /\ \A k \in Runs : jobs[k].read # NoConfig =>
       /\ jobs[k].read.kind = "backup"
       /\ jobs[k].read.generation >= jobs[k].generation
  /\ restoreJob.read # NoConfig =>
       /\ restoreJob.read.kind = "restore"
       /\ restoreJob.read.generation = restoreJob.generation
       /\ restoreJob.read.id = source.id

-----------------------------------------------------------------------------
(***************************************************************************)
(* What makes the properties inductive.                                    *)
(***************************************************************************)
\* A reconciliation has read a generation before it uses one, and a Job is of a resource.
TypeInv ==
  /\ TypeOK
  /\ history \in [Backups -> SUBSET Entries] /\ merged \in [Backups -> SUBSET Entries]
  /\ \A b \in Backups : pc[b] # "idle" => snap[b] # 0
  /\ restorePc = "config_map" => source.generation # 0
  /\ \A k \in Runs : jobs[k].phase # Absent => jobs[k].of \in Backups
  /\ restoreJob.phase # Absent => restoreJob.of = RestoreName

\* The ConfigMap of a KafkaBackup, while it is that of the backup, is never behind the
\* CronJob, and the CronJob never ahead of the generation being applied.
ConfigIsCurrent ==
  \A b \in Backups :
    /\ cronJob[b] <= generation[b] /\ snap[b] <= generation[b]
    /\ pc[b] # "idle" => cronJob[b] <= snap[b]
    /\ configMap[b].kind = "backup" =>
         /\ cronJob[b] <= configMap[b].generation
         /\ pc[b] = "cron_job" => snap[b] <= configMap[b].generation

FileFitsKind ==
  \A n \in Names : configMap[n].kind # "none" => configMap[n].file = ConfigFile(configMap[n].kind)

\* A Job was created from a CronJob that has only been brought up to date since.
JobFollowsCronJob ==
  \A k \in Runs : jobs[k].phase # Absent => jobs[k].generation <= cronJob[jobs[k].of]

\* The Job of the restore, the ConfigMap it wrote and the reading of the source they
\* were made from belong together.
RestoreIsConsistent ==
  /\ restorePc \in {"config_map", "cleanup_config_map"} => restoreJob = NoJob
  /\ restoreJob.phase = Absent => restoreJob = NoJob
  /\ restoreJob.phase # Absent => restoreJob.generation = source.generation
  /\ /\ restorePc = "create_job" \/ restoreJob.phase # Absent
     /\ configMap[RestoreName].kind = "restore"
     => /\ configMap[RestoreName].generation = source.generation
        /\ configMap[RestoreName].id = source.id

ConfigInv ==
  /\ TypeInv /\ ConfigIsCurrent /\ FileFitsKind /\ JobFollowsCronJob
  /\ RestoreIsConsistent /\ PodReadsOwnConfig

\* What a resource knows of and prunes belongs to it.
OwnInv ==
  /\ TypeInv
  /\ \A b \in Backups :
       /\ pc[b] \in {"retention", "prune"} => b \in Retained
       /\ pc[b] # "prune" => toPrune[b] = {}
       /\ \A e \in history[b] \cup merged[b] : backup_id_belongs_to_cr(e.id, b)
       /\ \A i \in toPrune[b] : backup_id_belongs_to_cr(i, b)

\* The resources, and the ids, whose backups are named after their Jobs.
Plain == Backups \ Incremental
RunIds == Backups \X Runs

Available(i) == i \in RunIds /\ (i \in Stored \/ Superseded(i))

\* Backups of such a resource are stored under the names of their Jobs.
StoredByRun == \A i \in Stored : i[1] \in Plain => i \in RunIds /\ store[i] = i[2]

\* Whatever still speaks of a backup - a status, a history being merged, a Job that
\* succeeded - speaks of one that is available, and what is to be pruned is superseded.
StatusKnows(b) ==
  /\ \A e \in history[b] \cup merged[b] : Available(e.id) /\ e.start = e.id[2]
  /\ lastBackup[b] = NoId \/ Available(lastBackup[b])
  /\ \A i \in toPrune[b] : i \in RunIds /\ Superseded(i)

SucceededIsAvailable ==
  \A k \in Runs : jobs[k].of \in Plain /\ jobs[k].phase = "succeeded" =>
    Available(<<jobs[k].of, k>>)

\* A restore speaks of one that is available, and under way it has one.
RestoreKnows ==
  /\ restore.ref \in {NoId, Latest} \/ Available(restore.ref)
  /\ source.id = NoId \/ Available(source.id)
  /\ restorePc \in {"config_map", "create_job"} \/ restoreJob.phase # Absent => source.id # NoId
  /\ restorePc = "cleanup_config_map" => restoreJob.phase = Absent

AvailableInv ==
  /\ OwnInv /\ StoredByRun /\ SucceededIsAvailable
  /\ \A b \in Plain : StatusKnows(b)
  /\ Source \in Plain => RestoreKnows
=============================================================================
