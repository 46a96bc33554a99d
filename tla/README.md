# Verification of the Strimzi backup operator

TLA+ models of the Kubernetes operator in `src/`, which turns `KafkaBackup` and
`KafkaRestore` resources into Jobs and CronJobs that run `kafka-backup` against a
Strimzi Kafka cluster. TLC checks the models on small instances; TLAPS proves the
central results for every value of the constants.

Contents: [the system](#the-system), [modules](#modules), [runs](#runs),
[proofs](#proofs), [departures](#where-the-code-departs-from-its-documentation),
[limits](#what-is-not-modelled), [plan](#plan).

## The system

The operator is one process with two controllers (`src/src/controllers/`). A
controller watches its custom resource and the Jobs it owns, keeps the resource
in a watch cache, and runs one reconciliation at a time per resource: on a watch
event, 300 s after a success, 30 s after an error. A reconciliation is given the
*cached* object once and then awaits one API call after another, while users, the
Job controller, the CronJob controller, the garbage collector and Strimzi go on.
Nothing is persisted by the operator itself: everything it must remember is in
the resource's status, in its annotations and finalizer, and in the Jobs.

| Component | State it keeps | Operations | What makes it correct |
|---|---|---|---|
| KafkaRestore reconciler (`reconcilers/restore.rs`) | finalizer and status of the resource, ConfigMap, one Job | `reconcile_restore`, `handle_cleanup`, the `update_status_*` | a restore runs once; its outcome is reported, and only its own; deletion and pause are honoured |
| KafkaBackup reconciler (`reconcilers/backup.rs`) | the same, CronJob, `lastBackup`, `backupHistory`, trigger annotation | `reconcile_backup`, `check_job_completion`, `apply_retention_policy`, `handle_cleanup` | no run nobody asked for, every outcome recorded once, the CronJob follows the schedule |
| Job classification (`jobs/job_state.rs`) | none | `classify_jobs` and the two creation gates | finished Jobs block re-creation |
| Conditions (`status/conditions.rs`) | none | constructors and queries | |
| Retention (`retention/policy.rs`, `retention/storage.rs`) | objects in the storage, `backupHistory` | discover, evaluate, prune | keeps the newest, spares what is being written, leaves nothing behind, survives a failure halfway |
| Listener selection (`strimzi/kafka_cr.rs`) | none; reads the Strimzi `Kafka` resource | `select_listener`, `bootstrap_for_listener` | the best listener that takes the credentials, and its own address |
| Strimzi resources and credentials (`strimzi/`) | none | version fallback, `resolve_kafka_cluster`, `resolve_auth` | a resource that exists is found |
| Generated configuration and pods (`adapters/`, `jobs/`) | ConfigMap and pod specification | builders | configuration, volumes and listener agree; pod and operator use the same storage credentials; a restore destroys nothing it was not asked to |
| Metrics, health, CRD generator, Helm chart | counters; none | | |

The two controllers meet in three places: the ConfigMap `<name>-config`, which the
reconcilers of both kinds write and a pod reads later; the status of a
`KafkaBackup`, which tells a restore which backup is the latest; and the object
storage, which the backup Jobs fill, the retention of every resource with a
fitting name prunes, and a restore Job reads.

What is hard here, and hardly reached by a unit test: a decision made on a stale
snapshot; a stop between two API calls; the name of a resource used again while
the old object's Jobs are still around; two writers of one list of conditions in
one pass; a deletion that fails halfway through a stored backup; status patches
that trigger the very watch that caused them. `PROJECT.json` lists these hazards
at the lines where they bite.

## Modules

| Module | Models | Extends |
|---|---|---|
| `JobState` | `jobs/job_state.rs` as operators over the phases of Jobs | |
| `Conditions` | `status/conditions.rs` and the condition queries of the reconcilers | |
| `RestoreReconciler` | the restore controller, Kubernetes around it and the user | `JobState`, `Conditions` |
| `OneShotRestore` | what the user of a `KafkaRestore` is promised: an abstract specification | |
| `RestoreRefinement` | the mapping under which the controller implements it | `RestoreReconciler` |
| `BackupReconciler` | the backup controller without retention, Kubernetes and the user | `JobState`, `Conditions` |
| `RetentionPolicy` | `retention/policy.rs` as operators over a set of backups with start times | |
| `Retention` | the last two steps of a backup reconciliation and the object storage | `JobState`, `RetentionPolicy` |
| `SharedNamespace` | several scheduled backups and a restore on one namespace and one storage: the composition of the two controllers, `Retention` and the pods | `JobState`, `RetentionPolicy` |
| `GeneratedConfig` | `adapters/`, `jobs/templates.rs` and the credentials of `retention/storage.rs` as operators | |
| `ListenerSelection` | listener choice over a Kafka resource that changes | `GeneratedConfig` |
| `StrimziResolution` | resolution of cluster and credentials, call by call, up to the configuration and the pod | `ListenerSelection` |
| `MC*` | the instances for TLC | |
| `RestoreProofs` | theorems about the restore controller | `RestoreReconciler` |
| `RefinementProofs` | the controller implements `OneShotRestore` | `RestoreRefinement`, `RestoreProofs` |
| `BackupProofs` | types, finalizer and pause of the backup controller | `BackupReconciler`, `SetLemmas` |
| `BackupRunProofs` | runs and records of the backup controller | `BackupProofs` |
| `RetentionProofs` | theorems about pruning | `Retention`, `SetLemmas` |
| `NamespaceProofs` | theorems about resources that share a namespace | `SharedNamespace`, `SetLemmas` |
| `StrimziProofs` | theorems about listeners, resolution, configuration and pod | `StrimziResolution`, `SetLemmas` |
| `SetLemmas` | least and largest elements, counts: lemmas the proofs share | |

**Correspondence.** In the reconciler modules `pc` names the API call the
reconciliation is about to make, `snap` is the object it was given and `cache` the
watch cache `snap` was taken from. Each API call is one action, named after the
function that makes it; what the code computes between two awaits belongs to the
action before it (`FirstCall`, `CallFor`, `AfterSchedule`...). `NotFound` is
the 404 of a call on an object that is gone; `Abort` is any other failed call and
a restart: both end the reconciliation, and the next one starts from the cache. An
operation addresses the object by name, so it hits whatever object has the name
then, not the one in `snap`. `handle_cleanup` ignores failures of its list and
its deletes (`CleanupErrors`), as the code does.

Job names carry the second of their creation, so in `RestoreReconciler` they are
clock values: a second create in the same second meets AlreadyExists. In
`BackupReconciler` the even numbers are the names the operator gives and the odd
ones those of the CronJob; their order is the order of start times. `lastTransition`
flips with every patch that writes new timestamps: a status that is at rest is one
where it no longer flips. History variables (`created`, `succeeded`, `runs`,
`requests`, `everActive`, `chosen`, `everAbsent`, `upgrades`) are read by
properties only.

In `Retention` a backup holds a manifest and segments. `prune_backup_ids` lists
the keys of an id once and deletes them in sorted order, the manifest first, one
storage call per action. A manifest may exist while the Job still writes
(continuous backups).

`SharedNamespace` keeps of each reconciler the calls that touch what is shared: the
ConfigMap, the CronJob, `lastBackup` and the history, the pruning, the read of the
source `KafkaBackup`, the restore Job and the cleanup. Runs are numbered in the
order they start in; `<<b, k>>` is the id that is the name of Job `k` of resource
`b`, and `<<b, 0>>` the id that is `b`'s own name, under which an incremental
backup is stored. A ConfigMap carries the generation it was made from, and so does
a Job, which is how a pod's configuration is compared with its template. A server-side
apply by the common field manager replaces what the other kind applied; a pod that
finds the ConfigMap without its file fails. Calls fail at any time, without bound.

`GeneratedConfig` keeps of a configuration the places in the pod it refers to, a
file or a variable, and the options that decide what is done to the target cluster;
of a pod, the places filled in it and the reference that fills each. The three
derivations of the storage credentials (configuration, pod, operator) are three
operators, compared over every combination of references. That kafka-backup takes a
key that is not configured from the shared credentials file is an assumption on an
external program (`PodCredential`).

**The refinement.** `OneShotRestore` has a request, whether it was started, its
outcome and what was reported of it. In `RestoreRefinement` the request is the object
under the name until it is marked for deletion, the start and the outcome are those of
the Jobs created for its uid (not of those with its name), and the report is what its
conditions say. Every step of the controller, the cluster and the user has to map to
a step of `OneShotRestore` or to none: a second Job, a report of another object's Job,
"running" after an outcome or an outcome before the Job has one would each be a step
that `OneShotRestore` does not have.

Operators whose comment begins with "Mutant" are variants of the definition that
follows, as a plausible mistake would have it. Each property of a passing run is
violated when the definition is replaced by one of them (`PROJECT.json`,
`mutants`); they are used for nothing else.

## Runs

All bounds are constants of the `.cfg` files.

| Run | Checks | Instance |
|---|---|---|
| `restore_safety` | `TypeOK`, `FinalizerGuardsJobs`, `CompletionIsGenuine`, `PausedFromBirthIsInert`, `OneJobPerRestore`, `RestoreInv`, `ImplementsOneShotRestore` | cache lag, two objects under one name, one pause toggle, one fault, two seconds |
| `restore_liveness` | `CompletedIsNotRerun`, `OutcomeReported`, `PauseIsTracked`, `DeletionCompletes`, `StatusSettles` | ignored cleanup errors, one deleted Job, one fault, one toggle, one spec edit, backup and cluster come and go |
| `restore_pause_rerun` | `CompletedIsNotRerun` is violated | two toggles and one deleted Job |
| `backup_requests` | `TypeOK`, `OneRunPerRequest`, `PausedFromBirthIsInert`, `RecordStays` | all three kinds of schedule, one trigger, one toggle, one fault, CronJob history limits |
| `backup_oneshot` | `FinalizerGuardsResources`, `OutcomeRecorded`, `TriggerConsumed`, `DeletionCompletes`, `StatusSettles` | no schedule; cache lag, one fault, one trigger, one toggle, two seconds |
| `backup_scheduled` | `CronJobFollowsSchedule`, `PauseIsTracked`, `ErrorClears` | active and suspended schedules, one edit, cluster and credentials come and go, anybody deletes Jobs |
| `backup_flapping` | `StatusSettles` is violated | an active schedule, one failed Job |
| `retention_prune` | `TypeOK`, `KeepsNewest`, `InProgressSpared`, `RecordedAreRemoved`, `HistoryMatchesStorage` | up to four backups, two Jobs at a time, `maxBackups` 2, `maxAge` 2, one fault |
| `retention_retry` | `InProgressSpared` is violated | a pod that fails and is retried |
| `strimzi_resolution` | `BestCompatibleListener`, `SelectionIsStable`, `ProtocolFitsListener`, `ConfigIsMounted`, `StorageAgrees`, `RestoreDoesWhatIsAsked`, `NotFoundIsGenuine` | up to three listeners, internal and external, names symmetric, inserted anywhere, removed, changed and reordered; a resolution with every authentication while one listener, the Kafka resource, the user with its type and the Strimzi release change and any call may fail; every storage and all restore options |
| `namespace_shared` | `TypeOK`, `PodReadsOwnConfig`, `RestoreSourceStored`, `PrunesOnlySuperseded` | two backups, one named with the other's name as a prefix, both with retention of one backup, a restore of the longer-named one that shares its name, two runs, one edit, any number of failed calls |
| `namespace_incremental` | `RestoreSourceStored` is violated | one incremental backup without retention, and a restore of the latest |

**Why the bounds are enough.** Two objects under one name are what it takes for a
left-over Job to meet a new object. Two seconds give two Job names, hence a second Job next to
the first; the same second used twice is the AlreadyExists case. One fault can
strike before, between and after any two calls, and an aborted reconciliation keeps
nothing in memory. With
four backups and limits of two, either limit can be the one that decides, and
there is a backup each side of it. Three listeners are two equal ones and a
better or worse one; what is said of a choice among them depends on nothing but the
listeners, so longer lists are only built while nothing else has changed
(`OnlyListeners`, `MaxResolved`). Of the listener types only the class counts, in-cluster
or not, so the run has one of each; ports matter to addresses only, so a second port is
used in the short lists at the beginning (`UsualPorts`). A resolution keeps nothing of the one before it, so
one is followed, from every state of the cluster; the cluster is frozen once nothing
of it is read any more (`Open`, `KafkaOpen`). Two runs and a limit of one backup are a backup
that is superseded while a restore reads it; two generations are a template and a
configuration of different ages, and edits after the first Job of a resource has ended
(`LateEdits`) bring nothing new to the pods and nothing to the storage. Jobs of one
resource run side by side when a trigger adds one to the CronJob's; two at a time
(`MaxParallel`) are one that is pruned and one that runs. For the safety properties the theorems remove these
bounds: they hold for any number of objects, seconds, faults, listeners, backups,
resources and runs.
The bounds matter for the liveness properties.

Where a property needs more room than the code gives it, the instance is narrower
and a hazard in `PROJECT.json` says so:

- All runs are for one operator replica: the program elects no leader, and with two
  replicas in `Replicas` a restore gets two Jobs. (The theorems on finalizer and pause
  hold for any number.)
- `ImplementsOneShotRestore` is run where `CompletionIsGenuine` is, for the same
  reasons, and without Jobs deleted from outside.
- `PrunesOnlySuperseded` counts a backup to every resource it belongs to by its name, as
  the code does, and so does not say that a resource prunes its own backups only; see
  below. Incremental backups under retention are left out: their histories hold ids
  under which nothing is stored, which push out the one that is. `RestoreSourceStored` is
  run without them for the same reason: a backup that gave way to an incremental one is
  missed when that is pushed out.
- `RestoreSourceStored` gives up when the backup has passed the limits of a resource it
  belongs to, by number or by `maxAge`: the code does not pin a backup for a
  restore. The run has a limit by number; the theorem has any policy.
- `CompletionIsGenuine` needs cleanup without errors and a name that is not
  reused before the operator has seen the deletion. Otherwise a Job that cleanup
  left behind can complete the new object before the garbage collector gets to it.
- `OneRunPerRequest` allows one run more for each fault: a stop between creating the
  triggered Job and removing the annotation lets the same trigger start another run
  once the first has finished. It runs without cache lag, as does `RecordStays`:
  the pause patch writes back `lastBackup` and the history of its snapshot.
- `CompletedIsNotRerun` runs without cache lag: with lag, deleting the finished Job
  before the operator has seen its own patch re-runs the restore.
- `OutOfNames` excludes from the backup liveness properties the behaviours whose
  bounded clock stops in a second whose name is taken; real clocks go on.

**Fairness.** `Reconcile` is weakly fair: the requeue always brings another
reconciliation, and an await that does not fail completes. `SyncCache` is weakly fair:
the watch delivers the latest version in the end. In `BackupReconciler` `Tick` is
weakly fair: time passes. Nothing is assumed of users, of dependencies, of how long
a Job takes or whether it ends. The premises of the liveness properties are of the
form "from some time on the user leaves the object alone".

Deadlock is not checked: when the bounds are used up and the operator has nothing to
do, or the one resolution that is followed has ended, the system rests.

## Proofs

Every theorem holds for all values of the constants its module's assumptions allow,
with the hypotheses given here. A hypothesis that is not in the code is one of the
narrower instances above: without it TLC finds a counterexample.

| Theorem | Property | Hypotheses |
|---|---|---|
| `RestoreProofs!TypeCorrect` | `TypeOK` | |
| `RestoreProofs!RestoreIsOneShot` | `OneJobPerRestore` | one replica, no Job deleted from outside |
| `RestoreProofs!FinalizerAlwaysGuards` | `FinalizerGuardsJobs` | no name reused unnoticed, or one replica |
| `RestoreProofs!PauseIsRespected` | `PausedFromBirthIsInert` | no name reused unnoticed |
| `RestoreProofs!CompletionsAreGenuine` | `CompletionIsGenuine` | one replica, no name reused unnoticed, cleanups succeed |
| `RestoreProofs!CompletedStaysCompleted` | `CompletedIsNotRerun` | one replica, current cache, at most one change of the pause annotation; no name reused unnoticed, or cleanups succeed |
| `RefinementProofs!RestoreInvariant`, `RestoreRefines` | `RestoreInv`, `ImplementsOneShotRestore` | those of `RestoreIsOneShot` and `CompletionsAreGenuine` |
| `BackupProofs!BackupTypeCorrect` | `TypeOK` | |
| `BackupProofs!BackupFinalizerGuards` | `FinalizerGuardsResources` | |
| `BackupProofs!BackupPauseIsRespected` | `PausedFromBirthIsInert` | |
| `BackupRunProofs!RunsAreRequested` | `OneRunPerRequest` | current cache, Jobs deleted by history limits only |
| `BackupRunProofs!RecordsStay` | `RecordStays` | current cache, Jobs deleted by history limits only |
| `RetentionProofs!RetentionTypeCorrect` | `TypeOK` | |
| `RetentionProofs!NewestAreKept` | `KeepsNewest` | |
| `RetentionProofs!RunningAreSpared` | `InProgressSpared` | no Job without a pod between two attempts |
| `NamespaceProofs!NamespaceTypeCorrect` | `TypeOK` | |
| `NamespaceProofs!PodsReadTheirOwn` | `PodReadsOwnConfig` | |
| `NamespaceProofs!PruningIsJustified` | `PrunesOnlySuperseded` | no resource with retention sees the backups of an incremental one |
| `NamespaceProofs!RestoreFindsItsSource` | `RestoreSourceStored` | the same, the source not incremental |
| `StrimziProofs!BestListenerIsChosen` | `BestCompatibleListener` | |
| `StrimziProofs!SelectionStays` | `SelectionIsStable` | |
| `StrimziProofs!ProtocolFits` | `ProtocolFitsListener` | |
| `StrimziProofs!ConfigurationIsMounted` | `ConfigIsMounted` | `certificateAndKey` names the keys Strimzi uses (and, in the property, the `KafkaUser` is of the type asked for) |
| `StrimziProofs!AbsenceIsGenuine` | `NotFoundIsGenuine` | |
| `StrimziProofs!OperatorPrunesWithTheSameCredentials` | `StorageAgrees` | |
| `StrimziProofs!RestoreFollowsItsOptions` | `RestoreDoesWhatIsAsked` | |

"Unnoticed" is `PromptRecreate = FALSE`: the name is not used again before the operator
is idle and has seen that the object is gone. The counterexamples that show less known
hypotheses to be needed are

- for `CompletionIsGenuine`, two replicas: one creates the Job after the other has listed
  the Jobs to clean up; it outlives its object and completes the next of the name;
- for `FinalizerGuardsJobs`, two replicas and `PromptRecreate`: both clean up the same
  object, and the slower one takes the finalizer from the object that the faster one has
  begun to work for. One replica alone cannot, hence the disjunction;
- for `PausedFromBirthIsInert`, `PromptRecreate` with one replica: a reconciliation that began
  for an object that was not paused adds its finalizer to the paused one that took its
  place;
- for `CompletedIsNotRerun`, `PromptRecreate` and `CleanupErrors` with three objects of the
  name: a reconciliation begun for the second takes the Job an ignored error left of the
  first for the completion of the third, which is paused; when it is resumed it runs.
  (`restore_liveness` has both constants TRUE and one object.)

A proof has one step per action. A lemma per invariant covers the steps that change
nothing the invariant reads; the actions that matter have lemmas of their own. Each
inductive invariant was checked with TLC on the instance of its run before it was proved.

### Restores

**`OneJobInv`, for `OneJobPerRestore`.** The property counts creations and says nothing
of what the operator knows, so it is not inductive. `OneJobInv` adds

- `SnapshotsAge`: snapshot, cache and object are ordered in age (uid, then
  deletion mark), because a snapshot comes from the cache and the cache from the
  API server;
- `CleanupIsForDeleted`: only a snapshot marked for deletion is cleaned up, so
  cleanup does not take away the Job of an object that stays;
- `JobsAge`: no Job was created for an object newer than the snapshot, so a
  `create_job` for the snapshot's uid cannot be a second one for a newer object;
- `NoJobWhileCreating`: between the list that found nothing and the create no Job
  appears, which is where the single replica is used;
- `JobStays`: the Job of the current object is still there unless the operator has
  seen that object's deletion, so a later list finds it. This is where
  `MaxDeletedJobs = 0` is used, and where a stale cleanup is the difficult case:
  cleanup deletes by name, and `SnapshotsAge` shows that whoever still cleans up
  has not created anything for the new object.

It holds with ignored cleanup errors and with names reused at once. Both hypotheses are
needed: two replicas may both list no Job and both create one, in different seconds, and
a Job deleted before its outcome is recorded is re-created by design.

**`GuardInv`, for finalizer and pause.** A replica works for the object under the name
(`OneIdentity`), past the finalizer only on an object that has it, and only on an object
that was seen without the annotation (`OnlyForActive`); no Job belongs to an object
still to come (`OwnersAge`). Replicas do not disturb each other here, so their number is
left open.

**`GenuineInv`, for `CompletionIsGenuine`.** The object cannot go while it is worked on
(`HeldByFinalizer`), the Jobs there are belong to the object under the name and are gone
before its finalizer is (`CleanupIsComplete`), and whoever is about to report a success
has heard of one of this object (`SuccessIsGenuine`).

**`ReuseInv`, for `FinalizerGuardsJobs` with names reused at once.** With one replica a
reconciliation may go on for an object that is gone, and `OneIdentity` fails. What holds
instead is that a finalizer the snapshot has shown is still on that object
(`SeenFinalizerStays`), that cleanup takes nothing from an object that is not deleted
(`CleanupTakesNothing`), and that an object with a finalizer goes by a cleanup only, after
which the replica has seen it deleted (`GoesByCleanup`).

**`KeptInv`, for `CompletedIsNotRerun`.** A completed restore still says so in its
conditions, unless a pause that can no longer be lifted has overwritten them
(`CompletionIsKept`). The object worked on is held by its finalizer (`HeldInWork`), and a
completion is reported to the object it was found for (`OwnCompletion`). The last needs
one of two reasons: that names are not reused unnoticed, or that cleanups succeed, in
which case Jobs are there only under a finalizer and a reconciliation whose object has
been replaced finds none (`JobsAreHeld`). With two changes of the annotation `KeptInv`
fails, which is the finding of `restore_pause_rerun`.

**`RestoreInv`, for the refinement,** joins `OneJobInv` and `GenuineInv` and adds that
there is one Job at a time (`OneJobAtATime`) and that what the status says, or a patch
under way is about to say, is true of the object's own Job (`ReportsAreTrue`). The proof
of `RestoreRefines` maps each action to a step of `OneShotRestore`: the user's create
and delete to request and withdrawal, `create_job` to the start, the Job controller's
outcome to the outcome, a status patch to a report or to none, everything else to no
step. A `create_job` that hits an object marked for deletion is no step either, since
the request is gone then.

### Backups

`TypeOK` is not inductive: it bounds the runs asked for (`RequestsBounded`) and says
that what is recorded is a Job that was found (`FoundIsJob`). `GuardInv` is as for
restores, for one object (`HeldIsEarlier`: a finalizer or a deletion the operator has
seen is still there), and needs no hypothesis.

`RunsInv` keeps the account behind `OneRunPerRequest`: a trigger still to be served leaves
room for its run, and so does a spec without a schedule until its first run, whose Job
then stays and prevents another (`RunsAreAsked`). The step that matters is `create_job`,
where the account has to be paid. A fault between it and the removal of the annotation
leaves a trigger whose run has been paid for; the fault itself pays for the second, so
the bound is requests and faults together.

`RecordInv` says that a finished Job at least as new as the recorded one is there
(`RecordIsCurrent`), so that `check_job_completion`, which looks at the latest finished
Job, never finds an older one; and that a pause patch carries the record it found.
Jobs deleted by anybody would take the newest one away, and a stale snapshot would bring an
old record back.

### Retention and the shared namespace

`NewestInv` and `AvailableInv` rest on one argument. A listed backup is superseded when it
is listed, but the list is worked off while newer backups on it are deleted: does it stay
superseded? It does, because being superseded is inherited by older backups. If a
superseded backup is deleted, the `maxBackups` newest that are stored remain, since none
of them is superseded; whatever was superseded counted at least those among its newer
ones. The counting is in `SetLemmas!PartCount` and the lemmas on `Superseded`.

- `NewestInv`: what is known of - from the status, the storage or a Job that
  succeeded - is stored or superseded (`KnownIsStored`), and what is listed is superseded.
  It holds for any policy, number of faults, unreadable manifests and retries.
- `SparedInv`: what is known of or has objects belongs to a Job whose pod has run, and what
  is listed to a finished one.
- `ConfigInv`: the ConfigMap of a backup is never behind its CronJob and a Job never ahead
  of it (`ConfigIsCurrent`, `JobFollowsCronJob`); the Job of a restore, the ConfigMap it
  wrote and its reading of the source belong together (`RestoreIsConsistent`); a file
  belongs to its kind. It holds with namesakes of both kinds.
- `OwnInv`: what a resource knows of and prunes belongs to it by its name.
- `AvailableInv`: whatever still speaks of a backup that is not incremental - a status, a
  history being merged, a Job that succeeded, a restore - speaks of one that is stored or
  superseded, and what a resource is about to prune is superseded. Several retentions work
  at once, on sets of backups that overlap when one name starts with another, so a backup
  that was superseded for `daily-weekly` may lose the newer ones it was counted against to
  the retention of `daily`. What saves the argument is that the families are nested: names
  that are prefixes of one name are prefixes of each other (`PrefixesAreNested`, assumed
  of `Prefixed` and true of strings), so of two resources that one backup belongs to, all
  that belongs to one belongs to the other (`FamiliesAreNested`). When a newer backup `p`
  is deleted as superseded for `d`, an older one of the same resource `c` is superseded for
  the larger of the families `c` and `d` (`Inherited`). Being too old is inherited as
  well, and time does not go back (`TimePasses`), so a backup counted among the newer ones
  may itself expire. An incremental backup is recorded under an id that is never stored
  (`namespace_incremental`), hence the hypothesis `RetentionByRun` of both theorems.

### Listeners and resolution

`Best` is a CHOOSE: that a best listener exists is shown by going through the four classes
of preference and taking the first position of the first class that is not empty
(`LeastOfSet`, from the well-foundedness of the natural numbers), and that there is only
one from the order of the keys. `SelectionIsStable` is proved for any two lists with
distinct names (`BestMoves`), hence for every edit: if both listeners were there before and
after with all that counts, the order of the keys settles which is selected, and only their
positions can change it. That edits keep names distinct (`ListenerInv`) is where `InsertAt`,
`RemoveAt` and the exchange of two listeners come in. `PodInv` says that the listener chosen, and the credentials read after
it, both fit `spec.authentication`, which does not change during a resolution, so they fit
each other whatever happened in between; and that the secret has the files the
configuration names. `LookupInv` says that after a first 404 of a resource that is there,
the release serves only v1beta2 or has been upgraded since.

`StorageAgrees` and `RestoreDoesWhatIsAsked` say something of every spec, and need no
invariant: their proofs compare two derivations from it. For credentials, the variables a
pod gets and the values the operator reads are both written as the first reference that
is filled, place by place (`CredentialsAgree`, one case per storage type); for restores,
each option is compared with the field it was made from, past the combinations `Refused`
turns away.

### What is model-checked only

- All liveness properties: `OutcomeReported`, `PauseIsTracked`, `DeletionCompletes`,
  `StatusSettles`, `OutcomeRecorded`, `TriggerConsumed`, `CronJobFollowsSchedule`,
  `ErrorClears`, `RecordedAreRemoved`, `HistoryMatchesStorage`. Liveness under fairness and
  ENABLED are out of the prover's reach.
- The runs that expect a violation.

No operator of the models is recursive, so no induction over data was needed; where a
least or a largest element is, it comes from well-foundedness.

## Where the code departs from its documentation

Kept as runs, with the quoted lines in `PROJECT.json`:

- A completed restore that is paused, loses its Job and is resumed runs again
  (`restore_pause_rerun`).
- The latest backup of an incremental `KafkaBackup` is recorded under its Job's name
  and stored under the resource's: a restore of the latest finds nothing
  (`namespace_incremental`).
- A failed Job of a scheduled backup makes two status patches alternate for ever
  (`backup_flapping`).
- Retention prunes a backup whose Job waits for its next pod attempt
  (`retention_retry`).

Also seen with these models, by widening a constant or a premise:

- Two replicas run a restore twice (`OneJobPerRestore` with two `Replicas`); the
  leader election `src/README.md:330` offers is not in the program.
- Retention of a resource `daily` deletes the backups of `daily-weekly` in the same
  bucket, by its own limits (`storage.rs:178`; `namespace_shared` has such behaviours, and
  `PrunesOnlySuperseded` does not exclude them). Backups of `daily-weekly` that are newer
  count for `daily` as well and push out its own.
- An equal listener put in front of the selected one takes its place: spec order breaks
  ties (`kafka_cr.rs:154`), which `SelectionIsStable` names as an exception.
- While the status of the Kafka resource is older than its spec, the address of a listener
  whose port was changed, or that was removed and added again, is the one of the former
  port: entries are matched by name (`kafka_cr.rs:255`).
- The type of a `KafkaUser` is not compared with `spec.authentication`
  (`kafka_user.rs:53`): a user of the other type leads to a pod without the files or the
  password its configuration names, `ConfigIsMounted` without its premise.
- `update_status_error` patches on every pass while the cluster is missing, so
  `StatusSettles` needs its premise (`CHANGELOG.md:101` promises idempotent
  patches).
- A trigger that arrives while a re-run is active next to a finished Job is
  classified Succeeded and starts another Job (`job_state.rs:81`: "never stacks
  onto an active Job").
- A one-shot backup whose Job is recorded keeps the ReconciliationPaused
  condition after it is resumed: `PauseIsTracked` fails with `Schedules = {"none"}`
  and two toggles.
- A schedule removed from the spec leaves its CronJob running.
- A stored backup that is known only from its manifest loses the manifest first
  when it is pruned; if the pruning fails then, its segments are never found again:
  `RecordedAreRemoved` without its premise on the history.
- `certificateAndKey` with key names other than `user.crt` and `user.key` leads to a
  configuration that names files the pod does not have: `ConfigIsMounted` with
  `"custom"` in `CertificateKeys`.

## What is not modelled

- Options that are copied from a spec to YAML and that nothing else depends on: topic
  selection and mapping, connection, logging, metrics, tuning, offset storage; the
  storage clients and key prefixes; the parsing of a shared credentials file and its
  session token; metrics, the health server, the CRD generator and the Helm
  templates. No decision of the reconcilers reads them.
- Error texts, log lines, label and annotation merging, pod templates beyond the
  credentials. That labels of a pod template can replace the ones Jobs are found by
  is listed as a hazard only.
- Entries with equal start times; the order in which ids are pruned is left open.
- The CronJob history limit is three in the code and one in the model.
- A listener override in `StrimziResolution`: with it the user takes charge of the
  match between listener and credentials. `ListenerSelection` has it.
- The contents of the cluster CA secret, which is read and not used further.
- Two replicas in `BackupReconciler`, `Retention` and `SharedNamespace`: one replica
  makes a `get_status` followed by `patch_status` one step.
- In `SharedNamespace`: pauses, triggers and one-shot backups, which
  `BackupReconciler` has; single storage calls, which `Retention` has; the deletion of
  a `KafkaBackup`; a restore that is deleted before it got its finalizer; a continuous
  backup.

## Plan

1. Done: `RestoreReconciler` with its refinement of `OneShotRestore`, `BackupReconciler`,
   `Retention`, `ListenerSelection`, `StrimziResolution` with `GeneratedConfig`, and the
   composition `SharedNamespace`.
2. Done: theorems for every safety property that a passing run checks, among them the
   refinement, under hypotheses that each have a counterexample.
3. Left: properties for the hazards that have none yet (`PROJECT.json`); an abstract
   specification of `BackupReconciler`, as `OneShotRestore` is of `RestoreReconciler`; two
   replicas in `BackupReconciler`, once the program elects a leader or is meant to run
   without one.
