------------------------------ MODULE Retention ------------------------------
(***************************************************************************)
(* Retention of one scheduled KafkaBackup with spec.retention and          *)
(* pruneOnSchedule: the last steps of every reconciliation, which are      *)
(* check_job_completion and apply_retention_policy                         *)
(* (src/reconcilers/backup.rs), with evaluate_retention                    *)
(* (src/retention/policy.rs) and the object storage they prune             *)
(* (src/retention/storage.rs).                                             *)
(*                                                                         *)
(* A backup is named after the second its Job starts in; it is not         *)
(* incremental, so every Job writes under a backup id of its own.  One     *)
(* operator replica runs and is the only writer of the status.             *)
(***************************************************************************)
EXTENDS Integers, FiniteSets, FiniteSetsExt, JobState, RetentionPolicy

CONSTANTS
  RetryGaps,   \* whether a pod may fail and leave its Job without a pod for a while
  MaxParallel, \* bound: Jobs in progress at a time
  MaxClock,    \* bound: seconds, hence distinct backup ids
  MaxFaults    \* bound: failed calls and operator restarts

ASSUME RetentionConstants ==
  /\ RetryGaps \in BOOLEAN /\ MaxParallel \in Nat
  /\ MaxClock \in Nat \ {0} /\ MaxFaults \in Nat

VARIABLES
  jobs,        \* phase of the Job of each backup id
  store,       \* the objects the storage holds of each backup
  history,     \* ids in status.backupHistory
  lastBackup,  \* id of status.lastBackup, 0 when there is none
  clock,       \* current second
  pc,          \* the call the reconciliation is about to make
  merged,      \* the merged history apply_retention_policy works on
  toPrune,     \* the ids it has yet to prune
  pruning,     \* the id whose objects it is deleting, 0 for none
  keys,        \* the listed objects of that id it has yet to delete
  pruned,      \* the ids it has pruned
  faults       \* how much of the bound is used up

status == <<history, lastBackup>>
local == <<pc, merged, toPrune, pruning, keys, pruned>>
vars == <<jobs, store, history, lastBackup, clock, pc, merged, toPrune, pruning,
          keys, pruned, faults>>

Ids == 1..MaxClock

\* The keys under a backup id: manifest.json and what sorts after it.
Objects == {"manifest", "segments"}

Steps == {"idle", "discover", "evaluate", "prune", "patch_history"}

JobNames == {j \in Ids : jobs[j] # Absent}

Terminal == {j \in JobNames : job_succeeded(jobs[j]) \/ job_failed(jobs[j])}

InProgress == JobNames \ Terminal

Stored == {i \in Ids : "manifest" \in store[i]}

Init ==
  /\ jobs = [i \in Ids |-> Absent] /\ store = [i \in Ids |-> {}]
  /\ history = {} /\ lastBackup = 0 /\ clock = 1
  /\ pc = "idle" /\ merged = {} /\ toPrune = {} /\ pruning = 0 /\ keys = {} /\ pruned = {}
  /\ faults = 0

-----------------------------------------------------------------------------
\* A backup is named after the second it started in.
StartTime == [i \in Ids |-> i]

\* Mutant: no Job is looked at.
NoneActive == {}

\* The ids of the Jobs with status.active > 0.
active_backup_ids == {j \in JobNames : jobs[j] = "active"}

(***************************************************************************)
(* The steps of a reconciliation.                                          *)
(***************************************************************************)

\* Return, whatever the reconciliation holds.
Return ==
  /\ pc' = "idle" /\ merged' = {} /\ toPrune' = {}
  /\ pruning' = 0 /\ keys' = {} /\ pruned' = {}

\* Mutant: the entry added to the history is the one recorded before.
CheckRecordsPrevious ==
  /\ pc = "idle"
  /\ IF Terminal # {} /\ job_succeeded(jobs[Max(Terminal)])
          /\ lastBackup # Max(Terminal)
     THEN lastBackup' = Max(Terminal) /\ history' = history \cup {lastBackup}
     ELSE UNCHANGED <<lastBackup, history>>
  /\ pc' = "discover" /\ merged' = history'
  /\ UNCHANGED <<jobs, store, clock, toPrune, pruning, keys, pruned, faults>>

\* Record the latest terminal Job if it succeeded and is not recorded yet, then
\* read the history back.
CheckJobCompletion ==
  /\ pc = "idle"
  /\ IF Terminal # {} /\ job_succeeded(jobs[Max(Terminal)])
          /\ lastBackup # Max(Terminal)
     THEN lastBackup' = Max(Terminal) /\ history' = history \cup {Max(Terminal)}
     ELSE UNCHANGED <<lastBackup, history>>
  /\ pc' = "discover" /\ merged' = history'
  /\ UNCHANGED <<jobs, store, clock, toPrune, pruning, keys, pruned,
                 faults>>

\* Mutant: the stored manifests replace the history.
DiscoverReplaces ==
  /\ pc = "discover"
  /\ merged' = Stored
  /\ pc' = "evaluate"
  /\ UNCHANGED <<jobs, store, status, clock, toPrune, pruning, keys, pruned, faults>>

\* discover_backup_history and merge_backup_history: the manifests in the storage
\* join the history; one that cannot be read is skipped.
DiscoverBackupHistory ==
  /\ pc = "discover"
  /\ \E unread \in SUBSET Stored :
       /\ faults + Cardinality(unread) <= MaxFaults
       /\ faults' = faults + Cardinality(unread)
       /\ merged' = merged \cup (Stored \ unread)
  /\ pc' = "evaluate"
  /\ UNCHANGED <<jobs, store, status, clock, toPrune, pruning, keys, pruned>>

\* List the active Jobs and evaluate the policy.
EvaluateRetention ==
  LET candidates == evaluate_retention(merged, StartTime, clock) \ active_backup_ids
  IN /\ pc = "evaluate"
     /\ toPrune' = candidates
     /\ pc' = IF candidates = {} THEN "patch_history" ELSE "prune"
     /\ UNCHANGED <<jobs, store, status, clock, merged, pruning, keys, pruned, faults>>

(***************************************************************************)
(* prune_backup_ids, one storage call at a time.  The order of the ids is  *)
(* left open; the keys of an id are listed once and deleted in their order.*)
(***************************************************************************)
ListObjects ==
  /\ pc = "prune" /\ pruning = 0
  /\ pruning' \in toPrune
  /\ keys' = store[pruning']
  /\ UNCHANGED <<jobs, store, status, clock, pc, merged, toPrune, pruned, faults>>

FirstKey == IF "manifest" \in keys THEN "manifest" ELSE "segments"

DeleteObject ==
  /\ pc = "prune" /\ pruning # 0 /\ keys # {}
  /\ store' = [store EXCEPT ![pruning] = @ \ {FirstKey}]
  /\ keys' = keys \ {FirstKey}
  /\ UNCHANGED <<jobs, status, clock, pc, merged, toPrune, pruning, pruned, faults>>

\* All listed objects are gone, or there were none: on to the next id.
BackupPruned ==
  /\ pc = "prune" /\ pruning # 0 /\ keys = {}
  /\ pruned' = pruned \cup {pruning} /\ toPrune' = toPrune \ {pruning}
  /\ pruning' = 0
  /\ pc' = IF toPrune' = {} THEN "patch_history" ELSE "prune"
  /\ UNCHANGED <<jobs, store, status, clock, merged, keys, faults>>

\* Mutant: the history keeps the entries that were pruned.
PatchKeepsPruned ==
  /\ pc = "patch_history"
  /\ history' = merged
  /\ Return
  /\ UNCHANGED <<jobs, store, lastBackup, clock, faults>>

PatchBackupHistory ==
  /\ pc = "patch_history"
  /\ history' = merged \ pruned
  /\ Return
  /\ UNCHANGED <<jobs, store, lastBackup, clock, faults>>

Reconcile ==
  \/ CheckJobCompletion \/ DiscoverBackupHistory \/ EvaluateRetention
  \/ ListObjects \/ DeleteObject \/ BackupPruned \/ PatchBackupHistory

\* A call fails (the error leaves apply_retention_policy at once) or the process
\* restarts.
Abort ==
  /\ pc # "idle" /\ faults < MaxFaults
  /\ Return
  /\ faults' = faults + 1
  /\ UNCHANGED <<jobs, store, status, clock>>

-----------------------------------------------------------------------------
(***************************************************************************)
(* The Jobs.  kafka-backup writes segments, and its manifest once there    *)
(* are segments; a continuous backup has a manifest while it still runs,   *)
(* and a run that succeeds has written both.                               *)
(***************************************************************************)
\* The CronJob's Job, or a triggered one next to it: once a Job has succeeded, a trigger
\* does not wait for others.
JobStarts ==
  /\ jobs[clock] = Absent /\ Cardinality(InProgress) < MaxParallel
  /\ jobs' = [jobs EXCEPT ![clock] = "pending"]
  /\ UNCHANGED <<store, status, clock, local, faults>>

JobWrites ==
  /\ \E j \in JobNames :
       /\ jobs[j] = "active"
       /\ store' = [store EXCEPT ![j] = IF @ = {} THEN {"segments"} ELSE Objects]
       /\ store' # store
  /\ UNCHANGED <<jobs, status, clock, local, faults>>

\* The phases a Job goes through; a pod that fails may leave it without one.
Transitions ==
  {<<"pending", "active">>, <<"active", "succeeded">>, <<"active", "failed">>}
    \cup (IF RetryGaps THEN {<<"active", "pending">>} ELSE {})

JobRuns ==
  /\ \E j \in JobNames, step \in Transitions :
       /\ jobs[j] = step[1]
       /\ step[2] = "succeeded" => store[j] = Objects
       /\ jobs' = [jobs EXCEPT ![j] = step[2]]
  /\ UNCHANGED <<store, status, clock, local, faults>>

Tick ==
  /\ clock < MaxClock
  /\ clock' = clock + 1
  /\ UNCHANGED <<jobs, store, status, local, faults>>

Next == Reconcile \/ Abort \/ JobStarts \/ JobWrites \/ JobRuns \/ Tick

Spec == Init /\ [][Next]_vars

\* The requeue brings the next reconciliation and a call that does not fail
\* completes.  Nothing is assumed of the Jobs.
FairSpec == Spec /\ WF_vars(Reconcile)

-----------------------------------------------------------------------------
\* The types of all variables.
TypeOK ==
  /\ jobs \in [Ids -> Phases \cup {Absent}]
  /\ store \in [Ids -> SUBSET Objects]
  /\ history \subseteq Ids /\ lastBackup \in Ids \cup {0} /\ clock \in Ids
  /\ pc \in Steps /\ merged \subseteq Ids /\ toPrune \subseteq Ids
  /\ pruning \in Ids \cup {0} /\ keys \subseteq Objects /\ pruned \subseteq Ids
  /\ faults \in 0..MaxFaults

\* Whether enough newer backups are in the storage, or backup i is too old.
Superseded(i) ==
  \/ MaxBackups # Unset /\ MaxBackups >= 0 /\ Cardinality(Newer(Stored, StartTime, i)) >= MaxBackups
  \/ MaxAge # Unset /\ i < clock - MaxAge

\* Pruning never digs into the newest maxBackups backups: an object is deleted only
\* of a backup that is too old or has that many newer ones in the storage at the
\* moment of the deletion, after whatever partial prunings went before.
KeepsNewest ==
  [][\A i \in Ids : ~ (store[i] \subseteq store'[i]) => Superseded(i)]_vars

\* The objects of a backup whose Job has not come to its end are not deleted.
InProgressSpared ==
  [][\A i \in Ids : ~ (store[i] \subseteq store'[i]) => i \notin InProgress]_vars

\* A backup that got into the history and is superseded for good is removed to the
\* last object, faults or not.  (One known only from its manifest can lose that first
\* and is then not found again.)
RecordedAreRemoved ==
  \A i \in Ids :
    <>[](Superseded(i) /\ i \in Terminal) /\ <>(i \in history) => <>[](store[i] = {})

\* Entries of backups that are no longer stored do not stay in the history.
HistoryMatchesStorage ==
  \A i \in Ids :
    <>[](Superseded(i) /\ store[i] = {} /\ i \in Terminal) => <>[](i \notin history)

-----------------------------------------------------------------------------
(***************************************************************************)
(* What makes KeepsNewest and InProgressSpared inductive.                  *)
(***************************************************************************)
\* What was listed for pruning and is not yet done is on the list, and the deletions
\* are those of the listed backup.
PruningIsListed == pruning # 0 => pc = "prune" /\ pruning \in toPrune

\* A backup that is known of - from the status, from the storage or from a Job that
\* succeeded - is still stored or is superseded.
KnownIsStored ==
  \A i \in Ids : i \in history \cup merged \/ jobs[i] = "succeeded" =>
    i \in Stored \/ Superseded(i)

\* What is to be pruned stays superseded while newer backups are pruned before it.
ListedIsSuperseded == \A i \in toPrune : Superseded(i)

NewestInv == TypeOK /\ PruningIsListed /\ KnownIsStored /\ ListedIsSuperseded

Started == {"active", "succeeded", "failed"}

\* A backup that is known of or has objects belongs to a Job whose pod has run, and a
\* Job that waits for its first pod is therefore no candidate; one that runs is no
\* candidate because it is active.
KnownHasRun == \A i \in Ids : i \in history \cup merged \/ store[i] # {} => jobs[i] \in Started

SparedInv == TypeOK /\ PruningIsListed /\ KnownHasRun /\ toPrune \subseteq Terminal
=============================================================================
