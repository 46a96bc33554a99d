--------------------------- MODULE RetentionProofs ---------------------------
(***************************************************************************)
(* Retention for every policy, every number of backups and any number of   *)
(* faults: what is deleted is superseded at that moment (NewestInv), and   *)
(* is not of a Job in progress when no Job is left without a pod between   *)
(* two attempts (SparedInv).                                               *)
(***************************************************************************)
EXTENDS Retention, SetLemmas

\* Parts of the ids, and the numbers around them.
LEMMA IdSets ==
  /\ Ids \subseteq Nat \ {0} /\ Ids \subseteq Int /\ IsFiniteSet(Ids) /\ 1 \in Ids
  /\ \A S \in SUBSET Ids : Cardinality(S) \in Nat
<1>1. Ids \subseteq Nat \ {0} /\ Ids \subseteq Int /\ 1 \in Ids
  BY RetentionConstants DEF Ids
<1>2. IsFiniteSet(Ids)
  BY RetentionConstants, FS_Interval DEF Ids
<1> QED
  BY <1>1, <1>2, PartCount

\* The latest finished Job is one.
LEMMA LatestIsTerminal ==
  ASSUME Terminal # {}
  PROVE  Max(Terminal) \in Terminal
<1>1. Terminal \in SUBSET (1..MaxClock) /\ MaxClock \in Nat
  BY RetentionConstants DEF Terminal, JobNames, Ids
<1> QED
  BY <1>1, LargestName

\* What the policy selects is part of what it is given.
LEMMA SelectedIsPart ==
  ASSUME NEW h, NEW start, NEW now
  PROVE  evaluate_retention(h, start, now) \subseteq h
  BY DEF evaluate_retention, Excess, Expired

\* The types are kept by a step.
LEMMA TypeStep ==
  ASSUME TypeOK, [Next]_vars
  PROVE  TypeOK'
<1> USE RetentionConstants
<1>1. CASE CheckJobCompletion
  <2>1. /\ history' \subseteq Ids /\ lastBackup' \in Ids \cup {0} /\ pc' = "discover"
        /\ merged' = history'
    BY <1>1, LatestIsTerminal DEF TypeOK, CheckJobCompletion, Terminal, JobNames
  <2>2. UNCHANGED <<jobs, store, clock, toPrune, pruning, keys, pruned, faults>>
    BY <1>1 DEF CheckJobCompletion
  <2> QED
    BY <2>1, <2>2 DEF TypeOK, Steps
<1>2. CASE DiscoverBackupHistory
  <2>1. PICK unread \in SUBSET Stored :
          /\ faults + Cardinality(unread) <= MaxFaults
          /\ faults' = faults + Cardinality(unread)
          /\ merged' = merged \cup (Stored \ unread)
    BY <1>2 DEF DiscoverBackupHistory
  <2>2. Stored \subseteq Ids /\ Cardinality(unread) \in Nat
    BY IdSets DEF Stored
  <2>3. faults' \in 0..MaxFaults /\ merged' \subseteq Ids
    BY <2>1, <2>2 DEF TypeOK
  <2> QED
    BY <1>2, <2>3 DEF TypeOK, DiscoverBackupHistory, Steps, status
<1>3. CASE EvaluateRetention
  <2>1. toPrune' \subseteq merged /\ pc' \in Steps
    BY <1>3, SelectedIsPart DEF EvaluateRetention, Steps
  <2> QED
    BY <1>3, <2>1 DEF TypeOK, EvaluateRetention, status
<1>4. CASE ListObjects \/ DeleteObject \/ BackupPruned
  BY <1>4 DEF TypeOK, ListObjects, DeleteObject, BackupPruned, Steps, status
<1>5. CASE PatchBackupHistory
  BY <1>5 DEF TypeOK, PatchBackupHistory, Return, Steps
<1>6. CASE Abort
  BY <1>6 DEF TypeOK, Abort, Return, Steps, status
<1>7. CASE JobStarts
  BY <1>7 DEF TypeOK, JobStarts, Phases, status, local
<1>8. CASE JobWrites
  <2>1. store' \in [Ids -> SUBSET Objects]
    BY <1>8 DEF TypeOK, JobWrites, Objects, JobNames
  <2> QED
    BY <1>8, <2>1 DEF TypeOK, JobWrites, status, local
<1>9. CASE JobRuns
  <2>1. \A step \in Transitions : step[2] \in Phases
    BY DEF Transitions, Phases
  <2>2. jobs' \in [Ids -> Phases \cup {Absent}]
    BY <1>9, <2>1 DEF TypeOK, JobRuns, JobNames
  <2> QED
    BY <1>9, <2>2 DEF TypeOK, JobRuns, status, local
<1>10. CASE Tick
  <2>1. clock' \in Ids
    BY <1>10 DEF TypeOK, Tick, Ids
  <2> QED
    BY <1>10, <2>1 DEF TypeOK, Tick, status, local
<1>11. CASE UNCHANGED vars
  BY <1>11 DEF TypeOK, vars
<1> QED
  BY <1>1, <1>2, <1>3, <1>4, <1>5, <1>6, <1>7, <1>8, <1>9, <1>10, <1>11
  DEF Next, Reconcile

\* The first state has the types.
LEMMA TypeInit == Init => TypeOK
  BY RetentionConstants, IdSets DEF Init, TypeOK, Steps

\* Type correctness of the retention steps and of the Jobs around them.
THEOREM RetentionTypeCorrect == Spec => []TypeOK
<1>1. TypeOK /\ [Next]_vars => TypeOK'
  BY TypeStep
<1> QED
  BY <1>1, TypeInit, PTL DEF Spec

-----------------------------------------------------------------------------
(***************************************************************************)
(* The list of what is to be pruned.                                       *)
(***************************************************************************)

\* Only the listed backup is being deleted.
LEMMA PruningStep ==
  ASSUME TypeOK, PruningIsListed, [Next]_vars
  PROVE  PruningIsListed'
<1>1. CASE Reconcile
  BY <1>1
  DEF PruningIsListed, Reconcile, CheckJobCompletion, DiscoverBackupHistory, EvaluateRetention,
      ListObjects, DeleteObject, BackupPruned, PatchBackupHistory, Return
<1>2. CASE Abort
  BY <1>2 DEF PruningIsListed, Abort, Return
<1>3. CASE JobStarts \/ JobWrites \/ JobRuns \/ Tick \/ UNCHANGED vars
  BY <1>3 DEF PruningIsListed, JobStarts, JobWrites, JobRuns, Tick, vars, local
<1> QED
  BY <1>1, <1>2, <1>3 DEF Next

-----------------------------------------------------------------------------
(***************************************************************************)
(* Pruning keeps the newest.                                               *)
(***************************************************************************)

\* Those newer than q in S are among those newer than i in T: there are not fewer of
\* the latter.
LEMMA NewerCount ==
  ASSUME NEW S \in SUBSET Ids, NEW T \in SUBSET Ids, NEW q \in Ids, NEW i \in Ids,
         \A k \in S : k > q => k \in T /\ k > i,
         MaxBackups \in Int, Cardinality(Newer(S, StartTime, q)) >= MaxBackups
  PROVE  Cardinality(Newer(T, StartTime, i)) >= MaxBackups
<1>1. /\ Newer(S, StartTime, q) = {k \in S : k > q}
      /\ Newer(T, StartTime, i) = {k \in T : k > i}
  <2>1. \A k \in Ids : StartTime[k] = k
    BY DEF StartTime
  <2> QED
    BY <2>1 DEF Newer
<1>2. IsFiniteSet({k \in T : k > i})
  <2>1. {k \in T : k > i} \in SUBSET Ids
    OBVIOUS
  <2> QED
    BY <2>1, IdSets, FS_Subset
<1>3. {k \in S : k > q} \in SUBSET {k \in T : k > i}
  OBVIOUS
<1>4. /\ Cardinality({k \in S : k > q}) <= Cardinality({k \in T : k > i})
      /\ Cardinality({k \in S : k > q}) \in Nat /\ Cardinality({k \in T : k > i}) \in Nat
  BY <1>2, <1>3, PartCount
<1> QED
  BY <1>1, <1>4

\* A superseded backup has those before it superseded too.
LEMMA SupersededDown ==
  ASSUME TypeOK, NEW p \in Ids, Superseded(p), NEW i \in Ids, i <= p
  PROVE  Superseded(i)
<1> USE IdSets, RetentionPolicyConstants
<1>1. /\ clock \in Int /\ p \in Int /\ i \in Int /\ Stored \in SUBSET Ids
      /\ \A k \in Ids : k > p => k > i
  BY DEF TypeOK, Stored
<1>2. CASE MaxAge # Unset /\ p < clock - MaxAge
  BY <1>1, <1>2 DEF Superseded
<1>3. CASE /\ MaxBackups # Unset /\ MaxBackups >= 0
           /\ Cardinality(Newer(Stored, StartTime, p)) >= MaxBackups
  BY <1>1, <1>3, NewerCount DEF Superseded
<1> QED
  BY <1>2, <1>3 DEF Superseded

\* A superseded backup stays superseded when the storage loses another one that is.
LEMMA SupersededStays ==
  ASSUME TypeOK, TypeOK', clock <= clock',
         NEW p \in Ids, Superseded(p), Stored \ {p} \subseteq Stored',
         NEW i \in Ids, Superseded(i)
  PROVE  Superseded(i)'
<1> USE IdSets, RetentionPolicyConstants
<1>1. /\ clock \in Int /\ clock' \in Int /\ p \in Int /\ i \in Int
      /\ Stored \in SUBSET Ids /\ Stored' \in SUBSET Ids
  BY DEF TypeOK, Stored
<1>2. PICK q \in {i, p} : q \in Ids /\ Superseded(q) /\ i <= q /\ p <= q
  BY <1>1
<1>3. CASE MaxAge # Unset /\ q < clock - MaxAge
  <2>1. i < clock' - MaxAge
    BY <1>1, <1>2, <1>3
  <2> QED
    BY <1>3, <2>1 DEF Superseded
<1>4. CASE /\ MaxBackups # Unset /\ MaxBackups >= 0
           /\ Cardinality(Newer(Stored, StartTime, q)) >= MaxBackups
  <2>1. \A k \in Stored : k > q => k \in Stored' /\ k > i
    BY <1>1, <1>2
  <2>2. Cardinality(Newer(Stored', StartTime, i)) >= MaxBackups
    BY <1>1, <1>2, <1>4, <2>1, NewerCount
  <2> QED
    BY <1>4, <2>2 DEF Superseded
<1> QED
  BY <1>2, <1>3, <1>4 DEF Superseded

\* What is superseded stays so while the storage only grows.
LEMMA SupersededGrows ==
  ASSUME TypeOK, TypeOK', clock <= clock', Stored \subseteq Stored',
         NEW i \in Ids, Superseded(i)
  PROVE  Superseded(i)'
  BY SupersededStays

\* What the policy selects of a history whose entries are stored or superseded is
\* superseded in the storage, although the history may list backups that are gone.
LEMMA SelectedIsSuperseded ==
  ASSUME NewestInv, NEW i \in evaluate_retention(merged, StartTime, clock)
  PROVE  Superseded(i)
<1> USE IdSets, RetentionPolicyConstants
<1>1. /\ merged \subseteq Ids /\ i \in Ids /\ i \in Int /\ clock \in Int
      /\ \A k \in Ids : StartTime[k] = k
  BY SelectedIsPart DEF NewestInv, TypeOK, StartTime
<1>2. CASE i \in Expired(merged, StartTime, clock)
  BY <1>1, <1>2 DEF Expired, Superseded
<1>3. CASE i \in Excess(merged, StartTime)
  <2>1. /\ MaxBackups # Unset /\ MaxBackups >= 0
        /\ Cardinality(Newer(merged, StartTime, i)) >= MaxBackups
    BY <1>3 DEF Excess
  <2>2. CASE Newer(merged, StartTime, i) \subseteq Stored
    <3>1. \A k \in merged : k > i => k \in Stored
      BY <1>1, <2>2 DEF Newer
    <3>2. Stored \in SUBSET Ids
      BY DEF Stored
    <3> QED
      BY <1>1, <2>1, <3>1, <3>2, NewerCount DEF Superseded
  <2>3. CASE ~ (Newer(merged, StartTime, i) \subseteq Stored)
    <3>1. PICK j \in merged : j > i /\ j \notin Stored
      BY <1>1, <2>3 DEF Newer
    <3>2. j \in Ids /\ Superseded(j)
      BY <1>1, <3>1 DEF NewestInv, KnownIsStored
    <3> QED
      BY <1>1, <3>1, <3>2, SupersededDown DEF NewestInv
  <2> QED
    BY <2>2, <2>3
<1> QED
  BY <1>2, <1>3 DEF evaluate_retention

\* What a step does to the storage: it grows, or loses objects of the listed backup.
LEMMA StoreStep ==
  ASSUME TypeOK, PruningIsListed, [Next]_vars
  PROVE  /\ clock <= clock'
         /\ \/ \A i \in Ids : store[i] \subseteq store'[i]
            \/ /\ pruning \in toPrune /\ pruning \in Ids /\ DeleteObject
               /\ \A i \in Ids : i # pruning => store'[i] = store[i]
<1> USE IdSets
<1>0. clock \in Int
  BY DEF TypeOK
<1>1. CASE DeleteObject
  BY <1>0, <1>1 DEF TypeOK, DeleteObject, PruningIsListed
<1>2. CASE JobWrites
  <2>1. \A i \in Ids : store[i] \subseteq store'[i]
    BY <1>2 DEF TypeOK, JobWrites, JobNames, Objects
  <2> QED
    BY <1>0, <1>2, <2>1 DEF JobWrites
<1>3. CASE /\ ~ DeleteObject /\ ~ JobWrites
  <2>1. UNCHANGED store
    BY <1>3
    DEF Next, Reconcile, CheckJobCompletion, DiscoverBackupHistory, EvaluateRetention,
        ListObjects, BackupPruned, PatchBackupHistory, Abort, JobStarts, JobRuns, Tick, vars
  <2>2. clock' \in {clock, clock + 1}
    BY <1>3
    DEF Next, Reconcile, CheckJobCompletion, DiscoverBackupHistory, EvaluateRetention,
        ListObjects, BackupPruned, PatchBackupHistory, Abort, JobStarts, JobRuns, Tick, vars
  <2> QED
    BY <1>0, <2>1, <2>2
<1> QED
  BY <1>1, <1>2, <1>3

\* NewestInv is inductive.
LEMMA NewestStep ==
  ASSUME NewestInv, [Next]_vars
  PROVE  NewestInv'
<1> USE IdSets
<1>0. TypeOK /\ PruningIsListed /\ KnownIsStored /\ ListedIsSuperseded
  BY DEF NewestInv
<1>1. TypeOK' /\ PruningIsListed'
  BY <1>0, TypeStep, PruningStep
<1>2. ASSUME NEW i \in Ids, i \in Stored \/ Superseded(i)
      PROVE  /\ i \in Stored' \/ Superseded(i)'
             /\ Superseded(i) => Superseded(i)'
  <2>1. CASE \A k \in Ids : store[k] \subseteq store'[k]
    <3>1. Stored \subseteq Stored'
      BY <2>1 DEF Stored
    <3> QED
      BY <1>0, <1>1, <1>2, <3>1, StoreStep, SupersededGrows
  <2>2. CASE ~ (\A k \in Ids : store[k] \subseteq store'[k])
    <3>1. PICK p \in Ids : /\ Superseded(p) /\ clock <= clock'
                           /\ \A k \in Ids : k # p => store'[k] = store[k]
      BY <1>0, <2>2, StoreStep DEF ListedIsSuperseded
    <3>2. Stored \ {p} \subseteq Stored'
      BY <3>1 DEF Stored
    <3>3. Superseded(i) => Superseded(i)'
      BY <1>0, <1>1, <3>1, <3>2, SupersededStays
    <3>4. Superseded(p)'
      BY <1>0, <1>1, <3>1, <3>2, SupersededStays
    <3> QED
      BY <1>2, <3>2, <3>3, <3>4
  <2> QED
    BY <2>1, <2>2
<1>3. KnownIsStored'
  <2> SUFFICES ASSUME NEW i \in Ids, i \in history' \cup merged' \/ jobs'[i] = "succeeded"
               PROVE  i \in Stored' \/ Superseded(i)'
    BY DEF KnownIsStored
  <2>1. CASE i \in history \cup merged \/ jobs[i] = "succeeded"
    BY <1>0, <1>2, <2>1 DEF KnownIsStored
  <2>2. CASE i \in Stored
    BY <1>2, <2>2
  <2>3. CASE ~ (i \in history \cup merged \/ jobs[i] = "succeeded") /\ i \notin Stored
    <3>1. CASE CheckJobCompletion
      <4>1. \A k \in history' \cup merged' : k \in history \/ (k \in Terminal /\ job_succeeded(jobs[k]))
        BY <3>1, LatestIsTerminal DEF CheckJobCompletion
      <4> QED
        BY <2>3, <3>1, <4>1 DEF CheckJobCompletion, job_succeeded
    <3>2. CASE DiscoverBackupHistory
      BY <2>3, <3>2 DEF DiscoverBackupHistory, status
    <3>3. CASE EvaluateRetention \/ ListObjects \/ DeleteObject \/ BackupPruned
      BY <2>3, <3>3 DEF EvaluateRetention, ListObjects, DeleteObject, BackupPruned, status
    <3>4. CASE PatchBackupHistory \/ Abort
      BY <2>3, <3>4 DEF PatchBackupHistory, Abort, Return, status
    <3>5. CASE JobStarts
      BY <1>0, <2>3, <3>5 DEF JobStarts, status, local, TypeOK
    <3>6. CASE JobRuns
      <4>1. jobs'[i] = "succeeded"
        BY <2>3, <3>6 DEF JobRuns, status, local
      <4>2. store[i] = Objects
        BY <1>0, <2>3, <3>6, <4>1 DEF JobRuns, JobNames, TypeOK
      <4> QED
        BY <2>3, <4>2 DEF Stored, Objects
    <3>7. CASE JobWrites \/ Tick \/ UNCHANGED vars
      BY <2>3, <3>7 DEF JobWrites, Tick, vars, status, local
    <3> QED
      BY <3>1, <3>2, <3>3, <3>4, <3>5, <3>6, <3>7 DEF Next, Reconcile
  <2> QED
    BY <2>1, <2>2, <2>3
<1>4. ListedIsSuperseded'
  <2>1. \A i \in toPrune' : i \in Ids /\ Superseded(i)
    <3>1. CASE EvaluateRetention
      <4>1. toPrune' \subseteq evaluate_retention(merged, StartTime, clock)
        BY <3>1 DEF EvaluateRetention
      <4>2. toPrune' \subseteq Ids
        BY <1>1 DEF TypeOK
      <4> QED
        BY <4>1, <4>2, SelectedIsSuperseded
    <3>2. CASE ~ EvaluateRetention
      <4>1. toPrune' \subseteq toPrune
        BY <3>2
        DEF Next, Reconcile, CheckJobCompletion, DiscoverBackupHistory, ListObjects,
            DeleteObject, BackupPruned, PatchBackupHistory, Return, Abort, JobStarts,
            JobWrites, JobRuns, Tick, vars, local
      <4> QED
        BY <1>0, <4>1 DEF ListedIsSuperseded, TypeOK
    <3> QED
      BY <3>1, <3>2
  <2> QED
    BY <1>2, <2>1 DEF ListedIsSuperseded
<1> QED
  BY <1>1, <1>3, <1>4 DEF NewestInv

\* For every policy, every number of backups and any number of failed calls, restarts
\* and unreadable manifests: an object is deleted only of a backup that is too old or
\* has maxBackups newer ones in the storage at that moment.
THEOREM NewestAreKept == Spec => KeepsNewest
<1> DEFINE Kept == \A i \in Ids : ~ (store[i] \subseteq store'[i]) => Superseded(i)
<1>1. Init => NewestInv
  <2>1. Init => TypeOK
    BY TypeInit
  <2>2. Init => PruningIsListed /\ KnownIsStored /\ ListedIsSuperseded
    BY DEF Init, PruningIsListed, KnownIsStored, ListedIsSuperseded, Absent
  <2> QED
    BY <2>1, <2>2 DEF NewestInv
<1>2. NewestInv /\ [Next]_vars => NewestInv'
  BY NewestStep
<1>3. NewestInv /\ [Next]_vars => Kept
  <2> SUFFICES ASSUME NewestInv, [Next]_vars, NEW i \in Ids, ~ (store[i] \subseteq store'[i])
               PROVE  Superseded(i)
    OBVIOUS
  <2>1. TypeOK /\ PruningIsListed /\ ListedIsSuperseded
    BY DEF NewestInv
  <2>2. /\ pruning \in toPrune
        /\ i # pruning => store'[i] = store[i]
    BY <2>1, StoreStep
  <2> QED
    BY <2>1, <2>2 DEF ListedIsSuperseded
<1> QED
  BY <1>1, <1>2, <1>3, PTL DEF Spec, KeepsNewest, Kept

-----------------------------------------------------------------------------
(***************************************************************************)
(* Pruning spares what is in progress.                                     *)
(***************************************************************************)

\* SparedInv is inductive when a Job has a pod from its first attempt to its end.
LEMMA SparedStep ==
  ASSUME RetryGaps = FALSE, SparedInv, [Next]_vars
  PROVE  SparedInv'
<1> USE IdSets
<1>0. TypeOK /\ PruningIsListed /\ KnownHasRun /\ toPrune \subseteq Terminal
  BY DEF SparedInv
<1>1. TypeOK' /\ PruningIsListed'
  BY <1>0, TypeStep, PruningStep
<1>2. ASSUME NEW i \in Ids
      PROVE  /\ jobs[i] \in Started => jobs'[i] \in Started
             /\ jobs[i] \in {"succeeded", "failed"} => jobs'[i] = jobs[i]
  <2>1. CASE JobStarts
    BY <1>0, <2>1 DEF JobStarts, TypeOK, Started, Absent
  <2>2. CASE JobRuns
    BY <1>0, <2>2 DEF JobRuns, Transitions, JobNames, TypeOK, Started
  <2>3. CASE ~ JobStarts /\ ~ JobRuns
    BY <2>3
    DEF Next, Reconcile, CheckJobCompletion, DiscoverBackupHistory, EvaluateRetention,
        ListObjects, DeleteObject, BackupPruned, PatchBackupHistory, Abort, JobWrites,
        Tick, vars
  <2> QED
    BY <2>1, <2>2, <2>3
<1>3. \A S \in SUBSET Terminal : S \subseteq Terminal'
  BY <1>2 DEF Terminal, JobNames, job_succeeded, job_failed, Absent
<1>4. KnownHasRun'
  <2> SUFFICES ASSUME NEW i \in Ids, i \in history' \cup merged' \/ store'[i] # {}
               PROVE  jobs'[i] \in Started
    BY DEF KnownHasRun
  <2>1. CASE i \in history \cup merged \/ store[i] # {}
    BY <1>0, <1>2, <2>1 DEF KnownHasRun
  <2>2. CASE ~ (i \in history \cup merged \/ store[i] # {})
    <3>1. CASE CheckJobCompletion
      <4>1. \A k \in history' \cup merged' : k \in history \/ (k \in Terminal /\ job_succeeded(jobs[k]))
        BY <3>1, LatestIsTerminal DEF CheckJobCompletion
      <4> QED
        BY <2>2, <3>1, <4>1 DEF CheckJobCompletion, job_succeeded, Started
    <3>2. CASE DiscoverBackupHistory
      BY <2>2, <3>2 DEF DiscoverBackupHistory, Stored, status
    <3>3. CASE DeleteObject
      BY <1>0, <2>2, <3>3 DEF DeleteObject, TypeOK, status
    <3>4. CASE EvaluateRetention \/ ListObjects \/ BackupPruned
      BY <2>2, <3>4 DEF EvaluateRetention, ListObjects, BackupPruned, status
    <3>5. CASE PatchBackupHistory \/ Abort
      BY <2>2, <3>5 DEF PatchBackupHistory, Abort, Return, status
    <3>6. CASE JobWrites
      BY <1>0, <2>2, <3>6 DEF JobWrites, JobNames, TypeOK, Started, status, local
    <3>7. CASE JobStarts \/ JobRuns \/ Tick \/ UNCHANGED vars
      BY <2>2, <3>7 DEF JobStarts, JobRuns, Tick, vars, status, local
    <3> QED
      BY <3>1, <3>2, <3>3, <3>4, <3>5, <3>6, <3>7 DEF Next, Reconcile
  <2> QED
    BY <2>1, <2>2
<1>5. toPrune' \subseteq Terminal'
  <2>1. toPrune' \subseteq Terminal
    <3>1. CASE EvaluateRetention
      <4>1. toPrune' \subseteq merged \ active_backup_ids
        BY <3>1, SelectedIsPart DEF EvaluateRetention
      <4>2. \A i \in merged : i \in Ids /\ jobs[i] \in Started
        BY <1>0 DEF KnownHasRun, TypeOK
      <4> QED
        BY <4>1, <4>2
        DEF active_backup_ids, Terminal, JobNames, Started, Absent, job_succeeded, job_failed
    <3>2. CASE ~ EvaluateRetention
      <4>1. toPrune' \subseteq toPrune
        BY <3>2
        DEF Next, Reconcile, CheckJobCompletion, DiscoverBackupHistory, ListObjects,
            DeleteObject, BackupPruned, PatchBackupHistory, Return, Abort, JobStarts,
            JobWrites, JobRuns, Tick, vars, local
      <4> QED
        BY <1>0, <4>1
    <3> QED
      BY <3>1, <3>2
  <2> QED
    BY <1>3, <2>1
<1> QED
  BY <1>1, <1>4, <1>5 DEF SparedInv

\* When no Job is without a pod between two attempts, the objects of a backup in
\* progress are not deleted; with such a gap they may be, which a run shows.
THEOREM RunningAreSpared ==
  ASSUME RetryGaps = FALSE
  PROVE  Spec => InProgressSpared
<1> DEFINE Spared == \A i \in Ids : ~ (store[i] \subseteq store'[i]) => i \notin InProgress
<1>1. Init => SparedInv
  <2>1. Init => TypeOK
    BY TypeInit
  <2>2. Init => PruningIsListed /\ KnownHasRun /\ toPrune \subseteq Terminal
    BY DEF Init, PruningIsListed, KnownHasRun
  <2> QED
    BY <2>1, <2>2 DEF SparedInv
<1>2. SparedInv /\ [Next]_vars => SparedInv'
  BY SparedStep
<1>3. SparedInv /\ [Next]_vars => Spared
  <2> SUFFICES ASSUME SparedInv, [Next]_vars, NEW i \in Ids, ~ (store[i] \subseteq store'[i])
               PROVE  i \notin InProgress
    OBVIOUS
  <2>1. TypeOK /\ PruningIsListed /\ toPrune \subseteq Terminal
    BY DEF SparedInv
  <2>2. /\ pruning \in toPrune
        /\ i # pruning => store'[i] = store[i]
    BY <2>1, StoreStep
  <2> QED
    BY <2>1, <2>2 DEF InProgress
<1> QED
  BY <1>1, <1>2, <1>3, PTL DEF Spec, InProgressSpared, Spared
=============================================================================
