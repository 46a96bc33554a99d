-------------------------- MODULE RestoreRefinement --------------------------
(***************************************************************************)
(* The KafkaRestore controller implements OneShotRestore: the request is   *)
(* the object under the name until it is marked for deletion, its start    *)
(* and its outcome are those of the Jobs created for it, and the report is *)
(* what its conditions say.                                                *)
(***************************************************************************)
EXTENDS RestoreReconciler

Wanted == obj.live /\ ~ obj.deleting

OwnFailed == \E j \in JobNames : owner[j] = obj.uid /\ jobs[j] = "failed"

Outcome ==
  IF obj.uid \in succeeded THEN "succeeded" ELSE IF OwnFailed THEN "failed" ELSE "open"

\* What a reader of the status takes it to say.
Report ==
  IF IsComplete(obj) THEN "succeeded"
  ELSE IF has_condition_reason(obj.conditions, "Error", "RestoreFailed") THEN "failed"
  ELSE IF has_condition_reason(obj.conditions, "Ready", "RestoreRunning") THEN "running"
  ELSE "nothing"

Promise == INSTANCE OneShotRestore WITH
  Requests <- Uids,
  request  <- IF Wanted THEN obj.uid ELSE 0,
  started  <- Wanted /\ created[obj.uid] > 0,
  outcome  <- IF Wanted THEN Outcome ELSE "open",
  reported <- IF Wanted THEN Report ELSE "nothing"

\* With one replica and nobody else deleting its Jobs, the controller with its lagging
\* cache, its pauses, faults and the reuse of the name shows the user no more than
\* OneShotRestore does: one start, one outcome, and in the status a start or an outcome
\* of this very object, an outcome never giving way to "running".
ImplementsOneShotRestore == Promise!Spec

-----------------------------------------------------------------------------
(***************************************************************************)
(* What the refinement needs besides OneJobInv and GenuineInv.             *)
(***************************************************************************)
\* There is at most one Job, and what is known of Jobs is known of created ones.
OneJobAtATime ==
  /\ \A i, j \in JobNames : i = j
  /\ \A j \in JobNames : owner[j] \in Uids /\ created[owner[j]] > 0
  /\ \A u \in succeeded : u \in Uids /\ created[u] > 0

\* What the status says, or a patch under way is about to say, of a request that still
\* stands is true of its Job.
ReportsAreTrue ==
  Wanted =>
    /\ obj.uid \in succeeded => \E j \in JobNames : jobs[j] = "succeeded"
    /\ has_condition_reason(obj.conditions, "Error", "RestoreFailed") => OwnFailed
    /\ \A r \in Replicas :
         /\ pc[r] = "update_status_failed" => OwnFailed
         /\ pc[r] = "update_status_running" =>
              created[obj.uid] > 0 /\ Report \in {"nothing", "running"}

\* The inductive invariants of the restore controller for one replica, no Jobs deleted
\* from outside, a cleanup that succeeds and no name reused unnoticed.
RestoreInv == OneJobInv /\ GenuineInv /\ OneJobAtATime /\ ReportsAreTrue
=============================================================================
