----------------------------- MODULE Conditions -----------------------------
(***************************************************************************)
(* Status conditions (src/status/conditions.rs).  A condition is its type, *)
(* its status, its reason and the Job its message names, 0 for a fixed     *)
(* wording.  The lastTransitionTime that new_condition stamps on it is     *)
(* kept by the reconcilers' modules, as one bit that every patch of newly  *)
(* built conditions flips.  The operator builds lists of one or two        *)
(* conditions of different types only, so a list is a set and the member   *)
(* find_condition returns is the one of that type.                         *)
(***************************************************************************)

new_condition(type, status, reason, job) ==
  [type |-> type, status |-> status, reason |-> reason, job |-> job]

ready(reason) == new_condition("Ready", TRUE, reason, 0)

not_ready(reason, job) == new_condition("Ready", FALSE, reason, job)

reconciliation_paused ==
  new_condition("ReconciliationPaused", TRUE, "ReconciliationPaused", 0)

error_conditions(reason, job) ==
  {not_ready(reason, job), new_condition("Error", TRUE, reason, job)}

is_condition_true(conditions, type) ==
  \E c \in conditions : c.type = type /\ c.status

has_condition_reason(conditions, type, reason) ==
  \E c \in conditions : c.type = type /\ c.reason = reason

has_condition_message(conditions, type, job) ==
  \E c \in conditions : c.type = type /\ c.job = job
=============================================================================
