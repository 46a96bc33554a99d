---------------------------- MODULE OneShotRestore ----------------------------
(***************************************************************************)
(* What the operator promises the user of a KafkaRestore, without its      *)
(* reconciliations, caches, Jobs and pods: the restore of a resource is    *)
(* started at most once, comes to at most one outcome, and the status says *)
(* nothing that has not happened and takes nothing back to a start.        *)
(***************************************************************************)
CONSTANT Requests   \* identities of the resources the user may submit

VARIABLES
  request,   \* the resource the user wants restored, 0 for none
  started,   \* whether its restore has been started
  outcome,   \* what came of it: "open", "succeeded" or "failed"
  reported   \* what the status says of it: "nothing", "running" or an outcome

vars == <<request, started, outcome, reported>>

Outcomes == {"succeeded", "failed"}

\* Nothing is known of a request that has just been made, or of none.
Fresh == started' = FALSE /\ outcome' = "open" /\ reported' = "nothing"

Init == request = 0 /\ started = FALSE /\ outcome = "open" /\ reported = "nothing"

Submit == request = 0 /\ request' \in Requests /\ Fresh

Withdraw == request # 0 /\ request' = 0 /\ Fresh

Start ==
  /\ request # 0 /\ ~ started
  /\ started' = TRUE
  /\ UNCHANGED <<request, outcome, reported>>

Finish ==
  /\ started /\ outcome = "open"
  /\ outcome' \in Outcomes
  /\ UNCHANGED <<request, started, reported>>

ReportRunning ==
  /\ started /\ reported = "nothing"
  /\ reported' = "running"
  /\ UNCHANGED <<request, started, outcome>>

ReportOutcome ==
  /\ outcome \in Outcomes
  /\ reported' = outcome
  /\ UNCHANGED <<request, started, outcome>>

\* A pause or a missing dependency takes the place of the report.
ReportElse ==
  /\ request # 0
  /\ reported' = "nothing"
  /\ UNCHANGED <<request, started, outcome>>

Next ==
  Submit \/ Withdraw \/ Start \/ Finish \/ ReportRunning \/ ReportOutcome \/ ReportElse

Spec == Init /\ [][Next]_vars
=============================================================================
