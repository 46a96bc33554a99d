--------------------------- MODULE RetentionPolicy ---------------------------
(***************************************************************************)
(* evaluate_retention (src/retention/policy.rs) over a history h: a set of *)
(* backup ids with the start time of each.                                 *)
(***************************************************************************)
EXTENDS Integers, FiniteSets

CONSTANTS
  MaxBackups,  \* spec.retention.maxBackups, Unset when it is not given
  MaxAge,      \* spec.retention.maxAge in seconds, Unset when not given or unreadable
  Unset        \* the value of an option that is not given

ASSUME RetentionPolicyConstants ==
  /\ MaxBackups \in Int \/ MaxBackups = Unset
  /\ MaxAge \in Nat \/ MaxAge = Unset
  /\ Unset \notin Int

Newer(h, start, i) == {k \in h : start[k] > start[i]}

\* Mutant: the limit is off by one.
ExcessByOne(h, start) ==
  {i \in h : MaxBackups # Unset /\ MaxBackups >= 0
               /\ Cardinality(Newer(h, start, i)) >= MaxBackups - 1}

\* Sorted newest first, the entries from index maxBackups on.  A negative limit
\* becomes a huge one in the conversion to usize: nothing is beyond it.
Excess(h, start) ==
  {i \in h : MaxBackups # Unset /\ MaxBackups >= 0
               /\ Cardinality(Newer(h, start, i)) >= MaxBackups}

\* The entries that started before the cutoff.
Expired(h, start, now) == {i \in h : MaxAge # Unset /\ start[i] < now - MaxAge}

evaluate_retention(h, start, now) == Excess(h, start) \cup Expired(h, start, now)
=============================================================================
