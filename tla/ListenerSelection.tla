-------------------------- MODULE ListenerSelection --------------------------
(***************************************************************************)
(* How a reconciliation finds its way to the Kafka cluster                 *)
(* (src/strimzi/kafka_cr.rs): the listener select_listener picks from      *)
(* spec.kafka.listeners of the Strimzi Kafka resource and the address      *)
(* bootstrap_for_listener takes for it from status.listeners.              *)
(*                                                                         *)
(* The Kafka resource changes under the operator: listeners are added      *)
(* anywhere in the list, removed, changed and reordered, and Strimzi       *)
(* updates the status some time after the spec.  An address is the name    *)
(* and the port of the listener it was published for, or the bootstrap     *)
(* service (Conventional) with the selected listener's port.               *)
(***************************************************************************)
EXTENDS Naturals, Sequences, SequencesExt, GeneratedConfig

CONSTANTS
  Names,        \* listener names
  Types,        \* the listener types in use: "missing" when the field is not there
  Ports,        \* listener ports
  MaxListeners  \* bound: listeners of the cluster

ASSUME ListenerConstants ==
  /\ Types \subseteq {"missing", "internal", "cluster-ip", "nodeport"}
  /\ MaxListeners \in Nat

VARIABLES
  listeners,    \* spec.kafka.listeners
  addresses     \* the entries of status.listeners: a name and the port it had

vars == <<listeners, addresses>>

\* authentication.type of a listener; "none" when it is missing.
ListenerAuths == {"none", "tls", "scram-sha-512", "oauth"}

\* spec.authentication of the KafkaBackup or KafkaRestore.
DesiredAuths == {"none", "tls", "scram-sha-512"}

Listeners ==
  [name : Names, port : Ports, type : Types, tls : BOOLEAN, auth : ListenerAuths]

NoOverride == "no_override"

Conventional == "conventional_address"

NoCompatibleListener == "NoCompatibleListener"

auth_matches(listener, desired) == listener.auth = desired

is_in_cluster(listener) == listener.type \in {"missing", "internal", "cluster-ip"}

\* Mutant: encryption is weighed before reachability.
KeyEncryptionFirst(listener) ==
  <<IF listener.tls THEN 0 ELSE 1, IF is_in_cluster(listener) THEN 0 ELSE 1>>

\* The part of the min_by_key key before the index: FALSE sorts before TRUE.
PreferenceKey(listener) ==
  <<IF is_in_cluster(listener) THEN 0 ELSE 1, IF listener.tls THEN 0 ELSE 1>>

KeyLess(k, l) == k[1] < l[1] \/ (k[1] = l[1] /\ k[2] < l[2])

\* Mutant: the last of equal listeners wins.
BestLast(ls, candidates) ==
  CHOOSE i \in candidates :
    \A k \in candidates : \/ KeyLess(PreferenceKey(ls[i]), PreferenceKey(ls[k]))
                          \/ (PreferenceKey(ls[i]) = PreferenceKey(ls[k]) /\ k <= i)

\* min_by_key over (external, plaintext, index).
Best(ls, candidates) ==
  CHOOSE i \in candidates :
    \A k \in candidates : \/ KeyLess(PreferenceKey(ls[i]), PreferenceKey(ls[k]))
                          \/ (PreferenceKey(ls[i]) = PreferenceKey(ls[k]) /\ i <= k)

\* The selected listener, or the error.  An override is taken as it is.
select_listener(ls, desired, override) ==
  LET named == {i \in DOMAIN ls : ls[i].name = override}
      matching == {i \in DOMAIN ls : auth_matches(ls[i], desired)}
  IN IF override # NoOverride
     THEN IF named = {} THEN [error |-> InvalidConfig]
          ELSE [ok |-> ls[Min(named)]]
     ELSE IF matching = {} THEN [error |-> NoCompatibleListener]
     ELSE [ok |-> ls[Best(ls, matching)]]

Entry(n, p) == [name |-> n, port |-> p]

\* The address in the status entry of that name, or the conventional one with the
\* declared port.
bootstrap_for_listener(selected) ==
  LET from_status == {e \in addresses : e.name = selected.name}
  IN IF from_status # {} THEN CHOOSE e \in from_status : TRUE
     ELSE Entry(Conventional, selected.port)

\* The connection, or the error.
resolve_connection(ls, desired, override) ==
  LET selected == select_listener(ls, desired, override)
  IN IF ls = <<>> THEN [error |-> InvalidConfig]
     ELSE IF IsError(selected) THEN selected
     ELSE [listener_name |-> selected.ok.name, tls_enabled |-> selected.ok.tls,
           bootstrap_servers |-> bootstrap_for_listener(selected.ok)]

-----------------------------------------------------------------------------
Init == listeners = <<>> /\ addresses = {}

\* Strimzi requires distinct names.
Free(n) == \A i \in DOMAIN listeners : listeners[i].name # n

ListenerAdded ==
  /\ Len(listeners) < MaxListeners
  /\ \E l \in Listeners, i \in 1..(Len(listeners) + 1) :
       Free(l.name) /\ listeners' = InsertAt(listeners, i, l)
  /\ UNCHANGED addresses

ListenerRemoved ==
  /\ \E i \in DOMAIN listeners : listeners' = RemoveAt(listeners, i)
  /\ UNCHANGED addresses

ListenerChanged ==
  /\ \E i \in DOMAIN listeners, l \in Listeners :
       l.name = listeners[i].name /\ listeners' = [listeners EXCEPT ![i] = l]
  /\ UNCHANGED addresses

ListenersReordered ==
  /\ \E i, j \in DOMAIN listeners :
       listeners' = [listeners EXCEPT ![i] = listeners[j], ![j] = listeners[i]]
  /\ UNCHANGED addresses

\* The status once it has caught up with the spec.
CurrentStatus == {Entry(listeners[i].name, listeners[i].port) : i \in DOMAIN listeners}

\* The Cluster Operator has rolled the brokers: the status follows the spec.
StatusUpdated == addresses' = CurrentStatus /\ UNCHANGED listeners

Next ==
  \/ ListenerAdded \/ ListenerRemoved \/ ListenerChanged \/ ListenersReordered
  \/ StatusUpdated

Spec == Init /\ [][Next]_vars

-----------------------------------------------------------------------------
Resolved(d) == resolve_connection(listeners, d, NoOverride)

Connected(c) == "listener_name" \in DOMAIN c

Position(ls, n) == CHOOSE i \in DOMAIN ls : ls[i].name = n

\* What the documentation means by preferable: an in-cluster listener to an external
\* one, and of equally reachable ones an encrypted one to a plaintext one.
Preferable(l, m) ==
  \/ is_in_cluster(l) /\ ~ is_in_cluster(m)
  \/ is_in_cluster(l) = is_in_cluster(m) /\ l.tls /\ ~ m.tls

\* Without an override a connection is found exactly when some listener takes the
\* credentials, and no other such listener is preferable to the chosen one (issue #37).
\* The address leads to no other listener, although the status may be older than the
\* spec: it is the one published under the chosen listener's name, with its declared
\* port once the status has caught up, and while there is none the conventional one.
\* (An entry that was published for an earlier port is still taken.)
BestCompatibleListener ==
  \A d \in DesiredAuths :
    LET c == Resolved(d)
        compatible == {i \in DOMAIN listeners : listeners[i].auth = d}
    IN /\ Connected(c) <=> compatible # {}
       /\ Connected(c) =>
            LET best == listeners[Position(listeners, c.listener_name)]
                published == \E e \in addresses : e.name = best.name
            IN /\ best.auth = d /\ best.tls = c.tls_enabled
               /\ \A i \in compatible : ~ Preferable(listeners[i], best)
               /\ c.bootstrap_servers.name = IF published THEN best.name ELSE Conventional
               /\ addresses = CurrentStatus \/ ~ published =>
                    c.bootstrap_servers.port = best.port

\* Whether a list still has l: under its name, with the same authentication, encryption
\* and reachability.  Its port, for one, may have changed.
Keeps(ls, l) ==
  \E i \in DOMAIN ls :
    /\ ls[i].name = l.name /\ ls[i].auth = l.auth /\ ls[i].tls = l.tls
    /\ is_in_cluster(ls[i]) = is_in_cluster(l)

Ahead(ls, l, m) == Position(ls, l.name) < Position(ls, m.name)

\* Jobs are not moved to another listener without need, whatever is edited at once: the
\* selection moves only if the selected listener is gone or no longer what it was, or if
\* the one it moves to is new or changed and either preferable or an equal listed ahead,
\* or if two equals have changed places (spec order breaks ties).  What is done to the
\* other listeners, to ports and to the status does not move it.
SelectionIsStable ==
  [][\A d \in DesiredAuths :
       LET before == Resolved(d)
           after == resolve_connection(listeners', d, NoOverride)
           x == listeners[Position(listeners, before.listener_name)]
           y == listeners'[Position(listeners', after.listener_name)]
       IN (Connected(before) /\ Connected(after) /\ x.name # y.name) =>
            \/ ~ Keeps(listeners', x)
            \/ ~ Keeps(listeners, y) /\ Preferable(y, x)
            \/ /\ ~ Keeps(listeners, y) \/ Ahead(listeners, x, y)
               /\ ~ Preferable(x, y) /\ Ahead(listeners', y, x)
    ]_vars

\* The listeners are well formed and their names distinct: what the two properties
\* above rest on.
ListenerInv ==
  /\ listeners \in Seq(Listeners)
  /\ \A i, j \in DOMAIN listeners : listeners[i].name = listeners[j].name => i = j
=============================================================================
