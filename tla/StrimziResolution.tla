-------------------------- MODULE StrimziResolution --------------------------
(***************************************************************************)
(* Steps 1 to 4 of both reconcilers: resolving the Strimzi Kafka resource  *)
(* and the credentials (src/strimzi/), and the configuration and the pod   *)
(* GeneratedConfig makes of them.                                          *)
(*                                                                         *)
(* The resources are read one call after the other while they change, and  *)
(* while Strimzi is upgraded: old releases serve v1beta2, newer ones both  *)
(* versions, 1.0 and later only v1.  A resolution keeps nothing of the one *)
(* before it, so one is followed, from whatever it finds at its start.     *)
(***************************************************************************)
EXTENDS ListenerSelection

CONSTANTS
  MaxResolved,     \* bound: listeners and addresses once anything but them changes
  CertificateKeys  \* values of spec.authentication.certificateAndKey, by the keys
                   \* it names: of {"absent", "user.crt", "custom"}

ASSUME ResolutionConstants ==
  /\ MaxResolved \in Nat
  /\ CertificateKeys \subseteq {"absent", "user.crt", "custom"}

VARIABLES
  releases,    \* API versions Strimzi serves
  kafka,       \* whether the Kafka resource exists
  user,        \* authentication.type of the KafkaUser, or "absent"
  spec,        \* the KafkaBackup's or KafkaRestore's reference to all that
  pc,          \* the call that resolves it
  connection,  \* what resolve_kafka_cluster returned
  auth,        \* what resolve_auth returned
  result,      \* the outcome: an error or the pod
  chosen,      \* history: the listener the connection leads to
  everAbsent,  \* history: whether kafka was absent while it was looked for
  upgrades     \* history: Strimzi upgrades meanwhile

strimzi == <<listeners, addresses, releases, kafka, user>>
resolution == <<spec, pc, connection, auth, result, chosen>>
allVars == <<listeners, addresses, releases, kafka, user, spec, pc, connection, auth,
             result, chosen, everAbsent, upgrades>>

Versions == <<{"v1beta2"}, {"v1beta2", "v1"}, {"v1"}>>

\* passwordSecret and username come together or one is missing.
AuthSpecs ==
  {[type |-> "none", userRef |-> FALSE, certificate |-> "absent", password |-> "absent"]}
    \cup [type : {"tls"}, userRef : BOOLEAN, certificate : CertificateKeys,
          password : {"absent"}]
    \cup [type : {"scram-sha-512"}, userRef : BOOLEAN, certificate : {"absent"},
          password : {"absent", "username_missing", "given"}]

Nothing == [none |-> TRUE]

ResolutionInit ==
  /\ Init
  /\ releases \in {Versions[i] : i \in 1..3} /\ kafka = TRUE /\ user = "absent"
  /\ spec = [type |-> "none", userRef |-> FALSE, certificate |-> "absent",
             password |-> "absent"]
  /\ pc = "idle" /\ connection = Nothing /\ auth = Nothing /\ result = Nothing
  /\ chosen = Nothing /\ everAbsent = FALSE /\ upgrades = 0

\* Nothing but the listeners has changed so far: what the properties of
\* ListenerSelection say of long lists depends on nothing else.
OnlyListeners ==
  /\ releases = Versions[1] /\ kafka /\ user = "absent"
  /\ pc = "idle" /\ result = Nothing

\* Bound: the port of the listeners but in the shortest lists at the beginning.
UsualPorts(ls) == \A i \in DOMAIN ls : ls[i].port = CHOOSE p \in Ports : TRUE

FewListeners ==
  /\ Len(listeners) <= MaxResolved /\ Cardinality(addresses) <= MaxResolved
  /\ UsualPorts(listeners)

-----------------------------------------------------------------------------
Fail(reason) ==
  /\ pc' = "idle" /\ result' = [error |-> reason]
  /\ UNCHANGED <<connection, auth, chosen>>

\* A reconciliation of a resource with any authentication, without an override.
StartResolve ==
  /\ pc = "idle" /\ result = Nothing /\ FewListeners
  /\ spec' \in AuthSpecs
  /\ pc' = "kafka_v1" /\ everAbsent' = ~ kafka
  /\ UNCHANGED <<strimzi, connection, auth, result, chosen, upgrades>>

\* resolve_connection on the resource that was found.
ClusterFound ==
  LET c == resolve_connection(listeners, spec.type, NoOverride)
  IN /\ everAbsent' = FALSE /\ upgrades' = 0
     /\ IF Connected(c)
        THEN /\ connection' = c /\ pc' = "auth"
             /\ chosen' = select_listener(listeners, spec.type, NoOverride).ok
             /\ UNCHANGED <<auth, result>>
        ELSE Fail(c.error)

\* Mutant: there is no second attempt.
NoFallback(version) == "none"

\* get_namespaced_resource: what a 404 of `version` is followed by.
Fallback(version) == IF version = "v1" THEN "v1beta2" ELSE "none"

\* An error other than 404 ends the resolution.
KubeError == "Kube"

GetKafka ==
  /\ \E v \in {"v1", "v1beta2"} :
       /\ pc = (IF v = "v1" THEN "kafka_v1" ELSE "kafka_v1beta2")
       /\ \/ kafka /\ v \in releases /\ ClusterFound
          \/ /\ ~ (kafka /\ v \in releases)
             /\ IF Fallback(v) # "none"
                THEN pc' = "kafka_v1beta2" /\ UNCHANGED <<connection, auth, result, chosen>>
                ELSE Fail("StrimziClusterNotFound")
             /\ UNCHANGED <<everAbsent, upgrades>>
          \/ Fail(KubeError) /\ UNCHANGED <<everAbsent, upgrades>>
  /\ UNCHANGED <<strimzi, spec>>

\* The credentials resolve_auth returns: their kind, and of the secret that holds them
\* the keys and the kind of credentials it was made for.
Credentials(kind, keys, made) == [kind |-> kind, keys |-> keys, made |-> made]

\* The keys of the secret the User Operator makes.
UserKeys(type) == IF type = "tls" THEN {"user.crt", "user.key"} ELSE {"password"}

\* The keys certificateAndKey names: the ones Strimzi uses, or others.
CertificateFiles(c) ==
  IF c = "user.crt" THEN {"user.crt", "user.key"} ELSE {"tls.crt", "tls.key"}

\* resolve_auth, up to the reading of a KafkaUser: kafkaUserRef wins over manual
\* references.
ResolveAuth ==
  /\ pc = "auth"
  /\ IF spec.type = "none"
     THEN /\ auth' = Credentials("none", {}, "none") /\ pc' = "build"
          /\ UNCHANGED <<connection, result, chosen>>
     ELSE IF spec.userRef
     THEN pc' = "user_v1" /\ UNCHANGED <<connection, auth, result, chosen>>
     ELSE IF spec.type = "tls" /\ spec.certificate # "absent"
     THEN /\ auth' = Credentials("tls", CertificateFiles(spec.certificate), "tls")
          /\ pc' = "build" /\ UNCHANGED <<connection, result, chosen>>
     ELSE IF spec.type = "scram-sha-512" /\ spec.password = "given"
     THEN /\ auth' = Credentials("scram-sha-512", {"password"}, "scram-sha-512")
          /\ pc' = "build" /\ UNCHANGED <<connection, result, chosen>>
     ELSE Fail(InvalidConfig)
  /\ UNCHANGED <<strimzi, spec, everAbsent, upgrades>>

\* resolve_kafka_user_secret: status.secret, or the user's name while that is not
\* set; Strimzi names the secret after the user, so both are the same secret.  The
\* type of the KafkaUser is not looked at.
ResolveKafkaUserSecret ==
  /\ \E v \in {"v1", "v1beta2"} :
       /\ pc = (IF v = "v1" THEN "user_v1" ELSE "user_v1beta2")
       /\ \/ /\ user # "absent" /\ v \in releases
             /\ auth' = Credentials(spec.type, UserKeys(user), user)
             /\ pc' = "build" /\ UNCHANGED <<connection, result, chosen>>
          \/ /\ ~ (user # "absent" /\ v \in releases)
             /\ IF Fallback(v) # "none"
                THEN pc' = "user_v1beta2" /\ UNCHANGED <<connection, auth, result, chosen>>
                ELSE Fail("KafkaUserNotFound")
          \/ Fail(KubeError)
  /\ UNCHANGED <<strimzi, spec, everAbsent, upgrades>>

\* The configuration, if the rest of the resource gives one, and the pod.
BuildPod ==
  /\ pc = "build"
  /\ \E accepted \in ConfigOutcomes :
       IF accepted
       THEN /\ pc' = "idle"
            /\ result' = [protocol |-> security_protocol(connection, auth)]
            /\ UNCHANGED <<connection, auth, chosen>>
       ELSE Fail(InvalidConfig)
  /\ UNCHANGED <<strimzi, spec, everAbsent, upgrades>>

-----------------------------------------------------------------------------
(***************************************************************************)
(* Strimzi and its users.                                                  *)
(***************************************************************************)
LookedFor == pc \in {"kafka_v1", "kafka_v1beta2"}

\* While something, or the Kafka resource, is still to be read; later changes make no
\* difference.
Open == pc # "build" /\ result = Nothing
KafkaOpen == (pc = "idle" \/ LookedFor) /\ result = Nothing

ListenersChange ==
  /\ KafkaOpen /\ Next
  /\ OnlyListeners \/ (Len(listeners') <= MaxResolved /\ UsualPorts(listeners'))
  /\ Len(listeners') <= MaxResolved \/ UsualPorts(listeners')
  /\ UNCHANGED <<releases, kafka, user, resolution, everAbsent, upgrades>>

StrimziUpgraded ==
  /\ Open /\ FewListeners
  /\ \E i \in 1..2 : releases = Versions[i] /\ releases' = Versions[i + 1]
  /\ upgrades' = IF LookedFor THEN upgrades + 1 ELSE upgrades
  /\ UNCHANGED <<listeners, addresses, kafka, user, resolution, everAbsent>>

KafkaChanges ==
  /\ KafkaOpen /\ FewListeners
  /\ kafka' = ~ kafka
  /\ everAbsent' = (everAbsent \/ (LookedFor /\ ~ kafka'))
  /\ UNCHANGED <<listeners, addresses, releases, user, resolution, upgrades>>

KafkaUserChanges ==
  /\ Open /\ FewListeners
  /\ user' \in {"absent", "tls", "scram-sha-512"} \ {user}
  /\ UNCHANGED <<listeners, addresses, releases, kafka, resolution, everAbsent,
                 upgrades>>

ResolutionNext ==
  \/ StartResolve \/ GetKafka \/ ResolveAuth \/ ResolveKafkaUserSecret \/ BuildPod
  \/ ListenersChange \/ StrimziUpgraded \/ KafkaChanges \/ KafkaUserChanges

ResolutionSpec == ResolutionInit /\ [][ResolutionNext]_allVars

-----------------------------------------------------------------------------
HasPod == "protocol" \in DOMAIN result

\* The pod talks to the listener it was pointed at the way that listener expects,
\* although listener and credentials were resolved at different times (issue #37).
ProtocolFitsListener ==
  HasPod =>
    /\ result.protocol \in {"SASL_SSL", "SASL_PLAINTEXT"} <=> chosen.auth = "scram-sha-512"
    /\ result.protocol \in {"SSL", "SASL_SSL"} <=> (chosen.tls \/ chosen.auth = "tls")

\* Every file and variable the configuration of a backup or a restore refers to is there
\* in the pod, whatever the storage: configuration and pod follow from the same reading
\* of the cluster but are computed apart.  (Provided the KafkaUser is of the type the
\* resource asks for: no code checks that.)
ConfigIsMounted ==
  HasPod /\ auth.made = auth.kind =>
    \A s \in StorageSpecs : ~ IsError(build_storage_config(s)) =>
      (build_kafka_config(connection, auth) \cup build_target_config(connection, auth)
         \cup {f[2] : f \in build_storage_config(s).ok}) \ {UserPath}
        \subseteq build_volumes_and_mounts(connection, auth, s)

\* "StrimziClusterNotFound" is reported only for a Kafka resource that was not there
\* at some moment of the resolution, unless Strimzi was upgraded twice meanwhile.
NotFoundIsGenuine ==
  result = [error |-> "StrimziClusterNotFound"] => everAbsent \/ upgrades > 1

\* When a pod has been given its storage, the operator prunes that storage with the very
\* credentials the pod writes it with, whichever of the alternative references to them
\* the resource has; otherwise every retention would fail behind backups that succeed.
\* (Of a shared credentials file only the keys are compared, not a session token.)
StorageAgrees == HasPod => SameCredentials

\* A restore whose pod is started destroys and resets nothing it was not asked to, and
\* does what it was asked to: topics are purged for `overwrite` or purgeTopics but not
\* against purgeTopics: false, offsets are reset of groups that are named and only then,
\* a restore of consumer groups has some to restore, and a restore of a time window is
\* bounded by it.  (The groups of a mapping take the place of a list of groups.)
RestoreDoesWhatIsAsked == HasPod => OptionsAsAsked

-----------------------------------------------------------------------------
(***************************************************************************)
(* What the properties of a resolution rest on.                            *)
(***************************************************************************)
\* The calls of a resolution that has chosen a listener.
AfterCluster == {"auth", "user_v1", "user_v1beta2", "build"}

\* The listener that was chosen takes the kind of credentials that are resolved after it.
ListenerFitsSpec ==
  pc \in AfterCluster \/ HasPod =>
    /\ chosen \in Listeners /\ chosen.auth = spec.type
    /\ connection.tls_enabled = chosen.tls

CredentialsFitSpec ==
  pc = "build" \/ HasPod =>
    /\ auth.kind = spec.type
    /\ auth.kind = "tls" /\ auth.made = "tls" /\ "custom" \notin CertificateKeys =>
         {"user.crt", "user.key"} \subseteq auth.keys
    /\ auth.kind = "scram-sha-512" /\ auth.made = "scram-sha-512" =>
         "password" \in auth.keys

PodInv ==
  /\ spec \in AuthSpecs /\ ListenerFitsSpec /\ CredentialsFitSpec
  /\ HasPod => pc = "idle" /\ result.protocol = security_protocol(connection, auth)

\* After the first 404 of a Kafka resource that is there, the release serves v1beta2
\* only, or it has been upgraded since.
SecondLookup ==
  pc = "kafka_v1beta2" /\ ~ everAbsent =>
    \/ releases = Versions[1]
    \/ releases = Versions[2] /\ upgrades >= 1
    \/ upgrades >= 2

LookupInv ==
  /\ releases \in {Versions[i] : i \in 1..3} /\ upgrades \in Nat
  /\ kafka \in BOOLEAN /\ everAbsent \in BOOLEAN
  /\ LookedFor /\ ~ everAbsent => kafka
  /\ result # Nothing => pc = "idle"
  /\ SecondLookup /\ NotFoundIsGenuine
=============================================================================
