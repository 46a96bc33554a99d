--------------------------- MODULE GeneratedConfig ---------------------------
(***************************************************************************)
(* What the operator derives from a resource for the pod it starts: the    *)
(* kafka-backup configuration (src/adapters/), the files and variables of  *)
(* the pod (src/jobs/templates.rs), and its own access to the same storage *)
(* for retention (src/retention/storage.rs).  The three are computed apart *)
(* from each other and have to fit.                                        *)
(*                                                                         *)
(* A configuration is kept as far as it refers to a place in the pod (a    *)
(* file or an environment variable) or decides what is done to the target  *)
(* cluster; a pod as the set of places filled in it with what fills them.  *)
(***************************************************************************)
EXTENDS Naturals

InvalidConfig == "InvalidConfig"

IsError(r) == "error" \in DOMAIN r

-----------------------------------------------------------------------------
(***************************************************************************)
(* The connection c to a listener with credentials a (see                  *)
(* StrimziResolution).                                                     *)
(***************************************************************************)
\* Mutant: the listener's encryption is not looked at for SCRAM.
ProtocolWithoutTls(c, a) ==
  IF a.kind = "tls" THEN "SSL"
  ELSE IF a.kind = "scram-sha-512" THEN "SASL_PLAINTEXT"
  ELSE IF c.tls_enabled THEN "SSL" ELSE "PLAINTEXT"

\* The security protocol, the same for source and target.
security_protocol(c, a) ==
  IF a.kind = "tls" THEN "SSL"
  ELSE IF a.kind = "scram-sha-512"
  THEN IF c.tls_enabled THEN "SASL_SSL" ELSE "SASL_PLAINTEXT"
  ELSE IF c.tls_enabled THEN "SSL" ELSE "PLAINTEXT"

\* The places the source section of a backup refers to.
build_kafka_config(c, a) ==
  (IF c.tls_enabled \/ a.kind = "tls" THEN {"ca.crt"} ELSE {})
    \cup (IF a.kind = "tls" THEN {"user.crt", "user.key"} ELSE {})
    \cup (IF a.kind = "scram-sha-512" THEN {"KAFKA_SASL_PASSWORD"} ELSE {})

\* The target section of a restore is written by a copy of that code.
build_target_config(c, a) ==
  (IF c.tls_enabled \/ a.kind = "tls" THEN {"ca.crt"} ELSE {})
    \cup (IF a.kind = "tls" THEN {"user.crt", "user.key"} ELSE {})
    \cup (IF a.kind = "scram-sha-512" THEN {"KAFKA_SASL_PASSWORD"} ELSE {})

-----------------------------------------------------------------------------
(***************************************************************************)
(* Storage.                                                                *)
(***************************************************************************)
\* The references to credentials a storage section may have.
References(type) ==
  CASE type = "s3" -> {"accessKeySecret", "secretKeySecret", "credentialsSecret"}
    [] type = "azure" -> {"accountKeySecret", "credentialsSecret", "sasTokenSecret",
                          "clientSecretSecret"}
    [] type = "gcs" -> {"credentialsSecret", "serviceAccountPath"}
    [] type = "filesystem" -> {}

StorageTypes == {"s3", "azure", "gcs", "filesystem"}

\* spec.storage: the type, whether it has the section of that type, and the
\* references in that section.
StorageSpecs ==
  UNION {[type : {t}, section : {TRUE}, refs : SUBSET References(t)]
           \cup [type : {t}, section : {FALSE}, refs : {{}}] : t \in StorageTypes}

CredentialsFile == "/credentials/credentials"

\* A path the user gives: what is there is not the operator's doing.
UserPath == "serviceAccountPath"

\* The pairs of table whose first component s refers to.
Given(s, table) == {row[2] : row \in {r \in table : r[1] \in s.refs}}

\* The fields of the configuration that refer to a place, with the place.
build_storage_config(s) ==
  LET azureKey == <<"account_key", "AZURE_STORAGE_KEY">>
      fields ==
        CASE s.type = "s3" -> Given(s,
               {<<"accessKeySecret", <<"access_key", "AWS_ACCESS_KEY_ID">>>>,
                <<"secretKeySecret", <<"secret_key", "AWS_SECRET_ACCESS_KEY">>>>})
          [] s.type = "azure" -> Given(s,
               {<<"credentialsSecret", azureKey>>, <<"accountKeySecret", azureKey>>,
                <<"sasTokenSecret", <<"sas_token", "AZURE_STORAGE_SAS_TOKEN">>>>,
                <<"clientSecretSecret", <<"client_secret", "AZURE_CLIENT_SECRET">>>>})
          [] s.type = "gcs" ->
               IF "credentialsSecret" \in s.refs
               THEN {<<"service_account", CredentialsFile>>}
               ELSE Given(s, {<<UserPath, <<"service_account", UserPath>>>>})
          [] s.type = "filesystem" -> {}
  IN IF s.section THEN [ok |-> fields] ELSE [error |-> InvalidConfig]

\* Mutant: the shared credentials win over the account key.
AccountKeyLast(s) ==
  IF "credentialsSecret" \in s.refs THEN {"credentialsSecret"}
  ELSE s.refs \cap {"accountKeySecret"}

\* The reference that fills AZURE_STORAGE_KEY, if there is one.
account_key_or_credentials(s) ==
  IF "accountKeySecret" \in s.refs THEN {"accountKeySecret"}
  ELSE s.refs \cap {"credentialsSecret"}

\* The places of table that a reference of s fills, with the reference.
Filled(s, table) == {<<row[2], row[1]>> : row \in {r \in table : r[1] \in s.refs}}

\* The places the storage fills in the pod, with the reference that fills them.
add_storage_credentials(s) ==
  CASE s.type = "s3" -> Filled(s,
         {<<"accessKeySecret", "AWS_ACCESS_KEY_ID">>,
          <<"secretKeySecret", "AWS_SECRET_ACCESS_KEY">>,
          <<"credentialsSecret", CredentialsFile>>,
          <<"credentialsSecret", "AWS_SHARED_CREDENTIALS_FILE">>})
    [] s.type = "azure" ->
         {<<"AZURE_STORAGE_KEY", r>> : r \in account_key_or_credentials(s)}
           \cup Filled(s,
             {<<"sasTokenSecret", "AZURE_STORAGE_SAS_TOKEN">>,
              <<"clientSecretSecret", "AZURE_CLIENT_SECRET">>})
    [] s.type = "gcs" -> Filled(s,
         {<<"credentialsSecret", CredentialsFile>>,
          <<"credentialsSecret", "GOOGLE_APPLICATION_CREDENTIALS">>})
    [] s.type = "filesystem" -> {}

\* The credentials the operator itself takes to the storage, with the reference it
\* reads them from; a secret or key that is missing is an error.
build_store(s) ==
  LET first(refs) == IF refs[1] \in s.refs THEN {refs[1]} ELSE s.refs \cap {refs[2]}
      fields ==
        CASE s.type = "s3" ->
               {<<"access_key", r>> : r \in first(<<"accessKeySecret", "credentialsSecret">>)}
               \cup
               {<<"secret_key", r>> : r \in first(<<"secretKeySecret", "credentialsSecret">>)}
               \cup {<<"token", r>> : r \in s.refs \cap {"credentialsSecret"}}
          [] s.type = "azure" ->
               {<<"account_key", r>> :
                  r \in first(<<"accountKeySecret", "credentialsSecret">>)}
               \cup {<<"sas_token", r>> : r \in s.refs \cap {"sasTokenSecret"}}
               \cup {<<"client_secret", r>> : r \in s.refs \cap {"clientSecretSecret"}}
          [] s.type = "gcs" ->
               {<<"service_account", r>> : r \in first(<<"credentialsSecret", UserPath>>)}
          [] s.type = "filesystem" -> {}
  IN IF s.section THEN [ok |-> fields] ELSE [error |-> InvalidConfig]

-----------------------------------------------------------------------------
(***************************************************************************)
(* The pod.                                                                *)
(***************************************************************************)
\* Mutant: the CA is mounted only for an encrypted listener.
MountsForListener(c, a, s) ==
  (IF c.tls_enabled THEN {"ca.crt"} ELSE {})
    \cup (IF a.kind = "tls" THEN a.keys ELSE {})
    \cup (IF a.kind = "scram-sha-512" /\ "password" \in a.keys
          THEN {"KAFKA_SASL_PASSWORD", "password"} ELSE {})
    \cup {p[1] : p \in add_storage_credentials(s)}

\* The places filled in the pod: the CA under the name the configuration uses, the
\* secret of a TLS user under its own keys, the password if the secret has one.
build_volumes_and_mounts(c, a, s) ==
  (IF c.tls_enabled \/ a.kind = "tls" THEN {"ca.crt"} ELSE {})
    \cup (IF a.kind = "tls" THEN a.keys ELSE {})
    \cup (IF a.kind = "scram-sha-512" /\ "password" \in a.keys
          THEN {"KAFKA_SASL_PASSWORD", "password"} ELSE {})
    \cup {p[1] : p \in add_storage_credentials(s)}

-----------------------------------------------------------------------------
(***************************************************************************)
(* The options.                                                            *)
(***************************************************************************)
\* A backup with encryption enabled is refused.
build_backup_options(encryption) ==
  IF encryption THEN [error |-> InvalidConfig] ELSE [ok |-> TRUE]

Switch == {"absent", "true", "false"}

\* The options of a restore that may be refused or decide what is done to the target:
\* pointInTime (an end, a start or both; not a timestamp; offsetFromEnd),
\* existingTopicPolicy, purgeTopics and consumerGroups.
RestoreSpecs ==
  [window : {"absent", "given", "unreadable", "offsetFromEnd"},
   existing_topic_policy : {"absent", "append", "overwrite", "fail"},
   purge_topics : Switch,
   groups_restore : BOOLEAN, auto : Switch,
   mapping : {"none", "identity", "renaming"}, groups : BOOLEAN]

\* Mutant: a restore of consumer groups that names none is let through.
RefusedButNotGroups(r) ==
  \/ r.window \in {"unreadable", "offsetFromEnd"}
  \/ r.existing_topic_policy = "fail"
  \/ r.groups_restore /\ r.mapping = "renaming"

\* purgeTopics, written after the policy, replaces what the policy wrote.
purge_topics(r) ==
  IF r.purge_topics # "absent" THEN r.purge_topics
  ELSE IF r.existing_topic_policy = "overwrite" THEN "true" ELSE "absent"

\* What build_restore_options returns InvalidConfig for.
Refused(r) ==
  \/ r.window \in {"unreadable", "offsetFromEnd"}
  \/ r.existing_topic_policy = "fail"
  \/ r.groups_restore /\ r.mapping = "none" /\ ~ r.groups /\ r.auto # "true"
  \/ r.groups_restore /\ r.mapping = "renaming"

\* The groups whose offsets are restored: those of the mapping win over a list of groups.
consumer_groups(r) ==
  IF ~ r.groups_restore THEN "none"
  ELSE IF r.mapping # "none" THEN "mapping"
  ELSE IF r.groups THEN "groups" ELSE "none"

build_restore_options(r) ==
  LET explicit == r.mapping # "none" \/ r.groups
  IN IF Refused(r) THEN [error |-> InvalidConfig]
     ELSE [time_window |-> r.window = "given",
           purge_topics |-> purge_topics(r),
           reset_consumer_offsets |-> r.groups_restore /\ explicit,
           auto_consumer_groups |-> IF r.groups_restore THEN r.auto ELSE "absent",
           consumer_groups |-> consumer_groups(r)]

\* Whether there is a configuration: build_backup_config_yaml for a storage and options,
\* build_restore_config_yaml for the storage of the source, options and whether
\* resolve_backup_id finds a backup id.
build_backup_config_yaml(s, encryption) ==
  ~ IsError(build_storage_config(s)) /\ ~ IsError(build_backup_options(encryption))

build_restore_config_yaml(s, r, hasId) ==
  hasId /\ ~ IsError(build_storage_config(s)) /\ ~ IsError(build_restore_options(r))

\* What may come of the resources there are.
ConfigOutcomes ==
  {build_backup_config_yaml(s, e) : s \in StorageSpecs, e \in BOOLEAN}
    \cup {build_restore_config_yaml(s, r, i) :
             s \in StorageSpecs, r \in RestoreSpecs, i \in BOOLEAN}

-----------------------------------------------------------------------------
\* The credentials of a storage type, by their field in the configuration.
Fields(type) ==
  CASE type = "s3" -> {"access_key", "secret_key"}
    [] type = "azure" -> {"account_key", "sas_token", "client_secret"}
    [] type = "gcs" -> {"service_account"}
    [] type = "filesystem" -> {}

\* The reference that fills the place a field of the configuration refers to; for a
\* key that is not there kafka-backup takes the shared credentials file.
PodCredential(s, field) ==
  LET named == {f[2] : f \in {f \in build_storage_config(s).ok : f[1] = field}}
      places == IF named = {} /\ s.type = "s3" THEN {CredentialsFile} ELSE named
  IN {p[2] : p \in {p \in add_storage_credentials(s) : p[1] \in places}}
       \cup (named \cap {UserPath})

OperatorCredential(s, field) ==
  {f[2] : f \in {f \in build_store(s).ok : f[1] = field}}

SameCredentials ==
  \A s \in StorageSpecs :
    /\ IsError(build_storage_config(s)) <=> IsError(build_store(s))
    /\ ~ IsError(build_store(s)) =>
         \A field \in Fields(s.type) :
           PodCredential(s, field) = OperatorCredential(s, field)

OptionsAsAsked ==
  \A r \in RestoreSpecs :
    LET options == build_restore_options(r)
    IN ~ IsError(options) =>
         /\ options.purge_topics = "true" <=>
              \/ r.purge_topics = "true"
              \/ r.existing_topic_policy = "overwrite" /\ r.purge_topics # "false"
         /\ options.reset_consumer_offsets <=> options.consumer_groups # "none"
         /\ options.consumer_groups # "none" => r.groups_restore
         /\ r.groups_restore =>
              options.consumer_groups # "none" \/ options.auto_consumer_groups = "true"
         /\ options.time_window <=> r.window # "absent"
=============================================================================
