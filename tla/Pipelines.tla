----------------------------- MODULE Pipelines -----------------------------
(***************************************************************************)
(* What the composition functions of the services answer: for a snapshot   *)
(* of the composite and its composed resources, which resources are        *)
(* desired, which of them may be deleted, how the main resource is         *)
(* rendered and which status is written.  One operator per step of a       *)
(* service's pipeline; a step that returns a warning ends early, and the   *)
(* steps after it run all the same.                                        *)
(*                                                                         *)
(* Resources that every pass desires whatever it sees (namespaces, network *)
(* policies, issuers, config maps) are left out.                           *)
(***************************************************************************)
EXTENDS Naturals, FiniteSets

\* What AddK8upBackup creates.
K8up == {"backup", "repo-password", "schedule"}
Luks(i) == IF i = 0 THEN "luks-key-0" ELSE "luks-key-1"

\* The composed resources of every service. "profile" stands for the profile
\* and the configuration of StackGres, "pg" for the nested PostgreSQL.
Composed == [
  stackgres |-> {"certificate", "profile", "cluster", "pg-bucket", "sg-backup",
                 "podmonitor", "copy-job", "luks-key-0", "luks-key-1"},
  cnpg      |-> {"copy-job", "recovery-creds", "recovery-store", "backup", "release", "luks-key-0"},
  keycloak  |-> {"pg", "copy-job", "restore-creds", "credentials", "release"},
  nextcloud |-> {"pg", "credentials", "release", "collabora"} \cup K8up,
  redis     |-> {"credentials", "server-cert", "tls-observer", "release"} \cup K8up,
  mariadb   |-> {"credentials", "server-cert", "tls-observer", "release", "proxysql"} \cup K8up,
  forgejo   |-> {"credentials", "release"} \cup K8up,
  minio     |-> {"release", "service-observer", "service-monitor", "sli-bucket"},
  openbao   |-> {"release", "init-observer", "init-job"},
  garage    |-> {"release"}]

ServiceNames == DOMAIN Composed
Names == UNION {Composed[x] : x \in ServiceNames}
Main(service) == IF service = "stackgres" THEN "cluster" ELSE "release"
Bucket(service) == IF service = "stackgres" THEN "pg-bucket" ELSE "backup"

\* How the main resource, or for "san" the certificate, is rendered.
Tags == {"encrypted", "backup", "recovery", "db", "san"}

Spec0 == [service: ServiceNames, encrypted: BOOLEAN, backup: BOOLEAN, restore: BOOLEAN,
          instances: 0..2]
Status == [instances: 0..2, initialized: BOOLEAN]
External == {"off", "waiting", "known", "covered"}
Retention == {"none", "running", "over"}

\* The request: settings and status of the composite, the resources that exist,
\* are Ready and have reported a manifest or connection details, the label of
\* a bucket whose backups were disabled, and the endpoint outside the cluster.
Snapshot == [spec: Spec0, status: Status, exists: SUBSET Names, ready: SUBSET Names,
             seen: SUBSET Names, retention: Retention, external: External]
Answer == [desired: SUBSET Names, open: SUBSET Names, unready: SUBSET Names,
           assured: SUBSET Names, render: SUBSET Tags, status: Status]

Empty(s) == [desired |-> {}, open |-> {}, unready |-> {}, assured |-> {},
             render |-> {}, status |-> s.status]

\* SetDesiredKubeObject without and with KubeOptionAllowDeletion.
Desire(a, names) == [a EXCEPT !.desired = @ \cup names]
DesireOpen(a, names) == [a EXCEPT !.desired = @ \cup names, !.open = @ \cup names]
When(cond, names) == IF cond THEN names ELSE {}
-----------------------------------------------------------------------------
(* The runtime. *)

WaitForObservedDependencies(s, main, deps) == main \in s.exists \/ deps \subseteq s.ready

\* The desired resources of the request are empty, so nothing is there already.
WaitForDesiredDependencies(s, deps) == deps \subseteq s.ready

WaitForObservedDependenciesWithConnectionDetails(s, main, dep) ==
  \/ main \in s.exists
  \/ dep \in s.ready \cap s.seen

\* A count of zero is left out of the status, so merging keeps the older one.
SetDesiredCompositeStatus(old, new) == IF new = 0 THEN old ELSE new

\* Mutant: what does not exist yet is not counted.
CheckReadiness_Existing(s, a) ==
  \A r \in a.desired \cap s.exists : r \notin a.unready /\ (r \in s.ready \/ r \in a.assured)

\* checkReadiness: what a step has said of a resource counts, for the others
\* the Ready condition.
CheckReadiness(s, a) ==
  \A r \in a.desired : r \notin a.unready /\ (r \in s.ready \/ r \in a.assured)
-----------------------------------------------------------------------------
(* Backups. *)

\* CreateObjectBucket: a bucket with backups in it stays until the retention
\* after disabling them is over.
KeepsBucket(s) ==
  \/ s.spec.backup
  \/ Bucket(s.spec.service) \in s.exists /\ s.retention # "over"

AddObjectBucket(s, a) == Desire(a, When(KeepsBucket(s), {Bucket(s.spec.service)}))

\* The password stays as long as there is a bucket; the schedule is not for
\* suspended instances.  It does not wait for the bucket: GetBucketCredentials
\* returns no error for one that is missing.
AddK8upBackup(s, a) ==
  DesireOpen(AddObjectBucket(s, a),
    When(s.spec.backup \/ "backup" \in s.exists, {"repo-password"})
      \cup When(s.spec.backup /\ s.spec.instances # 0, {"schedule"}))
-----------------------------------------------------------------------------
(* PostgreSQL by StackGres. *)

\* The cluster counts as unready until the profile was seen.
SetClusterUnready(s, a) ==
  [a EXCEPT !.unready = @ \cup When("profile" \notin s.seen, {"cluster"})]

\* No resource is called "sgbackup", so an existing "sg-backup" waits again.
CreatesSgObjectStorage(s) == WaitForObservedDependencies(s, "sgbackup", {"certificate"})

DeployStackGres(s, a) ==
  LET objects == SetClusterUnready(s, Desire(a, {"certificate", "profile", "cluster"}))
      stored == AddObjectBucket(s, objects)
  IN IF s.spec.backup /\ ~CreatesSgObjectStorage(s) THEN stored
     ELSE DesireOpen(Desire(stored, {"podmonitor"}),
            When(s.spec.backup, {"sg-backup"}) \cup When(s.spec.restore, {"copy-job"}))

\* Keys are written one after the other, each waits for the one before; the
\* storage class is set after the last.
AddPvcSecret(s, a) ==
  LET pods == 0..(s.spec.instances - 1)
      written == {i \in pods : \A j \in 0..(i - 1) : WaitForDesiredDependencies(s, {Luks(j)})}
      keyed == \A i \in pods : WaitForDesiredDependencies(s, {Luks(i)})
  IN IF ~s.spec.encrypted THEN a
     ELSE [Desire(a, {Luks(i) : i \in written}) EXCEPT
             !.render = @ \cup When(keyed, {"encrypted"})]

\* Mutant: the backup storage is not waited for.
DelayClusterDeployment_NoBackup(s, a) ==
  IF "cluster" \in s.exists \/ "profile" \in s.ready THEN a
  ELSE [a EXCEPT !.desired = @ \ {"cluster"}]

DelayClusterDeployment(s, a) ==
  IF \/ "cluster" \in s.exists
     \/ {"profile"} \cup When(s.spec.backup, {"sg-backup"}) \subseteq s.ready
  THEN a
  ELSE [a EXCEPT !.desired = @ \ {"cluster"}]

StackGres(s) == DelayClusterDeployment(s, AddPvcSecret(s, DeployStackGres(s, Empty(s))))
-----------------------------------------------------------------------------
(* PostgreSQL by CloudNativePG. *)

\* handleRestore asks for a resource called after the chart, the release is
\* called after the composite.
RecoveryComplete(s) == "release-cnpg" \in s.ready

HandleRestore(s, a) ==
  LET copied == DesireOpen(a, {"copy-job", "recovery-creds"})
  IN CASE ~s.spec.restore -> a
       [] s.spec.restore /\ ("recovery-creds" \notin s.seen \/ RecoveryComplete(s)) -> copied
       [] OTHER -> [DesireOpen(copied, {"recovery-store"}) EXCEPT !.render = @ \cup {"recovery"}]

SkipsRelease(s) == s.spec.restore /\ "recovery-creds" \notin s.seen

\* insertBackupValues fails without the connection details of the bucket.
SetupBackupFails(s) == s.spec.backup /\ s.spec.instances # 0 /\ "backup" \notin s.exists

DeployCnpg(s, a) ==
  LET restored == HandleRestore(s, a)
      stored == AddObjectBucket(s, restored)
  IN IF SkipsRelease(s) THEN restored
     ELSE IF SetupBackupFails(s) THEN stored
     ELSE [Desire(stored, {"release"}) EXCEPT
             !.render = @ \cup When(s.spec.encrypted, {"encrypted"})
                          \cup When(s.spec.backup /\ s.spec.instances # 0, {"backup"})]

\* The connection details of the release name the instances that need keys.
AddLuksKeys(s, a) == DesireOpen(a, When(s.spec.encrypted /\ "release" \in s.seen, {"luks-key-0"}))

Cnpg(s) == AddLuksKeys(s, DeployCnpg(s, Empty(s)))
-----------------------------------------------------------------------------
(* Services by Helm. *)

\* Mutant: an existing release waits like a new one.
DatabaseReady_Always(s, release) ==
  WaitForObservedDependenciesWithConnectionDetails(s, "composite", "pg")

\* The release waits for the database, an existing one does not.
DatabaseReady(s, release) ==
  \/ release \in s.exists
  \/ WaitForObservedDependenciesWithConnectionDetails(s, "composite", "pg")

\* copyKeycloakCredentials and AddCredentialsSecret.
AddAdminSecret(s, a) ==
  IF ~s.spec.restore THEN Desire(a, {"credentials"})
  ELSE Desire(a, {"copy-job", "restore-creds"} \cup When("restore-creds" \in s.seen, {"credentials"}))

DeployKeycloak(s, a) ==
  LET db == Desire(a, {"pg"})
      admin == AddAdminSecret(s, db)
  IN IF ~DatabaseReady(s, "release") THEN db
     ELSE [Desire(admin, When("credentials" \in admin.desired \cap s.exists, {"release"})) EXCEPT
             !.render = @ \cup {"db"}]

Keycloak(s) == DeployKeycloak(s, Empty(s))

\* The warning that the database is not ready is dropped: the release is
\* rendered without it.
DeployNextcloud(s, a) ==
  LET release == {"credentials", "pg"} \subseteq s.exists
      db == WaitForObservedDependenciesWithConnectionDetails(s, "composite", "pg")
  IN [Desire(a, {"pg", "credentials"} \cup When(release, {"release"})) EXCEPT
        !.render = @ \cup When(db, {"db"})]

DeployCollabora(s, a) ==
  Desire(a, When(WaitForObservedDependencies(s, "composite", {"release"}), {"collabora"}))

Nextcloud(s) == DeployCollabora(s, AddK8upBackup(s, DeployNextcloud(s, Empty(s))))

\* Mutant: an endpoint that is not known yet is not waited for.
GateExternalCertReadiness_Known(s, a) ==
  CASE s.external \in {"off", "waiting"} -> a
    [] s.external = "known"   -> [DesireOpen(a, {"tls-observer"}) EXCEPT !.unready = @ \cup {"server-cert"}]
    [] s.external = "covered" -> [DesireOpen(a, {"tls-observer"}) EXCEPT !.assured = @ \cup {"server-cert"}]

\* The certificate counts as unready until it covers the endpoint.
GateExternalCertReadiness(s, a) ==
  CASE s.external = "off"     -> a
    [] s.external = "waiting" -> [a EXCEPT !.unready = @ \cup {"server-cert"}]
    [] s.external = "known"   -> [DesireOpen(a, {"tls-observer"}) EXCEPT !.unready = @ \cup {"server-cert"}]
    [] s.external = "covered" -> [DesireOpen(a, {"tls-observer"}) EXCEPT !.assured = @ \cup {"server-cert"}]

\* The certificate names the endpoint as soon as that is known.
AddServerCert(s, a) ==
  [Desire(a, {"credentials", "server-cert"}) EXCEPT
     !.render = @ \cup When(s.external \in {"known", "covered"}, {"san"})]

DeployRedis(s, a) == Desire(GateExternalCertReadiness(s, AddServerCert(s, a)), {"release"})
Redis(s) == AddK8upBackup(s, DeployRedis(s, Empty(s)))

DeployMariadb(s, a) == Desire(GateExternalCertReadiness(s, AddServerCert(s, a)), {"release"})

\* Mutant: ProxySQL is not opened for deletion before it goes.
AddProxySQL_Protected(s, a) ==
  IF s.spec.instances <= 1 \/ "server-cert" \notin s.exists THEN a
  ELSE [Desire(a, {"proxysql"}) EXCEPT !.status.instances = s.spec.instances]

\* When the number of instances changes, ProxySQL stays for one more pass, in
\* which its protection is taken off.
AddProxySQL(s, a) ==
  LET disableProtection == s.status.instances # 0 /\ s.spec.instances # s.status.instances
  IN IF (s.spec.instances <= 1 /\ ~disableProtection) \/ "server-cert" \notin s.exists THEN a
     ELSE [Desire(a, {"proxysql"}) EXCEPT
             !.open = @ \cup When(disableProtection, {"proxysql"}),
             !.status.instances = SetDesiredCompositeStatus(@, s.spec.instances)]

MariaDB(s) == AddProxySQL(s, AddK8upBackup(s, DeployMariadb(s, Empty(s))))

DeployForgejo(s, a) == Desire(a, {"credentials"} \cup When("credentials" \in s.exists, {"release"}))
Forgejo(s) == AddK8upBackup(s, DeployForgejo(s, Empty(s)))

DeployMinio(s, a) ==
  Desire(a, {"release", "service-observer", "service-monitor"}
              \cup When("service-observer" \in s.seen, {"sli-bucket"}))
Minio(s) == DeployMinio(s, Empty(s))

\* Mutant: the status is not looked at.
InitOpenBao_Secret(s, a) ==
  DesireOpen(a, {"init-observer"} \cup When("init-observer" \notin s.seen, {"init-job"}))

\* The job goes once its output was seen, and does not come back.
InitOpenBao(s, a) ==
  DesireOpen(a, {"init-observer"}
    \cup When(~s.status.initialized /\ "init-observer" \notin s.seen, {"init-job"}))

UpdateStatus(s, a) ==
  [a EXCEPT !.status.initialized = @ \/ "init-observer" \in s.seen]

OpenBao(s) == UpdateStatus(s, InitOpenBao(s, Desire(Empty(s), {"release"})))
Garage(s) == Desire(Empty(s), {"release"})
-----------------------------------------------------------------------------
\* The steps registered for each service.
Respond(s) ==
  CASE s.spec.service = "stackgres" -> StackGres(s)
    [] s.spec.service = "cnpg"      -> Cnpg(s)
    [] s.spec.service = "keycloak"  -> Keycloak(s)
    [] s.spec.service = "nextcloud" -> Nextcloud(s)
    [] s.spec.service = "redis"     -> Redis(s)
    [] s.spec.service = "mariadb"   -> MariaDB(s)
    [] s.spec.service = "forgejo"   -> Forgejo(s)
    [] s.spec.service = "minio"     -> Minio(s)
    [] s.spec.service = "openbao"   -> OpenBao(s)
    [] s.spec.service = "garage"    -> Garage(s)
============================================================================
