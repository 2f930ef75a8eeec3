--------------------------- MODULE ServicesProofs ---------------------------
(* Machine-checked proofs about Services. *)
EXTENDS Services, TLAPS

-----------------------------------------------------------------------------
(* Names. *)

LEMMA ServicesAre ==
  /\ ServiceNames = {"stackgres", "cnpg", "keycloak", "nextcloud", "redis", "mariadb", "forgejo",
                     "minio", "openbao", "garage"}
  /\ \A x \in ServiceNames : Composed[x] \subseteq Names
  <1>1. ServiceNames = {"stackgres", "cnpg", "keycloak", "nextcloud", "redis", "mariadb", "forgejo",
                        "minio", "openbao", "garage"}
    BY DEF ServiceNames, Composed
  <1>2. \A x \in ServiceNames : Composed[x] \subseteq Names
    BY DEF Names
  <1> QED
    BY <1>1, <1>2

LEMMA ComposedAre ==
  /\ Composed["stackgres"] = {"certificate", "profile", "cluster", "pg-bucket", "sg-backup",
                              "podmonitor", "copy-job", "luks-key-0", "luks-key-1"}
  /\ Composed["cnpg"] = {"copy-job", "recovery-creds", "recovery-store", "backup", "release", "luks-key-0"}
  /\ Composed["keycloak"] = {"pg", "copy-job", "restore-creds", "credentials", "release"}
  /\ Composed["nextcloud"] = {"pg", "credentials", "release", "collabora"} \cup K8up
  /\ Composed["redis"] = {"credentials", "server-cert", "tls-observer", "release"} \cup K8up
  /\ Composed["mariadb"] = {"credentials", "server-cert", "tls-observer", "release", "proxysql"} \cup K8up
  /\ Composed["forgejo"] = {"credentials", "release"} \cup K8up
  /\ Composed["minio"] = {"release", "service-observer", "service-monitor", "sli-bucket"}
  /\ Composed["openbao"] = {"release", "init-observer", "init-job"}
  /\ Composed["garage"] = {"release"}
  BY DEF Composed

\* No resource is called like the composite or like the former backup of StackGres.
LEMMA NoName == "composite" \notin Names /\ "sgbackup" \notin Names
  <1>1. \A x \in ServiceNames : "composite" \notin Composed[x] /\ "sgbackup" \notin Composed[x]
    BY ServicesAre, ComposedAre DEF K8up
  <1> QED
    BY <1>1 DEF Names
-----------------------------------------------------------------------------
(* The answers of the pipelines. *)

\* An answer by the resources it desires, opens for deletion, calls unready and
\* calls ready.
Is(a, desired, opened, unready, assured) ==
  /\ a \in Answer
  /\ a.desired = desired /\ a.open = opened /\ a.unready = unready /\ a.assured = assured

LEMMA EmptyIs ==
  ASSUME NEW s \in Snapshot
  PROVE  Is(Empty(s), {}, {}, {}, {})
  BY DEF Is, Empty, Answer, Snapshot

LEMMA DesireIs ==
  ASSUME NEW a, NEW d, NEW o, NEW u, NEW x, NEW names, Is(a, d, o, u, x), names \subseteq Names
  PROVE  /\ Is(Desire(a, names), d \cup names, o, u, x)
         /\ Is(DesireOpen(a, names), d \cup names, o \cup names, u, x)
  BY DEF Is, Desire, DesireOpen, Answer

LEMMA RenderIs ==
  ASSUME NEW a, NEW d, NEW o, NEW u, NEW x, NEW tags, Is(a, d, o, u, x), tags \subseteq Tags
  PROVE  Is([a EXCEPT !.render = @ \cup tags], d, o, u, x)
  BY DEF Is, Answer

LEMMA StatusIs ==
  ASSUME NEW a, NEW d, NEW o, NEW u, NEW x, NEW st \in Status, Is(a, d, o, u, x)
  PROVE  Is([a EXCEPT !.status = st], d, o, u, x)
  BY DEF Is, Answer

LEMMA CallsUnready ==
  ASSUME NEW a, NEW d, NEW o, NEW u, NEW x, NEW names, Is(a, d, o, u, x), names \subseteq Names
  PROVE  /\ Is([a EXCEPT !.unready = @ \cup names], d, o, u \cup names, x)
         /\ Is([a EXCEPT !.assured = @ \cup names], d, o, u, x \cup names)
  BY DEF Is, Answer

LEMMA WhenIs ==
  ASSUME NEW c, NEW names
  PROVE  /\ When(c, names) \subseteq names
         /\ c => When(c, names) = names
         /\ ~c => When(c, names) = {}
  BY DEF When

LEMMA AllNames ==
  {"certificate", "profile", "cluster", "pg-bucket", "sg-backup", "podmonitor", "copy-job",
   "luks-key-0", "luks-key-1", "recovery-creds", "recovery-store", "backup", "release", "pg",
   "restore-creds", "credentials", "collabora", "server-cert", "tls-observer", "proxysql",
   "service-observer", "service-monitor", "sli-bucket", "init-observer", "init-job",
   "repo-password", "schedule"} \subseteq Names
  BY ServicesAre, ComposedAre DEF K8up

LEMMA Responds ==
  ASSUME NEW s
  PROVE  /\ s.spec.service = "stackgres" => Respond(s) = StackGres(s)
         /\ s.spec.service = "cnpg" => Respond(s) = Cnpg(s)
         /\ s.spec.service = "keycloak" => Respond(s) = Keycloak(s)
         /\ s.spec.service = "nextcloud" => Respond(s) = Nextcloud(s)
         /\ s.spec.service = "redis" => Respond(s) = Redis(s)
         /\ s.spec.service = "mariadb" => Respond(s) = MariaDB(s)
         /\ s.spec.service = "forgejo" => Respond(s) = Forgejo(s)
         /\ s.spec.service = "minio" => Respond(s) = Minio(s)
         /\ s.spec.service = "openbao" => Respond(s) = OpenBao(s)
         /\ s.spec.service = "garage" => Respond(s) = Garage(s)
  BY DEF Respond

LEMMA GarageIs ==
  ASSUME NEW s \in Snapshot
  PROVE  Is(Garage(s), {"release"}, {}, {}, {})
  <1>1. Is(Garage(s), {} \cup {"release"}, {}, {}, {})
    BY EmptyIs, DesireIs, AllNames DEF Garage
  <1> QED
    BY <1>1 DEF Is

LEMMA OpenBaoIs ==
  ASSUME NEW s \in Snapshot
  PROVE  LET job == When(~s.status.initialized /\ "init-observer" \notin s.seen, {"init-job"})
         IN Is(OpenBao(s), {"release", "init-observer"} \cup job, {"init-observer"} \cup job, {}, {})
  <1> DEFINE job == When(~s.status.initialized /\ "init-observer" \notin s.seen, {"init-job"})
             a == Desire(Empty(s), {"release"})
             b == InitOpenBao(s, a)
             st == [b.status EXCEPT !.initialized = @ \/ "init-observer" \in s.seen]
  <1>1. Is(a, {} \cup {"release"}, {}, {}, {})
    BY EmptyIs, DesireIs, AllNames
  <1>2. {"init-observer"} \cup job \subseteq Names
    BY AllNames DEF When
  <1>3. Is(b, {} \cup {"release"} \cup ({"init-observer"} \cup job),
              {} \cup ({"init-observer"} \cup job), {}, {})
    BY <1>1, <1>2, DesireIs DEF InitOpenBao
  <1>4. st \in Status
    BY <1>3 DEF Is, Answer, Status
  <1>5. OpenBao(s) = [b EXCEPT !.status = st]
    <2>1. b \in Answer
      BY <1>3 DEF Is
    <2>2. OpenBao(s) = [b EXCEPT !.status.initialized = @ \/ "init-observer" \in s.seen]
      BY DEF OpenBao, UpdateStatus
    <2> QED
      BY <2>1, <2>2 DEF Answer
  <1>6. Is(OpenBao(s), {} \cup {"release"} \cup ({"init-observer"} \cup job),
              {} \cup ({"init-observer"} \cup job), {}, {})
    BY <1>3, <1>4, <1>5, StatusIs
  <1> QED
    BY <1>6 DEF Is

LEMMA MinioIs ==
  ASSUME NEW s \in Snapshot
  PROVE  \E more \in SUBSET {"service-observer", "service-monitor", "sli-bucket"} :
           /\ Is(Minio(s), {"release"} \cup more, {}, {}, {})
           /\ {"service-observer", "service-monitor"} \subseteq more
           /\ "sli-bucket" \in more <=> "service-observer" \in s.seen
  <1> DEFINE more == {"service-observer", "service-monitor"}
                       \cup When("service-observer" \in s.seen, {"sli-bucket"})
  <1>1. /\ more \in SUBSET {"service-observer", "service-monitor", "sli-bucket"}
        /\ {"service-observer", "service-monitor"} \subseteq more
        /\ "sli-bucket" \in more <=> "service-observer" \in s.seen
    BY DEF When
  <1>2. Is(Minio(s), {} \cup ({"release"} \cup more), {}, {}, {})
    <2>1. Minio(s) = Desire(Empty(s), {"release"} \cup more)
      BY DEF Minio, DeployMinio, Desire
    <2>2. {"release"} \cup more \subseteq Names
      BY <1>1, AllNames
    <2> HIDE DEF more
    <2>3. Is(Desire(Empty(s), {"release"} \cup more), {} \cup ({"release"} \cup more), {}, {}, {})
      BY <2>2, EmptyIs, DesireIs
    <2> QED
      BY <2>1, <2>3
  <1>3. Is(Minio(s), {"release"} \cup more, {}, {}, {})
    BY <1>2 DEF Is
  <1> QED
    BY <1>1, <1>3

\* The bucket and the objects of K8up.
LEMMA BucketIs ==
  ASSUME NEW s \in Snapshot, NEW a, NEW d, NEW o, NEW u, NEW x, Is(a, d, o, u, x)
  PROVE  Is(AddObjectBucket(s, a), d \cup When(KeepsBucket(s), {Bucket(s.spec.service)}), o, u, x)
  <1>1. When(KeepsBucket(s), {Bucket(s.spec.service)}) \subseteq Names
    BY AllNames DEF When, Bucket
  <1> QED
    BY <1>1, DesireIs DEF AddObjectBucket

LEMMA K8upIs ==
  ASSUME NEW s \in Snapshot, s.spec.service # "stackgres",
         NEW a, NEW d, NEW o, NEW u, NEW x, Is(a, d, o, u, x)
  PROVE  \E b \in SUBSET {"backup"}, k \in SUBSET {"repo-password", "schedule"} :
           /\ Is(AddK8upBackup(s, a), d \cup b \cup k, o \cup k, u, x)
           /\ KeepsBucket(s) => b = {"backup"}
  <1> DEFINE b == When(KeepsBucket(s), {Bucket(s.spec.service)})
             k == When(s.spec.backup \/ "backup" \in s.exists, {"repo-password"})
                    \cup When(s.spec.backup /\ s.spec.instances # 0, {"schedule"})
  <1>1. /\ b \in SUBSET {"backup"} /\ k \in SUBSET {"repo-password", "schedule"}
        /\ KeepsBucket(s) => b = {"backup"}
    BY DEF When, Bucket
  <1>2. Is(AddObjectBucket(s, a), d \cup b, o, u, x)
    BY BucketIs
  <1>3. AddK8upBackup(s, a) = DesireOpen(AddObjectBucket(s, a), k)
    BY DEF AddK8upBackup
  <1> HIDE DEF b, k
  <1>4. k \subseteq Names
    BY <1>1, AllNames
  <1>5. Is(DesireOpen(AddObjectBucket(s, a), k), d \cup b \cup k, o \cup k, u, x)
    BY <1>2, <1>4, DesireIs
  <1> QED
    BY <1>1, <1>3, <1>5

LEMMA ForgejoIs ==
  ASSUME NEW s \in Snapshot, s.spec.service = "forgejo"
  PROVE  \E b \in SUBSET {"backup"}, k \in SUBSET {"repo-password", "schedule"} :
           /\ Is(Forgejo(s), {"credentials"} \cup When("credentials" \in s.exists, {"release"}) \cup b \cup k,
                 k, {}, {})
           /\ KeepsBucket(s) => b = {"backup"}
  <1> DEFINE d == {"credentials"} \cup When("credentials" \in s.exists, {"release"})
  <1>1. d \subseteq Names
    BY AllNames DEF When
  <1>2. DeployForgejo(s, Empty(s)) = Desire(Empty(s), d)
    BY DEF DeployForgejo
  <1> HIDE DEF d
  <1>3. Is(DeployForgejo(s, Empty(s)), {} \cup d, {}, {}, {})
    BY <1>1, <1>2, EmptyIs, DesireIs
  <1>4. Is(DeployForgejo(s, Empty(s)), d, {}, {}, {})
    BY <1>3 DEF Is
  <1>5. PICK b \in SUBSET {"backup"}, k \in SUBSET {"repo-password", "schedule"} :
          /\ Is(AddK8upBackup(s, DeployForgejo(s, Empty(s))), d \cup b \cup k, {} \cup k, {}, {})
          /\ KeepsBucket(s) => b = {"backup"}
    <2> DEFINE a == DeployForgejo(s, Empty(s))
               o == {}
    <2>1. Is(a, d, o, o, o)
      BY <1>4
    <2> HIDE DEF a, o
    <2>2. \E b \in SUBSET {"backup"}, k \in SUBSET {"repo-password", "schedule"} :
            /\ Is(AddK8upBackup(s, a), d \cup b \cup k, o \cup k, o, o)
            /\ KeepsBucket(s) => b = {"backup"}
      BY <2>1, K8upIs
    <2> QED
      BY <2>2 DEF a, o
  <1>6. Is(Forgejo(s), d \cup b \cup k, k, {}, {})
    BY <1>5 DEF Is, Forgejo
  <1> QED
    BY <1>5, <1>6 DEF d

\* The certificate: what is desired, and when it is called unready.
LEMMA CertIs ==
  ASSUME NEW s \in Snapshot
  PROVE  \E o \in SUBSET {"tls-observer"}, u, x \in SUBSET {"server-cert"} :
           /\ Is(GateExternalCertReadiness(s, AddServerCert(s, Empty(s))),
                 {"credentials", "server-cert"} \cup o, o, u, x)
           /\ s.external \in {"waiting", "known"} => u = {"server-cert"}
  <1> DEFINE c == AddServerCert(s, Empty(s))
             g == GateExternalCertReadiness(s, c)
             d == {"credentials", "server-cert"}
             P(o, u, x) == /\ Is(g, d \cup o, o, u, x)
                           /\ s.external \in {"waiting", "known"} => u = {"server-cert"}
  <1>1. Is(Desire(Empty(s), d), {} \cup d, {}, {}, {})
    BY EmptyIs, DesireIs, AllNames
  <1>2. When(s.external \in {"known", "covered"}, {"san"}) \subseteq Tags
    BY DEF When, Tags
  <1>3. Is(c, {} \cup d, {}, {}, {})
    BY <1>1, <1>2, RenderIs DEF AddServerCert
  <1>4. Is(c, d, {}, {}, {})
    BY <1>3 DEF Is
  <1>5. s.external \in {"off", "waiting", "known", "covered"}
    BY DEF Snapshot, External
  <1> HIDE DEF c
  <1> SUFFICES \E o \in SUBSET {"tls-observer"}, u, x \in SUBSET {"server-cert"} : P(o, u, x)
    BY DEF c
  <1>6. CASE s.external = "off"
    <2>1. g = c
      BY <1>6 DEF GateExternalCertReadiness
    <2>2. Is(g, d \cup {}, {}, {}, {})
      BY <1>4, <2>1 DEF Is
    <2>3. P({}, {}, {})
      BY <1>6, <2>2
    <2> HIDE DEF P
    <2> QED
      BY <2>3
  <1>7. CASE s.external = "waiting"
    <2>1. g = [c EXCEPT !.unready = @ \cup {"server-cert"}]
      BY <1>7 DEF GateExternalCertReadiness
    <2>2. Is(g, d, {}, {} \cup {"server-cert"}, {})
      <3> HIDE DEF g, d
      <3> QED
        BY <1>4, <2>1, CallsUnready, AllNames
    <2>3. Is(g, d \cup {}, {}, {"server-cert"}, {})
      BY <2>2 DEF Is
    <2>4. P({}, {"server-cert"}, {})
      BY <2>3
    <2> HIDE DEF P
    <2> QED
      BY <2>4
  <1>8. CASE s.external \in {"known", "covered"}
    <2> DEFINE t == DesireOpen(c, {"tls-observer"})
    <2>1. Is(t, d \cup {"tls-observer"}, {} \cup {"tls-observer"}, {}, {})
      BY <1>4, DesireIs, AllNames
    <2>2. \/ s.external = "known" /\ g = [t EXCEPT !.unready = @ \cup {"server-cert"}]
          \/ s.external = "covered" /\ g = [t EXCEPT !.assured = @ \cup {"server-cert"}]
      BY <1>8 DEF GateExternalCertReadiness
    <2> HIDE DEF t
    <2>3. \/ s.external = "known"
             /\ Is(g, d \cup {"tls-observer"}, {} \cup {"tls-observer"}, {} \cup {"server-cert"}, {})
          \/ s.external = "covered"
             /\ Is(g, d \cup {"tls-observer"}, {} \cup {"tls-observer"}, {}, {} \cup {"server-cert"})
      <3> DEFINE e == d \cup {"tls-observer"}
                 f == {} \cup {"tls-observer"}
      <3>1. Is(t, e, f, {}, {}) /\ {"server-cert"} \subseteq Names
        BY <2>1, AllNames
      <3> HIDE DEF g, d, e, f
      <3>2. /\ Is([t EXCEPT !.unready = @ \cup {"server-cert"}], e, f, {} \cup {"server-cert"}, {})
            /\ Is([t EXCEPT !.assured = @ \cup {"server-cert"}], e, f, {}, {} \cup {"server-cert"})
        BY <3>1, CallsUnready
      <3> QED
        BY <2>2, <3>2 DEF e, f
    <2>4. \/ s.external = "known"
             /\ Is(g, d \cup {"tls-observer"}, {"tls-observer"}, {"server-cert"}, {})
          \/ s.external = "covered"
             /\ Is(g, d \cup {"tls-observer"}, {"tls-observer"}, {}, {"server-cert"})
      BY <2>3 DEF Is
    <2>5. P({"tls-observer"}, {"server-cert"}, {}) \/ P({"tls-observer"}, {}, {"server-cert"})
      BY <2>4
    <2> HIDE DEF P
    <2> QED
      BY <2>5
  <1> QED
    BY <1>5, <1>6, <1>7, <1>8

LEMMA RedisIs ==
  ASSUME NEW s \in Snapshot, s.spec.service \in {"redis", "mariadb"}
  PROVE  \E b \in SUBSET {"backup"}, k \in SUBSET {"repo-password", "schedule"},
            o \in SUBSET {"tls-observer"}, u, x \in SUBSET {"server-cert"} :
           /\ Is(Redis(s), {"credentials", "server-cert"} \cup o \cup {"release"} \cup b \cup k,
                 o \cup k, u, x)
           /\ s.external \in {"waiting", "known"} => u = {"server-cert"}
           /\ KeepsBucket(s) => b = {"backup"}
  <1> DEFINE g == GateExternalCertReadiness(s, AddServerCert(s, Empty(s)))
             d == {"credentials", "server-cert"}
  <1>1. PICK o \in SUBSET {"tls-observer"}, u \in SUBSET {"server-cert"}, x \in SUBSET {"server-cert"} :
          /\ Is(g, d \cup o, o, u, x)
          /\ s.external \in {"waiting", "known"} => u = {"server-cert"}
    BY CertIs
  <1>2. DeployRedis(s, Empty(s)) = Desire(g, {"release"})
    BY DEF DeployRedis
  <1> HIDE DEF g, d
  <1>3. Is(DeployRedis(s, Empty(s)), d \cup o \cup {"release"}, o, u, x)
    <2> DEFINE e == d \cup o
    <2>1. Is(g, e, o, u, x) /\ {"release"} \subseteq Names
      BY <1>1, AllNames
    <2> HIDE DEF e
    <2>2. Is(Desire(g, {"release"}), e \cup {"release"}, o, u, x)
      BY <2>1, DesireIs
    <2> QED
      BY <1>2, <2>2 DEF e
  <1>4. PICK b \in SUBSET {"backup"}, k \in SUBSET {"repo-password", "schedule"} :
          /\ Is(Redis(s), d \cup o \cup {"release"} \cup b \cup k, o \cup k, u, x)
          /\ KeepsBucket(s) => b = {"backup"}
    BY <1>3, K8upIs DEF Redis
  <1> QED
    BY <1>1, <1>4 DEF d

LEMMA MariaDBIs ==
  ASSUME NEW s \in Snapshot, s.spec.service = "mariadb"
  PROVE  \E b \in SUBSET {"backup"}, k \in SUBSET {"repo-password", "schedule"}, p, q \in SUBSET {"proxysql"},
            o \in SUBSET {"tls-observer"}, u, x \in SUBSET {"server-cert"} :
           /\ Is(MariaDB(s), {"credentials", "server-cert"} \cup o \cup {"release"} \cup b \cup k \cup p,
                 o \cup k \cup q, u, x)
           /\ s.external \in {"waiting", "known"} => u = {"server-cert"}
           /\ KeepsBucket(s) => b = {"backup"}
           /\ p # {} => "server-cert" \in s.exists
           /\ p # {} /\ q = {} => MariaDB(s).status.instances > 1
           /\ p = {} /\ "server-cert" \in s.exists => s.status.instances <= 1
  <1> DEFINE d == {"credentials", "server-cert"}
  <1>1. Redis(s) = AddK8upBackup(s, DeployMariadb(s, Empty(s)))
    BY DEF Redis, DeployRedis, DeployMariadb
  <1>2. PICK b \in SUBSET {"backup"}, k \in SUBSET {"repo-password", "schedule"},
             o \in SUBSET {"tls-observer"}, u \in SUBSET {"server-cert"}, x \in SUBSET {"server-cert"} :
          /\ Is(Redis(s), d \cup o \cup {"release"} \cup b \cup k, o \cup k, u, x)
          /\ s.external \in {"waiting", "known"} => u = {"server-cert"}
          /\ KeepsBucket(s) => b = {"backup"}
    BY RedisIs
  <1>3. MariaDB(s) = AddProxySQL(s, Redis(s))
    BY <1>1 DEF MariaDB
  <1> DEFINE r == Redis(s)
             dr == d \cup o \cup {"release"} \cup b \cup k
  <1> HIDE DEF r, dr
  <1>4. Is(r, dr, o \cup k, u, x)
    BY <1>2 DEF r, dr
  <1>5. PICK p \in SUBSET {"proxysql"}, q \in SUBSET {"proxysql"} :
          /\ Is(AddProxySQL(s, r), dr \cup p, o \cup k \cup q, u, x)
          /\ p # {} => "server-cert" \in s.exists
          /\ p # {} /\ q = {} => AddProxySQL(s, r).status.instances > 1
          /\ p = {} /\ "server-cert" \in s.exists => s.status.instances <= 1
    <2> DEFINE changed == s.status.instances # 0 /\ s.spec.instances # s.status.instances
               q == When(changed, {"proxysql"})
               t == Desire(r, {"proxysql"})
               skips == (s.spec.instances <= 1 /\ ~changed) \/ "server-cert" \notin s.exists
    <2>1. /\ skips => AddProxySQL(s, r) = r
          /\ ~skips => AddProxySQL(s, r) =
               [t EXCEPT !.open = @ \cup q,
                         !.status.instances = SetDesiredCompositeStatus(@, s.spec.instances)]
      BY DEF AddProxySQL
    <2>2. Is(t, dr \cup {"proxysql"}, o \cup k, u, x)
      BY <1>4, DesireIs, AllNames
    <2>3. q \in SUBSET {"proxysql"} /\ q \subseteq Names
      BY AllNames DEF When
    <2>4. s.spec.instances \in 0..2 /\ s.status.instances \in 0..2
      BY DEF Snapshot, Spec0, Status
    <2>7. skips => s.status.instances <= 1 \/ "server-cert" \notin s.exists
      BY <2>4
    <2>8. ~skips => /\ "server-cert" \in s.exists
                    /\ q = {} => s.spec.instances > 1
      BY <2>4 DEF When
    <2> HIDE DEF t, q, changed, skips
    <2>5. CASE skips
      <3>1. Is(AddProxySQL(s, r), dr \cup {}, o \cup k \cup {}, u, x)
        BY <1>4, <2>1, <2>5 DEF Is
      <3> DEFINE P(p, q1) ==
                   /\ Is(AddProxySQL(s, r), dr \cup p, o \cup k \cup q1, u, x)
                   /\ p # {} => "server-cert" \in s.exists
                   /\ p # {} /\ q1 = {} => AddProxySQL(s, r).status.instances > 1
                   /\ p = {} /\ "server-cert" \in s.exists => s.status.instances <= 1
      <3>2. P({}, {})
        BY <2>5, <2>7, <3>1
      <3> HIDE DEF P
      <3>3. \E p, q1 \in SUBSET {"proxysql"} : P(p, q1)
        BY <3>2
      <3> QED
        BY <3>3 DEF P
    <2>6. CASE ~skips
      <3>1. SetDesiredCompositeStatus(t.status.instances, s.spec.instances) \in 0..2
        BY <2>2, <2>4 DEF Is, Answer, Status, SetDesiredCompositeStatus
      <3> DEFINE v == [t EXCEPT !.open = @ \cup q]
                 st == [t.status EXCEPT !.instances = SetDesiredCompositeStatus(@, s.spec.instances)]
      <3>3. t \in Answer
        BY <2>2 DEF Is
      <3>4. AddProxySQL(s, r) = [v EXCEPT !.status = st]
        BY <2>1, <2>6, <3>3 DEF Answer
      <3>8. st.instances = SetDesiredCompositeStatus(t.status.instances, s.spec.instances)
        BY <3>3 DEF Answer, Status
      <3>9. q = {} => st.instances > 1
        BY <2>4, <2>6, <2>8, <3>8 DEF SetDesiredCompositeStatus
      <3>5. st \in Status
        BY <3>1, <3>3 DEF Answer, Status
      <3>6. Is(v, dr \cup {"proxysql"}, o \cup k \cup q, u, x)
        BY <2>2, <2>3 DEF Is, Answer
      <3> DEFINE e == dr \cup {"proxysql"}
                 f == o \cup k \cup q
      <3> HIDE DEF v, st, e, f
      <3>7. Is([v EXCEPT !.status = st], e, f, u, x)
        BY <3>5, <3>6, StatusIs DEF e, f
      <3>2. Is(AddProxySQL(s, r), dr \cup {"proxysql"}, o \cup k \cup q, u, x)
        BY <3>4, <3>7 DEF e, f
      <3>10. AddProxySQL(s, r).status = st
        BY <3>4, <3>6 DEF Is, Answer
      <3> QED
        BY <2>3, <2>6, <2>8, <3>2, <3>9, <3>10
    <2> QED
      BY <2>5, <2>6
  <1>6. Is(MariaDB(s), d \cup o \cup {"release"} \cup b \cup k \cup p, o \cup k \cup q, u, x)
    BY <1>3, <1>5 DEF r, dr
  <1>7. AddProxySQL(s, r) = MariaDB(s)
    BY <1>3 DEF r
  <1> QED
    BY <1>2, <1>5, <1>6, <1>7

LEMMA NextcloudIs ==
  ASSUME NEW s \in Snapshot, s.spec.service = "nextcloud"
  PROVE  \E b \in SUBSET {"backup"}, k \in SUBSET {"repo-password", "schedule"}, c \in SUBSET {"collabora"} :
           /\ Is(Nextcloud(s), {"pg", "credentials"}
                   \cup When({"credentials", "pg"} \subseteq s.exists, {"release"}) \cup b \cup k \cup c,
                 k, {}, {})
           /\ KeepsBucket(s) => b = {"backup"}
           /\ "release" \in s.ready => c = {"collabora"}
  <1> DEFINE d == {"pg", "credentials"} \cup When({"credentials", "pg"} \subseteq s.exists, {"release"})
             tags == When(WaitForObservedDependenciesWithConnectionDetails(s, "composite", "pg"), {"db"})
             c == When(WaitForObservedDependencies(s, "composite", {"release"}), {"collabora"})
  <1>1. /\ d \subseteq Names /\ tags \subseteq Tags /\ c \in SUBSET {"collabora"} /\ c \subseteq Names
        /\ "release" \in s.ready => c = {"collabora"}
    BY AllNames DEF When, Tags, WaitForObservedDependencies
  <1>2. DeployNextcloud(s, Empty(s)) = [Desire(Empty(s), d) EXCEPT !.render = @ \cup tags]
    BY DEF DeployNextcloud
  <1>3. \A a : DeployCollabora(s, a) = Desire(a, c)
    BY DEF DeployCollabora
  <1> HIDE DEF d, tags, c
  <1>4. Is(Desire(Empty(s), d), {} \cup d, {}, {}, {})
    BY <1>1, EmptyIs, DesireIs
  <1>5. Is(Desire(Empty(s), d), d, {}, {}, {})
    BY <1>4 DEF Is
  <1>6. Is(DeployNextcloud(s, Empty(s)), d, {}, {}, {})
    BY <1>1, <1>2, <1>5, RenderIs
  <1>7. PICK b \in SUBSET {"backup"}, k \in SUBSET {"repo-password", "schedule"} :
          /\ Is(AddK8upBackup(s, DeployNextcloud(s, Empty(s))), d \cup b \cup k, {} \cup k, {}, {})
          /\ KeepsBucket(s) => b = {"backup"}
    <2> DEFINE a == DeployNextcloud(s, Empty(s))
               o == {}
    <2>1. Is(a, d, o, o, o)
      BY <1>6
    <2> HIDE DEF a, o
    <2>2. \E b \in SUBSET {"backup"}, k \in SUBSET {"repo-password", "schedule"} :
            /\ Is(AddK8upBackup(s, a), d \cup b \cup k, o \cup k, o, o)
            /\ KeepsBucket(s) => b = {"backup"}
      BY <2>1, K8upIs
    <2> QED
      BY <2>2 DEF a, o
  <1>8. Is(Nextcloud(s), d \cup b \cup k \cup c, {} \cup k, {}, {})
    <2> DEFINE a == AddK8upBackup(s, DeployNextcloud(s, Empty(s)))
               e == d \cup b \cup k
               f == {} \cup k
    <2>1. Nextcloud(s) = Desire(a, c) /\ Is(a, e, f, {}, {})
      BY <1>3, <1>7 DEF Nextcloud
    <2> HIDE DEF a, e, f
    <2>2. Is(Desire(a, c), e \cup c, f, {}, {})
      BY <1>1, <2>1, DesireIs
    <2> QED
      BY <2>1, <2>2 DEF e, f
  <1>9. Is(Nextcloud(s), d \cup b \cup k \cup c, k, {}, {})
    BY <1>8 DEF Is
  <1> QED
    BY <1>1, <1>7, <1>9 DEF d

\* The secrets of Keycloak: copied and waited for if it is restored, and none is
\* left out of a later pass.
Secrets(s, m) ==
  /\ s.spec.restore /\ "credentials" \in m => "restore-creds" \in s.seen
  /\ m \cap {"copy-job", "restore-creds"} # {} => s.spec.restore
Kept(s, m) ==
  /\ ~s.spec.restore => "credentials" \in m
  /\ s.spec.restore => {"copy-job", "restore-creds"} \subseteq m
  /\ "restore-creds" \in s.seen => "credentials" \in m

LEMMA KeycloakIs ==
  ASSUME NEW s \in Snapshot
  PROVE  \E m \in SUBSET {"copy-job", "restore-creds", "credentials"}, r \in SUBSET {"release"} :
           /\ Is(Keycloak(s), {"pg"} \cup m \cup r, {}, {}, {})
           /\ r # {} /\ "release" \notin s.exists =>
                "pg" \in s.ready /\ (s.spec.restore => "restore-creds" \in s.seen)
           /\ Secrets(s, m)
           /\ r # {} => "credentials" \in s.exists
           /\ "release" \in s.exists =>
                /\ Kept(s, m)
                /\ "credentials" \in m \cap s.exists => r # {}
  <1> DEFINE secrets == IF ~s.spec.restore THEN {"credentials"}
                        ELSE {"copy-job", "restore-creds"}
                               \cup When("restore-creds" \in s.seen, {"credentials"})
             db == Desire(Empty(s), {"pg"})
             admin == AddAdminSecret(s, db)
             r == When("credentials" \in admin.desired \cap s.exists, {"release"})
             P(m, q) == /\ Is(Keycloak(s), {"pg"} \cup m \cup q, {}, {}, {})
                        /\ q # {} /\ "release" \notin s.exists =>
                             "pg" \in s.ready /\ (s.spec.restore => "restore-creds" \in s.seen)
                        /\ Secrets(s, m)
                        /\ q # {} => "credentials" \in s.exists
                        /\ "release" \in s.exists =>
                             /\ Kept(s, m)
                             /\ "credentials" \in m \cap s.exists => q # {}
  <1>1. Is(db, {} \cup {"pg"}, {}, {}, {})
    BY EmptyIs, DesireIs, AllNames
  <1>2. Is(db, {"pg"}, {}, {}, {})
    BY <1>1 DEF Is
  <1>3. CASE ~DatabaseReady(s, "release")
    <2>1. Keycloak(s) = db
      BY <1>3 DEF Keycloak, DeployKeycloak
    <2>2. Is(Keycloak(s), {"pg"} \cup {} \cup {}, {}, {}, {})
      BY <1>2, <2>1 DEF Is
    <2>5. "release" \notin s.exists /\ Secrets(s, {})
      BY <1>3 DEF DatabaseReady, Secrets
    <2>3. P({}, {})
      BY <2>2, <2>5
    <2> HIDE DEF P
    <2>4. \E m \in SUBSET {"copy-job", "restore-creds", "credentials"}, q \in SUBSET {"release"} : P(m, q)
      BY <2>3
    <2> QED
      BY <2>4 DEF P
  <1>4. CASE DatabaseReady(s, "release")
    <2>1. Keycloak(s) = [Desire(admin, r) EXCEPT !.render = @ \cup {"db"}]
      BY <1>4 DEF Keycloak, DeployKeycloak
    <2>2. admin = Desire(db, secrets)
      BY DEF AddAdminSecret
    <2>3. /\ secrets \in SUBSET {"copy-job", "restore-creds", "credentials"} /\ secrets \subseteq Names
          /\ "credentials" \in secrets => (s.spec.restore => "restore-creds" \in s.seen)
          /\ Secrets(s, secrets) /\ Kept(s, secrets)
      BY AllNames DEF When, Secrets, Kept
    <2> HIDE DEF secrets, db, admin
    <2>4. Is(admin, {"pg"} \cup secrets, {}, {}, {})
      BY <1>2, <2>2, <2>3, DesireIs
    <2>5. /\ r \in SUBSET {"release"} /\ r \subseteq Names
          /\ r # {} => "credentials" \in secrets \cap s.exists
          /\ "credentials" \in secrets \cap s.exists => r # {}
      BY <2>4, AllNames DEF When, Is
    <2> HIDE DEF r
    <2>6. Is(Desire(admin, r), {"pg"} \cup secrets \cup r, {}, {}, {})
      <3> DEFINE e == {"pg"} \cup secrets
      <3>1. Is(admin, e, {}, {}, {})
        BY <2>4
      <3> HIDE DEF e
      <3>2. Is(Desire(admin, r), e \cup r, {}, {}, {})
        BY <2>5, <3>1, DesireIs
      <3> QED
        BY <3>2 DEF e
    <2>7. Is(Keycloak(s), {"pg"} \cup secrets \cup r, {}, {}, {})
      <3> DEFINE e == {"pg"} \cup secrets \cup r
                 v == Desire(admin, r)
      <3>1. Is(v, e, {}, {}, {}) /\ {"db"} \subseteq Tags
        BY <2>6 DEF Tags
      <3> HIDE DEF e, v
      <3>2. Is([v EXCEPT !.render = @ \cup {"db"}], e, {}, {}, {})
        BY <3>1, RenderIs
      <3> QED
        BY <2>1, <3>2 DEF e, v
    <2>8. "release" \notin s.exists => "pg" \in s.ready
      <3>1. "composite" \notin s.exists
        BY NoName DEF Snapshot
      <3> QED
        BY <1>4, <3>1 DEF DatabaseReady, WaitForObservedDependenciesWithConnectionDetails
    <2>9. P(secrets, r)
      BY <2>3, <2>5, <2>7, <2>8
    <2> HIDE DEF P
    <2>10. \E m \in SUBSET {"copy-job", "restore-creds", "credentials"}, q \in SUBSET {"release"} : P(m, q)
      BY <2>3, <2>5, <2>9
    <2> QED
      BY <2>10 DEF P
  <1> QED
    BY <1>3, <1>4

LEMMA HandleRestoreIs ==
  ASSUME NEW s \in Snapshot
  PROVE  \E c \in SUBSET {"copy-job", "recovery-creds", "recovery-store"} :
           /\ Is(HandleRestore(s, Empty(s)), c, c, {}, {})
           /\ s.spec.restore => "recovery-creds" \in c
  <1> DEFINE a == Empty(s)
             two == {"copy-job", "recovery-creds"}
             copied == DesireOpen(a, two)
             h == HandleRestore(s, a)
             P(c) == Is(h, c, c, {}, {}) /\ (s.spec.restore => "recovery-creds" \in c)
  <1>1. \/ ~s.spec.restore /\ h = a
        \/ h = copied
        \/ h = [DesireOpen(copied, {"recovery-store"}) EXCEPT !.render = @ \cup {"recovery"}]
    BY DEF HandleRestore
  <1>2. Is(a, {}, {}, {}, {})
    BY EmptyIs
  <1>3. two \subseteq Names
    BY AllNames
  <1> HIDE DEF a, h
  <1>4. Is(copied, {} \cup two, {} \cup two, {}, {})
    <2> HIDE DEF two
    <2> QED
      BY <1>2, <1>3, DesireIs
  <1>5. Is(copied, two, two, {}, {})
    BY <1>4 DEF Is
  <1> HIDE DEF copied
  <1>6. Is([DesireOpen(copied, {"recovery-store"}) EXCEPT !.render = @ \cup {"recovery"}],
           two \cup {"recovery-store"}, two \cup {"recovery-store"}, {}, {})
    <2> DEFINE v == DesireOpen(copied, {"recovery-store"})
               e == two \cup {"recovery-store"}
    <2>1. Is(v, e, e, {}, {})
      <3> HIDE DEF two
      <3> QED
        BY <1>5, DesireIs, AllNames
    <2>2. {"recovery"} \subseteq Tags
      BY DEF Tags
    <2> HIDE DEF v, e
    <2>3. Is([v EXCEPT !.render = @ \cup {"recovery"}], e, e, {}, {})
      BY <2>1, <2>2, RenderIs
    <2> QED
      BY <2>3 DEF v, e
  <1>7. P({}) \/ P(two) \/ P(two \cup {"recovery-store"})
    BY <1>1, <1>2, <1>5, <1>6
  <1>8. \E c \in SUBSET {"copy-job", "recovery-creds", "recovery-store"} : P(c)
    <2>1. /\ {} \in SUBSET {"copy-job", "recovery-creds", "recovery-store"}
          /\ two \in SUBSET {"copy-job", "recovery-creds", "recovery-store"}
          /\ two \cup {"recovery-store"} \in SUBSET {"copy-job", "recovery-creds", "recovery-store"}
      OBVIOUS
    <2> HIDE DEF P, two
    <2> QED
      BY <1>7, <2>1
  <1> QED
    BY <1>8 DEF P, h, a

LEMMA CnpgIs ==
  ASSUME NEW s \in Snapshot, s.spec.service = "cnpg"
  PROVE  \E c \in SUBSET {"copy-job", "recovery-creds", "recovery-store"}, b \in SUBSET {"backup"},
            r \in SUBSET {"release"} :
           LET key == When(s.spec.encrypted /\ "release" \in s.seen, {"luks-key-0"})
           IN /\ Is(Cnpg(s), c \cup b \cup r \cup key, c \cup key, {}, {})
              /\ r # {} => ~SkipsRelease(s)
              /\ r = {} => \/ "recovery-creds" \in c \ s.seen
                           \/ "backup" \in b \ s.exists
              /\ s.spec.restore => "recovery-creds" \in c
              /\ SkipsRelease(s) \/ SetupBackupFails(s) \/ (r # {} /\ (KeepsBucket(s) => b # {}))
  <1> DEFINE key == When(s.spec.encrypted /\ "release" \in s.seen, {"luks-key-0"})
             h == HandleRestore(s, Empty(s))
             b0 == When(KeepsBucket(s), {Bucket(s.spec.service)})
             stored == AddObjectBucket(s, h)
             tags == When(s.spec.encrypted, {"encrypted"})
                       \cup When(s.spec.backup /\ s.spec.instances # 0, {"backup"})
             d == DeployCnpg(s, Empty(s))
             P(c, b, r) == /\ Is(d, c \cup b \cup r, c, {}, {})
                           /\ r # {} => ~SkipsRelease(s)
                           /\ r = {} => \/ "recovery-creds" \in c \ s.seen
                                        \/ "backup" \in b \ s.exists
                           /\ SkipsRelease(s) \/ SetupBackupFails(s) \/ (r # {} /\ (KeepsBucket(s) => b # {}))
  <1>1. PICK c \in SUBSET {"copy-job", "recovery-creds", "recovery-store"} :
          /\ Is(h, c, c, {}, {})
          /\ s.spec.restore => "recovery-creds" \in c
    BY HandleRestoreIs
  <1>2. /\ b0 \in SUBSET {"backup"} /\ (SetupBackupFails(s) => "backup" \in b0 \ s.exists)
        /\ KeepsBucket(s) => b0 # {}
    BY DEF When, Bucket, KeepsBucket, SetupBackupFails
  <1>3. \/ SkipsRelease(s) /\ d = h
        \/ SetupBackupFails(s) /\ d = stored
        \/ ~SkipsRelease(s) /\ d = [Desire(stored, {"release"}) EXCEPT !.render = @ \cup tags]
    BY DEF DeployCnpg
  <1>4. tags \subseteq Tags /\ key \subseteq Names
    BY AllNames DEF When, Tags
  <1> HIDE DEF h
  <1>5. Is(stored, c \cup b0, c, {}, {})
    BY <1>1, BucketIs
  <1>6. Cnpg(s) = DesireOpen(d, key)
    BY DEF Cnpg, AddLuksKeys
  <1> HIDE DEF b0, stored, tags, d, key
  <1>7. Is([Desire(stored, {"release"}) EXCEPT !.render = @ \cup tags], c \cup b0 \cup {"release"}, c, {}, {})
    <2> DEFINE v == Desire(stored, {"release"})
               e == c \cup b0
               f == e \cup {"release"}
    <2> HIDE DEF e
    <2>1. Is(v, f, c, {}, {})
      BY <1>5, DesireIs, AllNames DEF e
    <2> HIDE DEF v, f
    <2>2. Is([v EXCEPT !.render = @ \cup tags], f, c, {}, {})
      BY <1>4, <2>1, RenderIs
    <2> QED
      BY <2>2 DEF v, f, e
  <1>8. PICK b \in SUBSET {"backup"}, r \in SUBSET {"release"} : P(c, b, r)
    <2>1. SkipsRelease(s) => s.spec.restore /\ "recovery-creds" \notin s.seen
      BY DEF SkipsRelease
    <2>2. CASE SkipsRelease(s) /\ d = h
      <3>1. Is(d, c \cup {} \cup {}, c, {}, {})
        BY <1>1, <2>2 DEF Is
      <3>2. P(c, {}, {})
        BY <1>1, <2>1, <2>2, <3>1
      <3> HIDE DEF P
      <3> QED
        BY <3>2
    <2>3. CASE SetupBackupFails(s) /\ d = stored
      <3>1. Is(d, c \cup b0 \cup {}, c, {}, {})
        BY <1>5, <2>3 DEF Is
      <3>2. P(c, b0, {})
        BY <1>2, <2>3, <3>1
      <3> HIDE DEF P
      <3> QED
        BY <1>2, <3>2
    <2>4. CASE ~SkipsRelease(s) /\ d = [Desire(stored, {"release"}) EXCEPT !.render = @ \cup tags]
      <3>1. P(c, b0, {"release"})
        BY <1>2, <1>7, <2>4
      <3> HIDE DEF P
      <3> QED
        BY <1>2, <3>1
    <2> QED
      BY <1>3, <2>2, <2>3, <2>4
  <1>9. Is(Cnpg(s), c \cup b \cup r \cup key, c \cup key, {}, {})
    <2> DEFINE e == c \cup b \cup r
    <2>1. Is(d, e, c, {}, {})
      BY <1>8
    <2> HIDE DEF e
    <2>2. Is(DesireOpen(d, key), e \cup key, c \cup key, {}, {})
      BY <1>4, <2>1, DesireIs
    <2> QED
      BY <1>6, <2>2 DEF e
  <1> QED
    BY <1>1, <1>8, <1>9 DEF key

LEMMA DeployStackGresIs ==
  ASSUME NEW s \in Snapshot, s.spec.service = "stackgres"
  PROVE  \E u \in SUBSET {"cluster"}, b \in SUBSET {"pg-bucket"}, p \in SUBSET {"podmonitor"},
            m \in SUBSET {"sg-backup", "copy-job"} :
           /\ Is(DeployStackGres(s, Empty(s)),
                 {"certificate", "profile", "cluster"} \cup b \cup p \cup m, m, u, {})
           /\ s.spec.backup => "certificate" \notin s.ready \/ "sg-backup" \in m
           /\ KeepsBucket(s) => b # {}
           /\ (s.spec.backup /\ "certificate" \notin s.ready) \/ p # {}
  <1> DEFINE three == {"certificate", "profile", "cluster"}
             first == Desire(Empty(s), three)
             u == When("profile" \notin s.seen, {"cluster"})
             objects == SetClusterUnready(s, first)
             b == When(KeepsBucket(s), {Bucket(s.spec.service)})
             stored == AddObjectBucket(s, objects)
             m == When(s.spec.backup, {"sg-backup"}) \cup When(s.spec.restore, {"copy-job"})
             d == DeployStackGres(s, Empty(s))
             P(q, n) == /\ Is(d, three \cup b \cup q \cup n, n, u, {})
                        /\ s.spec.backup => "certificate" \notin s.ready \/ "sg-backup" \in n
                        /\ (s.spec.backup /\ "certificate" \notin s.ready) \/ q # {}
  <1>1. /\ u \in SUBSET {"cluster"} /\ b \in SUBSET {"pg-bucket"}
        /\ m \in SUBSET {"sg-backup", "copy-job"}
        /\ u \subseteq Names /\ m \subseteq Names /\ three \subseteq Names
        /\ s.spec.backup => "sg-backup" \in m
        /\ KeepsBucket(s) => b # {}
    BY AllNames DEF When, Bucket
  <1>2. CreatesSgObjectStorage(s) <=> "certificate" \in s.ready
    BY NoName DEF CreatesSgObjectStorage, WaitForObservedDependencies, Snapshot
  <1>3. \/ s.spec.backup /\ ~CreatesSgObjectStorage(s) /\ d = stored
        \/ d = DesireOpen(Desire(stored, {"podmonitor"}), m)
    BY DEF DeployStackGres
  <1> HIDE DEF m, b, d, stored
  <1>4. Is(first, {} \cup three, {}, {}, {})
    <2> HIDE DEF three
    <2> QED
      BY <1>1, EmptyIs, DesireIs
  <1>5. Is(first, three, {}, {}, {})
    BY <1>4 DEF Is
  <1>6. Is(objects, three, {}, {} \cup u, {})
    <2>1. objects = [first EXCEPT !.unready = @ \cup u]
      BY DEF SetClusterUnready
    <2> HIDE DEF three, first, objects, u
    <2> QED
      BY <1>1, <1>5, <2>1, CallsUnready
  <1>7. Is(objects, three, {}, u, {})
    BY <1>6 DEF Is
  <1>8. Is(stored, three \cup b, {}, u, {})
    <2> HIDE DEF three, objects, u
    <2> QED
      BY <1>7, BucketIs DEF stored, b
  <1>9. Is(DesireOpen(Desire(stored, {"podmonitor"}), m), three \cup b \cup {"podmonitor"} \cup m, {} \cup m, u, {})
    <2> DEFINE e == three \cup b
               f == e \cup {"podmonitor"}
               v == Desire(stored, {"podmonitor"})
    <2> HIDE DEF e, u
    <2>1. Is(v, f, {}, u, {})
      BY <1>8, DesireIs, AllNames DEF e
    <2> HIDE DEF f, v
    <2>2. Is(DesireOpen(v, m), f \cup m, {} \cup m, u, {})
      BY <1>1, <2>1, DesireIs
    <2> QED
      BY <2>2 DEF e, f, v
  <1>10. P({}, {}) \/ P({"podmonitor"}, m)
    <2>1. CASE s.spec.backup /\ ~CreatesSgObjectStorage(s) /\ d = stored
      <3>1. Is(d, three \cup b \cup {} \cup {}, {}, u, {})
        BY <1>8, <2>1 DEF Is
      <3> QED
        BY <1>2, <2>1, <3>1
    <2>2. CASE d = DesireOpen(Desire(stored, {"podmonitor"}), m)
      <3>1. Is(d, three \cup b \cup {"podmonitor"} \cup m, m, u, {})
        BY <1>9, <2>2 DEF Is
      <3> QED
        BY <1>1, <3>1
    <2> QED
      BY <1>3, <2>1, <2>2
  <1>11. \E q \in SUBSET {"podmonitor"}, n \in SUBSET {"sg-backup", "copy-job"} : P(q, n)
    <2> HIDE DEF P
    <2> QED
      BY <1>1, <1>10
  <1> QED
    BY <1>1, <1>11 DEF d

\* The keys of StackGres: the first one for any instance, the second one once the
\* first is ready.
Keys(s, l) ==
  /\ l # {} => s.spec.encrypted
  /\ s.spec.encrypted /\ s.spec.instances >= 1 => "luks-key-0" \in l
  /\ s.spec.encrypted /\ s.spec.instances >= 2 /\ "luks-key-0" \in s.ready => "luks-key-1" \in l

LEMMA AddPvcSecretIs ==
  ASSUME NEW s \in Snapshot, NEW a, NEW d, NEW o, NEW u, NEW x, Is(a, d, o, u, x)
  PROVE  \E l \in SUBSET {"luks-key-0", "luks-key-1"} :
           Is(AddPvcSecret(s, a), d \cup l, o, u, x) /\ Keys(s, l)
  <1> DEFINE pods == 0..(s.spec.instances - 1)
             written == {i \in pods : \A j \in 0..(i - 1) : WaitForDesiredDependencies(s, {Luks(j)})}
             l == {Luks(i) : i \in written}
             tags == When(\A i \in pods : WaitForDesiredDependencies(s, {Luks(i)}), {"encrypted"})
  <1>1. /\ ~s.spec.encrypted => AddPvcSecret(s, a) = a
        /\ s.spec.encrypted => AddPvcSecret(s, a) = [Desire(a, l) EXCEPT !.render = @ \cup tags]
    BY DEF AddPvcSecret
  <1>8. s.spec.encrypted => Keys(s, l)
    <2>1. s.spec.instances \in 0..2
      BY DEF Snapshot, Spec0
    <2>2. s.spec.instances >= 1 => 0 \in written
      BY <2>1
    <2>3. s.spec.instances >= 2 /\ "luks-key-0" \in s.ready => 1 \in written
      BY <2>1 DEF WaitForDesiredDependencies, Luks
    <2>4. \A i \in written : Luks(i) \in l
      OBVIOUS
    <2> HIDE DEF l, written
    <2>5. s.spec.instances >= 1 => "luks-key-0" \in l
      BY <2>2, <2>4 DEF Luks
    <2>6. s.spec.instances >= 2 /\ "luks-key-0" \in s.ready => "luks-key-1" \in l
      BY <2>3, <2>4 DEF Luks
    <2> QED
      BY <2>5, <2>6 DEF Keys
  <1>2. l \in SUBSET {"luks-key-0", "luks-key-1"}
    BY DEF Luks
  <1>3. l \subseteq Names
    BY <1>2, AllNames
  <1>4. tags \subseteq Tags
    BY DEF When, Tags
  <1> HIDE DEF l, tags
  <1>5. Is([Desire(a, l) EXCEPT !.render = @ \cup tags], d \cup l, o, u, x)
    <2> DEFINE v == Desire(a, l)
               e == d \cup l
    <2>1. Is(v, e, o, u, x)
      BY <1>3, DesireIs
    <2> HIDE DEF v, e
    <2>2. Is([v EXCEPT !.render = @ \cup tags], e, o, u, x)
      BY <1>4, <2>1, RenderIs
    <2> QED
      BY <2>2 DEF v, e
  <1>6. Is(a, d \cup {}, o, u, x)
    BY DEF Is
  <1>7. \/ Is(AddPvcSecret(s, a), d \cup {}, o, u, x) /\ Keys(s, {})
        \/ Is(AddPvcSecret(s, a), d \cup l, o, u, x) /\ Keys(s, l)
    <2>1. CASE ~s.spec.encrypted
      BY <1>1, <1>6, <2>1 DEF Keys
    <2>2. CASE s.spec.encrypted
      BY <1>1, <1>5, <1>8, <2>2
    <2> QED
      BY <2>1, <2>2
  <1> QED
    BY <1>2, <1>7

LEMMA StackGresIs ==
  ASSUME NEW s \in Snapshot, s.spec.service = "stackgres"
  PROVE  \E d \in SUBSET Composed["stackgres"], m \in SUBSET {"sg-backup", "copy-job"},
            u \in SUBSET {"cluster"} :
           LET objects == {"profile"} \cup When(s.spec.backup, {"sg-backup"})
           IN /\ Is(StackGres(s), d, m, u, {}) /\ m \subseteq d
              /\ {"certificate", "profile"} \subseteq d
              /\ "cluster" \in d => "cluster" \in s.exists \/ objects \subseteq s.ready
              /\ "cluster" \notin d => ~(objects \subseteq s.ready)
              /\ s.spec.backup => "certificate" \notin s.ready \/ "sg-backup" \in d
              /\ Keys(s, d \cap {"luks-key-0", "luks-key-1"})
              /\ "cluster" \in s.exists => "cluster" \in d
              /\ KeepsBucket(s) => "pg-bucket" \in d
              /\ (s.spec.backup /\ "certificate" \notin s.ready) \/ "podmonitor" \in d
              /\ d \cap {"sg-backup", "copy-job"} \subseteq m
  <1> DEFINE objects == {"profile"} \cup When(s.spec.backup, {"sg-backup"})
             d0 == DeployStackGres(s, Empty(s))
             d1 == AddPvcSecret(s, d0)
             d2 == StackGres(s)
             all == Composed["stackgres"]
  <1>1. PICK u \in SUBSET {"cluster"}, b \in SUBSET {"pg-bucket"}, p \in SUBSET {"podmonitor"},
            m \in SUBSET {"sg-backup", "copy-job"} :
          /\ Is(d0, {"certificate", "profile", "cluster"} \cup b \cup p \cup m, m, u, {})
          /\ s.spec.backup => "certificate" \notin s.ready \/ "sg-backup" \in m
          /\ KeepsBucket(s) => b # {}
          /\ (s.spec.backup /\ "certificate" \notin s.ready) \/ p # {}
    BY DeployStackGresIs
  <1> DEFINE e == {"certificate", "profile", "cluster"} \cup b \cup p \cup m
  <1>2. PICK l \in SUBSET {"luks-key-0", "luks-key-1"} : Is(d1, e \cup l, m, u, {}) /\ Keys(s, l)
    <2> HIDE DEF d0, e
    <2>1. Is(d0, e, m, u, {})
      BY <1>1 DEF e
    <2> QED
      BY <2>1, AddPvcSecretIs
  <1> DEFINE f == e \cup l
  <1>3. f \subseteq all
    BY ComposedAre
  <1>4. \/ ("cluster" \in s.exists \/ objects \subseteq s.ready) /\ d2 = d1
        \/ /\ "cluster" \notin s.exists /\ ~(objects \subseteq s.ready)
           /\ d2 = [d1 EXCEPT !.desired = @ \ {"cluster"}]
    BY DEF StackGres, DelayClusterDeployment
  <1>5. Is([d1 EXCEPT !.desired = @ \ {"cluster"}], f \ {"cluster"}, m, u, {})
    <2> HIDE DEF d1, f
    <2>1. Is(d1, f, m, u, {})
      BY <1>2 DEF f
    <2> QED
      BY <2>1 DEF Is, Answer
  <1> DEFINE P(d) == /\ Is(d2, d, m, u, {}) /\ m \subseteq d
                     /\ {"certificate", "profile"} \subseteq d
                     /\ "cluster" \in d => "cluster" \in s.exists \/ objects \subseteq s.ready
                     /\ "cluster" \notin d => ~(objects \subseteq s.ready)
                     /\ s.spec.backup => "certificate" \notin s.ready \/ "sg-backup" \in d
                     /\ Keys(s, d \cap {"luks-key-0", "luks-key-1"})
                     /\ "cluster" \in s.exists => "cluster" \in d
                     /\ KeepsBucket(s) => "pg-bucket" \in d
                     /\ (s.spec.backup /\ "certificate" \notin s.ready) \/ "podmonitor" \in d
                     /\ d \cap {"sg-backup", "copy-job"} \subseteq m
  <1>12. /\ f \cap {"sg-backup", "copy-job"} \subseteq m
         /\ (f \ {"cluster"}) \cap {"sg-backup", "copy-job"} \subseteq m
    OBVIOUS
  <1>9. /\ f \cap {"luks-key-0", "luks-key-1"} = l
        /\ (f \ {"cluster"}) \cap {"luks-key-0", "luks-key-1"} = l
    OBVIOUS
  <1>10. /\ Keys(s, f \cap {"luks-key-0", "luks-key-1"})
         /\ Keys(s, (f \ {"cluster"}) \cap {"luks-key-0", "luks-key-1"})
    BY <1>2, <1>9
  <1>11. /\ KeepsBucket(s) => "pg-bucket" \in f \ {"cluster"}
         /\ (s.spec.backup /\ "certificate" \notin s.ready) \/ "podmonitor" \in f \ {"cluster"}
    BY <1>1
  <1>6. /\ m \subseteq f /\ m \subseteq f \ {"cluster"}
        /\ {"certificate", "profile"} \subseteq f /\ {"certificate", "profile"} \subseteq f \ {"cluster"}
        /\ "cluster" \in f /\ "cluster" \notin f \ {"cluster"}
        /\ s.spec.backup => "certificate" \notin s.ready \/ "sg-backup" \in f \ {"cluster"}
    BY <1>1
  <1> HIDE DEF d2, d1, objects
  <1>7. P(f) \/ P(f \ {"cluster"})
    <2>1. CASE ("cluster" \in s.exists \/ objects \subseteq s.ready) /\ d2 = d1
      <3>1. Is(d2, f, m, u, {})
        BY <1>2, <2>1
      <3> HIDE DEF f
      <3> QED
        BY <1>6, <1>10, <1>11, <1>12, <2>1, <3>1
    <2>2. CASE /\ "cluster" \notin s.exists /\ ~(objects \subseteq s.ready)
               /\ d2 = [d1 EXCEPT !.desired = @ \ {"cluster"}]
      <3>1. Is(d2, f \ {"cluster"}, m, u, {})
        BY <1>5, <2>2
      <3> HIDE DEF f
      <3> QED
        BY <1>6, <1>10, <1>11, <1>12, <2>2, <3>1
    <2> QED
      BY <1>4, <2>1, <2>2
  <1>8. \E d \in SUBSET all : P(d)
    <2> HIDE DEF P, f
    <2> QED
      BY <1>3, <1>7
  <1> QED
    BY <1>8 DEF d2, objects
-----------------------------------------------------------------------------
(* What the proofs need of every service's answer. *)

Sane(s) ==
  /\ s.ready \subseteq s.exists /\ s.seen \subseteq s.exists
  /\ s.ready \ {"pg"} \subseteq s.seen

Good(s, a) ==
  LET x == s.spec.service
  IN /\ a \in Answer /\ a.desired \subseteq Composed[x]
     /\ a.open \cap Precious \subseteq When(x = "cnpg", {"luks-key-0"})
     /\ x = "cnpg" => ("luks-key-0" \in a.desired <=> s.spec.encrypted /\ "release" \in s.seen)
     /\ "init-job" \in a.desired => ~s.status.initialized
     /\ x \in {"redis", "mariadb"} /\ s.external \in {"waiting", "known"} =>
          "server-cert" \in a.desired \cap a.unready
     /\ x # "keycloak" /\ CheckReadiness(s, a) => Main(x) \in s.ready
     /\ Main(x) \in a.desired \ s.exists =>
          Foundations(s.spec) \subseteq s.ready /\ Restored(s.spec) \subseteq s.seen

\* For most of the services the release is always there and nothing precious is
\* opened for deletion.
LEMMA PlainGood ==
  ASSUME NEW s \in Snapshot, NEW a, NEW d, NEW o, NEW u, NEW x, Is(a, d, o, u, x),
         s.spec.service \notin {"stackgres", "cnpg", "keycloak", "redis", "mariadb"},
         d \subseteq Composed[s.spec.service], o \cap Precious = {},
         "init-job" \in d => ~s.status.initialized,
         CheckReadiness(s, a) => "release" \in s.ready
  PROVE  Good(s, a)
  BY DEF Good, Is, Main, Foundations, Restored

LEMMA StackGresGood ==
  ASSUME NEW s \in Snapshot, Sane(s), s.spec.service = "stackgres"
  PROVE  Good(s, Respond(s))
  <1> DEFINE objects == {"profile"} \cup When(s.spec.backup, {"sg-backup"})
             a == Respond(s)
  <1>1. a = StackGres(s)
    BY Responds
  <1> HIDE DEF a
  <1>2. PICK d \in SUBSET Composed["stackgres"], m \in SUBSET {"sg-backup", "copy-job"},
             u \in SUBSET {"cluster"} :
          /\ Is(a, d, m, u, {}) /\ m \subseteq d
          /\ {"certificate", "profile"} \subseteq d
          /\ "cluster" \in d => "cluster" \in s.exists \/ objects \subseteq s.ready
          /\ "cluster" \notin d => ~(objects \subseteq s.ready)
          /\ s.spec.backup => "certificate" \notin s.ready \/ "sg-backup" \in d
          /\ Keys(s, d \cap {"luks-key-0", "luks-key-1"})
          /\ "cluster" \in s.exists => "cluster" \in d
          /\ KeepsBucket(s) => "pg-bucket" \in d
          /\ (s.spec.backup /\ "certificate" \notin s.ready) \/ "podmonitor" \in d
          /\ d \cap {"sg-backup", "copy-job"} \subseteq m
    BY <1>1, StackGresIs
  <1>3. a \in Answer /\ a.desired = d /\ a.open = m /\ a.assured = {}
    BY <1>2 DEF Is
  <1>4. "init-job" \notin d
    BY ComposedAre
  <1>5. m \cap Precious = {}
    BY DEF Precious
  <1>6. CheckReadiness(s, a) => "cluster" \in s.ready
    <2> SUFFICES ASSUME \A r \in d : r \in s.ready
                 PROVE  "cluster" \in d
      BY <1>3 DEF CheckReadiness
    <2>1. objects \subseteq s.ready
      BY <1>2 DEF When
    <2> QED
      BY <1>2, <2>1
  <1>7. "cluster" \in d \ s.exists => Foundations(s.spec) \subseteq s.ready /\ Restored(s.spec) \subseteq s.seen
    BY <1>2 DEF Foundations, Restored
  <1> QED
    BY <1>3, <1>4, <1>5, <1>6, <1>7 DEF Good, Main, a

LEMMA CnpgGood ==
  ASSUME NEW s \in Snapshot, Sane(s), s.spec.service = "cnpg"
  PROVE  Good(s, Respond(s))
  <1> DEFINE key == When(s.spec.encrypted /\ "release" \in s.seen, {"luks-key-0"})
             a == Respond(s)
  <1>1. a = Cnpg(s)
    BY Responds
  <1> HIDE DEF a
  <1>2. PICK c \in SUBSET {"copy-job", "recovery-creds", "recovery-store"}, b \in SUBSET {"backup"},
             r \in SUBSET {"release"} :
          /\ Is(a, c \cup b \cup r \cup key, c \cup key, {}, {})
          /\ r # {} => ~SkipsRelease(s)
          /\ r = {} => \/ "recovery-creds" \in c \ s.seen
                       \/ "backup" \in b \ s.exists
          /\ s.spec.restore => "recovery-creds" \in c
          /\ SkipsRelease(s) \/ SetupBackupFails(s) \/ (r # {} /\ (KeepsBucket(s) => b # {}))
    BY <1>1, CnpgIs
  <1>3. /\ a \in Answer /\ a.desired = c \cup b \cup r \cup key
        /\ a.open = c \cup key /\ a.assured = {}
    BY <1>2 DEF Is
  <1>4. key \subseteq {"luks-key-0"} /\ ("luks-key-0" \in key <=> s.spec.encrypted /\ "release" \in s.seen)
    BY DEF When
  <1> HIDE DEF key
  <1>5. /\ a.desired \subseteq Composed["cnpg"] /\ "init-job" \notin a.desired
        /\ "luks-key-0" \in a.desired <=> "luks-key-0" \in key
    BY <1>3, <1>4, ComposedAre
  <1>6. a.open \cap Precious \subseteq {"luks-key-0"}
    BY <1>3, <1>4 DEF Precious
  <1>7. CheckReadiness(s, a) => "release" \in s.ready
    <2> SUFFICES ASSUME \A x \in c \cup b \cup r \cup key : x \in s.ready
                 PROVE  "release" \in r
      BY <1>3 DEF CheckReadiness
    <2>1. r # {}
      BY <1>2 DEF Sane
    <2> QED
      BY <2>1
  <1>8. "release" \in a.desired => Foundations(s.spec) = {} /\ Restored(s.spec) \subseteq s.seen
    <2>1. "release" \in a.desired => r # {}
      BY <1>3, <1>4
    <2> QED
      BY <1>2, <2>1 DEF Foundations, Restored, SkipsRelease
  <1>9. When(s.spec.service = "cnpg", {"luks-key-0"}) = {"luks-key-0"}
    BY DEF When
  <1> QED
    BY <1>3, <1>4, <1>5, <1>6, <1>7, <1>8, <1>9 DEF Good, Main, a

LEMMA KeycloakGood ==
  ASSUME NEW s \in Snapshot, Sane(s), s.spec.service = "keycloak"
  PROVE  Good(s, Respond(s))
  <1> DEFINE a == Respond(s)
  <1>1. a = Keycloak(s)
    BY Responds
  <1>2. PICK m \in SUBSET {"copy-job", "restore-creds", "credentials"}, r \in SUBSET {"release"} :
          /\ Is(a, {"pg"} \cup m \cup r, {}, {}, {})
          /\ r # {} /\ "release" \notin s.exists =>
               "pg" \in s.ready /\ (s.spec.restore => "restore-creds" \in s.seen)
    <2> HIDE DEF a
    <2> QED
      BY <1>1, KeycloakIs
  <1> HIDE DEF a
  <1>3. a \in Answer /\ a.desired = {"pg"} \cup m \cup r /\ a.open = {}
    BY <1>2 DEF Is
  <1>4. a.desired \subseteq Composed["keycloak"] /\ "init-job" \notin a.desired
    BY <1>3, ComposedAre
  <1>5. "release" \in a.desired \ s.exists => Foundations(s.spec) \subseteq s.ready /\ Restored(s.spec) \subseteq s.seen
    <2>1. "release" \in a.desired => r # {}
      BY <1>3
    <2> QED
      BY <1>2, <2>1 DEF Foundations, Restored
  <1> QED
    BY <1>3, <1>4, <1>5 DEF Good, Main, a

LEMMA RedisGood ==
  ASSUME NEW s \in Snapshot, Sane(s), s.spec.service \in {"redis", "mariadb"}
  PROVE  Good(s, Respond(s))
  <1> DEFINE a == Respond(s)
  <1>1. PICK d, o, u, x :
          /\ x \in SUBSET {"server-cert"}
          /\ Is(a, d, o, u, x)
          /\ {"server-cert", "release"} \subseteq d /\ d \subseteq Composed[s.spec.service]
          /\ o \cap Precious = {}
          /\ s.external \in {"waiting", "known"} => u = {"server-cert"}
    <2> DEFINE P(d, o, u, x) ==
                 /\ x \in SUBSET {"server-cert"}
                 /\ Is(a, d, o, u, x)
                 /\ {"server-cert", "release"} \subseteq d /\ d \subseteq Composed[s.spec.service]
                 /\ o \cap Precious = {}
                 /\ s.external \in {"waiting", "known"} => u = {"server-cert"}
    <2>1. CASE s.spec.service = "redis"
      <3>1. PICK b \in SUBSET {"backup"}, k \in SUBSET {"repo-password", "schedule"},
                 o \in SUBSET {"tls-observer"}, u \in SUBSET {"server-cert"}, x \in SUBSET {"server-cert"} :
              /\ Is(Redis(s), {"credentials", "server-cert"} \cup o \cup {"release"} \cup b \cup k,
                    o \cup k, u, x)
              /\ s.external \in {"waiting", "known"} => u = {"server-cert"}
        BY RedisIs
      <3> DEFINE d == {"credentials", "server-cert"} \cup o \cup {"release"} \cup b \cup k
      <3>2. a = Redis(s)
        BY <2>1, Responds
      <3>3. {"server-cert", "release"} \subseteq d /\ d \subseteq Composed[s.spec.service]
        BY <2>1, ComposedAre DEF K8up
      <3>4. (o \cup k) \cap Precious = {}
        BY DEF Precious
      <3> HIDE DEF a
      <3>5. P(d, o \cup k, u, x)
        BY <3>1, <3>2, <3>3, <3>4
      <3> HIDE DEF P, d
      <3>6. \E d1, o1, u1, x1 : P(d1, o1, u1, x1)
        BY <3>5
      <3> QED
        BY <3>6 DEF P, a
    <2>2. CASE s.spec.service = "mariadb"
      <3>1. PICK b \in SUBSET {"backup"}, k \in SUBSET {"repo-password", "schedule"}, p \in SUBSET {"proxysql"},
                 q \in SUBSET {"proxysql"}, o \in SUBSET {"tls-observer"},
                 u \in SUBSET {"server-cert"}, x \in SUBSET {"server-cert"} :
              /\ Is(MariaDB(s), {"credentials", "server-cert"} \cup o \cup {"release"} \cup b \cup k \cup p,
                    o \cup k \cup q, u, x)
              /\ s.external \in {"waiting", "known"} => u = {"server-cert"}
              /\ KeepsBucket(s) => b = {"backup"}
              /\ p # {} => "server-cert" \in s.exists
              /\ p # {} /\ q = {} => MariaDB(s).status.instances > 1
              /\ p = {} /\ "server-cert" \in s.exists => s.status.instances <= 1
        BY <2>2, MariaDBIs
      <3> DEFINE d == {"credentials", "server-cert"} \cup o \cup {"release"} \cup b \cup k \cup p
      <3>2. a = MariaDB(s)
        BY <2>2, Responds
      <3>3. {"server-cert", "release"} \subseteq d /\ d \subseteq Composed[s.spec.service]
        BY <2>2, ComposedAre DEF K8up
      <3>4. (o \cup k \cup q) \cap Precious = {}
        BY DEF Precious
      <3> HIDE DEF a
      <3>5. P(d, o \cup k \cup q, u, x)
        BY <3>1, <3>2, <3>3, <3>4
      <3> HIDE DEF P, d
      <3>6. \E d1, o1, u1, x1 : P(d1, o1, u1, x1)
        BY <3>5
      <3> QED
        BY <3>6 DEF P, a
    <2> QED
      BY <2>1, <2>2
  <1> HIDE DEF a
  <1>2. a \in Answer /\ a.desired = d /\ a.open = o /\ a.unready = u /\ a.assured = x
    BY <1>1 DEF Is
  <1>3. "init-job" \notin d
    BY <1>1, ComposedAre DEF K8up
  <1>4. CheckReadiness(s, a) => "release" \in s.ready
    BY <1>1, <1>2 DEF CheckReadiness
  <1>5. Foundations(s.spec) = {} /\ Restored(s.spec) = {}
    BY DEF Foundations, Restored
  <1> QED
    BY <1>1, <1>2, <1>3, <1>4, <1>5 DEF Good, Main, a

LEMMA NextcloudGood ==
  ASSUME NEW s \in Snapshot, Sane(s), s.spec.service = "nextcloud"
  PROVE  Good(s, Respond(s))
  <1> DEFINE a == Respond(s)
             rel == When({"credentials", "pg"} \subseteq s.exists, {"release"})
  <1>0. a = Nextcloud(s)
    BY Responds
  <1> HIDE DEF a
  <1>1. PICK b \in SUBSET {"backup"}, k \in SUBSET {"repo-password", "schedule"}, c \in SUBSET {"collabora"} :
          Is(a, {"pg", "credentials"} \cup rel \cup b \cup k \cup c, k, {}, {})
    BY <1>0, NextcloudIs
  <1> DEFINE d == {"pg", "credentials"} \cup rel \cup b \cup k \cup c
  <1>2. d \subseteq Composed["nextcloud"] /\ "init-job" \notin d
    BY ComposedAre DEF When, K8up
  <1>3. k \cap Precious = {}
    BY DEF Precious
  <1> HIDE DEF a
  <1>4. CheckReadiness(s, a) => "release" \in s.ready
    <2> SUFFICES ASSUME \A r \in d : r \in s.ready
                 PROVE  "release" \in d
      BY <1>1 DEF CheckReadiness, Is
    <2>1. {"credentials", "pg"} \subseteq s.exists
      BY DEF Sane
    <2> QED
      BY <2>1 DEF When
  <1> HIDE DEF d
  <1>5. Is(a, d, k, {}, {})
    BY <1>1 DEF d
  <1>6. Good(s, a)
    BY <1>2, <1>3, <1>4, <1>5, PlainGood
  <1> QED
    BY <1>6 DEF a

LEMMA ForgejoGood ==
  ASSUME NEW s \in Snapshot, Sane(s), s.spec.service = "forgejo"
  PROVE  Good(s, Respond(s))
  <1> DEFINE a == Respond(s)
             rel == When("credentials" \in s.exists, {"release"})
  <1>0. a = Forgejo(s)
    BY Responds
  <1> HIDE DEF a
  <1>1. PICK b \in SUBSET {"backup"}, k \in SUBSET {"repo-password", "schedule"} :
          /\ Is(a, {"credentials"} \cup rel \cup b \cup k, k, {}, {})
          /\ KeepsBucket(s) => b = {"backup"}
    BY <1>0, ForgejoIs
  <1> DEFINE d == {"credentials"} \cup rel \cup b \cup k
  <1>2. d \subseteq Composed["forgejo"] /\ "init-job" \notin d
    BY ComposedAre DEF When, K8up
  <1>3. k \cap Precious = {}
    BY DEF Precious
  <1> HIDE DEF a
  <1>4. CheckReadiness(s, a) => "release" \in s.ready
    <2> SUFFICES ASSUME \A r \in d : r \in s.ready
                 PROVE  "release" \in d
      BY <1>1 DEF CheckReadiness, Is
    <2>1. "credentials" \in s.exists
      BY DEF Sane
    <2> QED
      BY <2>1 DEF When
  <1> HIDE DEF d
  <1>5. Is(a, d, k, {}, {})
    BY <1>1 DEF d
  <1>6. Good(s, a)
    BY <1>2, <1>3, <1>4, <1>5, PlainGood
  <1> QED
    BY <1>6 DEF a

LEMMA OthersGood ==
  ASSUME NEW s \in Snapshot, s.spec.service \in {"minio", "openbao", "garage"}
  PROVE  Good(s, Respond(s))
  <1> DEFINE a == Respond(s)
  <1>1. CASE s.spec.service = "minio"
    <2>1. PICK more \in SUBSET {"service-observer", "service-monitor", "sli-bucket"} :
            Is(a, {"release"} \cup more, {}, {}, {})
      BY <1>1, MinioIs, Responds
    <2> DEFINE d == {"release"} \cup more
    <2>2. d \subseteq Composed["minio"] /\ "init-job" \notin d /\ "release" \in d
      BY ComposedAre
    <2> HIDE DEF a, d
    <2>3. Is(a, d, {}, {}, {})
      BY <2>1 DEF d
    <2>4. CheckReadiness(s, a) => "release" \in s.ready
      BY <2>2, <2>3 DEF CheckReadiness, Is
    <2>5. Good(s, a)
      BY <1>1, <2>2, <2>3, <2>4, PlainGood
    <2> QED
      BY <2>5 DEF a
  <1>2. CASE s.spec.service = "openbao"
    <2> DEFINE job == When(~s.status.initialized /\ "init-observer" \notin s.seen, {"init-job"})
               d == {"release", "init-observer"} \cup job
               o == {"init-observer"} \cup job
    <2>1. Is(a, d, o, {}, {})
      BY <1>2, OpenBaoIs, Responds
    <2>2. /\ d \subseteq Composed["openbao"] /\ "release" \in d
          /\ "init-job" \in d => ~s.status.initialized
      BY ComposedAre DEF When
    <2>3. o \cap Precious = {}
      BY DEF Precious, When
    <2> HIDE DEF a, d, o
    <2>4. CheckReadiness(s, a) => "release" \in s.ready
      BY <2>1, <2>2 DEF CheckReadiness, Is
    <2>5. Good(s, a)
      BY <1>2, <2>1, <2>2, <2>3, <2>4, PlainGood
    <2> QED
      BY <2>5 DEF a
  <1>3. CASE s.spec.service = "garage"
    <2>1. Is(a, {"release"}, {}, {}, {})
      BY <1>3, GarageIs, Responds
    <2> HIDE DEF a
    <2>2. {"release"} \subseteq Composed["garage"]
      BY ComposedAre
    <2>3. CheckReadiness(s, a) => "release" \in s.ready
      BY <2>1 DEF CheckReadiness, Is
    <2>4. Good(s, a)
      BY <1>3, <2>1, <2>2, <2>3, PlainGood
    <2> QED
      BY <2>4 DEF a
  <1> QED
    BY <1>1, <1>2, <1>3

LEMMA AnswersAreGood ==
  ASSUME NEW s \in Snapshot, Sane(s)
  PROVE  Good(s, Respond(s))
  <1>1. s.spec.service \in ServiceNames
    BY DEF Snapshot, Spec0
  <1> QED
    BY <1>1, ServicesAre, StackGresGood, CnpgGood, KeycloakGood, RedisGood, NextcloudGood, ForgejoGood,
       OthersGood
-----------------------------------------------------------------------------
(* A pass and what it deletes. *)

LEMMA PassIsGood ==
  ASSUME IInv, pass # None
  PROVE  /\ pass.input \in Snapshot /\ pass.answer \in Answer
         /\ Sane(pass.input) /\ Good(pass.input, pass.answer)
  <1>1. pass.input \in Snapshot /\ pass.answer \in Answer
    BY DEF IInv, TypeOK
  <1>2. Sane(pass.input) /\ pass.answer = Respond(pass.input)
    BY DEF IInv, PassInv, Sane
  <1> QED
    BY <1>1, <1>2, AnswersAreGood

\* Of what is precious, a pass deletes the bucket after the retention only.
LEMMA PreciousGarbage ==
  ASSUME IInv, pass # None,
         NEW r \in Precious, r \in Garbage(pass.answer), ~Denied(r)
  PROVE  r = Bucket(spec.service) /\ retention = "over"
  <1>1. CASE r = Bucket(spec.service)
    BY <1>1 DEF Denied
  <1>2. CASE r # Bucket(spec.service)
    <2>1. r \in Existing /\ r \notin pass.answer.desired
      BY DEF Garbage
    <2>2. spec.service = "cnpg" /\ r = "luks-key-0"
      BY <1>2 DEF Denied, IInv, OpenInv, When
    <2>3. /\ pass.input.spec.service = "cnpg" /\ pass.input.spec.encrypted
          /\ "release" \in pass.input.seen
      BY <2>1, <2>2 DEF IInv, PassInv, KeyInv
    <2>4. "luks-key-0" \in pass.answer.desired
      BY <2>3, PassIsGood DEF Good
    <2> QED
      BY <2>1, <2>2, <2>4
  <1> QED
    BY <1>1, <1>2

\* The certificate of CloudNativePG's key, its release, is never deleted.
LEMMA ReleaseStays ==
  ASSUME IInv, pass # None, spec.service = "cnpg",
         "release" \in Garbage(pass.answer), ~Denied("release")
  PROVE  FALSE
  BY PreciousGarbage DEF Precious, Bucket

LEMMA TypeFacts ==
  ASSUME IInv
  PROVE  /\ spec.service \in ServiceNames /\ Composed[spec.service] \subseteq Names
         /\ Existing \subseteq Names /\ open \subseteq Names
         /\ stage \in [Names -> Stages]
  BY ServicesAre DEF IInv, TypeOK, Spec0, Existing

\* What is left when of the garbage a part is deleted and of what is desired a
\* part is applied.
LEMMA ApplyKeeps ==
  ASSUME IInv, pass # None, UNCHANGED <<spec, external>>,
         \A r \in Garbage(pass.answer) : ~Denied(r),
         NEW applied \in SUBSET pass.answer.desired, Apply(applied)
  PROVE  /\ stage' \in [Names -> Stages]
         /\ Existing' \subseteq Composed[spec.service]
         /\ open' \subseteq Existing' /\ OpenInv'
         /\ retention' \in Retention /\ render' \in SUBSET Tags
         /\ retention' # "none" => Bucket(spec.service) \in Existing'
         /\ KeyInv' /\ BareInv'
  <1> DEFINE garbage == Garbage(pass.answer)
             desired == pass.answer.desired
             f(r) == CASE r \in garbage -> "none"
                       [] r \in applied /\ stage[r] = "none" -> IF r \in Plain THEN "ready" ELSE "new"
                       [] OTHER -> stage[r]
  <1>1. /\ Good(pass.input, pass.answer) /\ pass.input \in Snapshot
        /\ pass.input.spec.service = spec.service
    BY PassIsGood DEF IInv, PassInv
  <1>2. desired \subseteq Composed[spec.service]
    BY <1>1 DEF Good
  <1>3. /\ garbage = Existing \ desired /\ garbage \cap applied = {}
        /\ applied \subseteq Names
    BY <1>2, TypeFacts DEF Garbage
  <1>4. stage' = [r \in Names |-> f(r)]
    BY DEF Apply
  <1>5. /\ open' = ((open \ applied) \cup (pass.answer.open \cap applied)) \ garbage
        /\ retention' = IF Bucket(spec.service) \in garbage THEN "none" ELSE RetentionAfter(applied)
        /\ render' \in SUBSET Tags
    BY DEF Apply
  <1> HIDE DEF garbage, desired
  <1>6. \A r \in Names :
          /\ r \in garbage => f(r) = "none"
          /\ r \notin garbage /\ r \in applied /\ stage[r] = "none" => f(r) \in {"new", "ready"}
          /\ r \notin garbage /\ ~(r \in applied /\ stage[r] = "none") => f(r) = stage[r]
    BY <1>3
  <1> HIDE DEF f
  <1>7. \A r \in Names :
          /\ r \in garbage => stage'[r] = "none"
          /\ r \notin garbage /\ r \in applied /\ stage[r] = "none" => stage'[r] \in {"new", "ready"}
          /\ r \notin garbage /\ ~(r \in applied /\ stage[r] = "none") => stage'[r] = stage[r]
    BY <1>4, <1>6
  <1>8. stage' \in [Names -> Stages]
    <2>1. \A r \in Names : f(r) \in Stages
      BY <1>6, TypeFacts DEF Stages
    <2> QED
      BY <1>4, <2>1
  <1>9. Existing' = (Existing \ garbage) \cup applied
    <2>1. Existing' \subseteq (Existing \ garbage) \cup applied
      BY <1>7 DEF Existing
    <2>2. (Existing \ garbage) \cup applied \subseteq Existing'
      BY <1>3, <1>7 DEF Existing
    <2> QED
      BY <2>1, <2>2
  <1>10. Existing' \subseteq Composed[spec.service]
    BY <1>2, <1>9 DEF IInv, TypeOK, desired
  <1>11. open' \subseteq Existing'
    BY <1>5, <1>9, <1>3 DEF IInv, TypeOK
  <1>12. OpenInv'
    <2>1. pass.answer.open \cap Precious \subseteq When(spec.service = "cnpg", {"luks-key-0"})
      BY <1>1 DEF Good
    <2>2. open \cap Precious \subseteq When(spec.service = "cnpg", {"luks-key-0"})
      BY DEF IInv, OpenInv
    <2>3. open' \cap Precious \subseteq When(spec.service = "cnpg", {"luks-key-0"})
      BY <1>5, <2>1, <2>2
    <2> QED
      BY <2>3 DEF OpenInv
  <1>13. retention' \in Retention /\ (retention' # "none" => Bucket(spec.service) \in Existing')
    <2>1. CASE Bucket(spec.service) \in garbage
      BY <1>5, <2>1 DEF Retention
    <2>2. CASE Bucket(spec.service) \notin garbage
      <3>1. CASE Bucket(spec.service) \in applied
        <4>1. retention' \in {"none", "running", retention}
          BY <1>5, <2>2, <3>1 DEF RetentionAfter
        <4> QED
          BY <1>9, <3>1, <4>1 DEF IInv, TypeOK, Retention
      <3>2. CASE Bucket(spec.service) \notin applied
        <4>1. retention' = retention
          BY <1>5, <2>2, <3>2 DEF RetentionAfter
        <4> QED
          BY <1>9, <2>2, <4>1 DEF IInv, TypeOK
      <3> QED
        BY <3>1, <3>2
    <2> QED
      BY <2>1, <2>2
  <1>14. KeyInv'
    <2> SUFFICES ASSUME spec.service = "cnpg", "luks-key-0" \in Existing'
                 PROVE  spec.encrypted /\ "release" \in Seen'
      BY DEF KeyInv
    <2>1. "luks-key-0" \in desired
      BY <1>3, <1>9 DEF desired
    <2>2. pass.input.spec.encrypted /\ "release" \in pass.input.seen
      BY <1>1, <2>1 DEF Good, desired
    <2>3. spec.encrypted /\ "release" \in Seen
      BY <2>2 DEF IInv, PassInv
    <2>4. "release" \notin garbage
      BY ReleaseStays DEF garbage
    <2>5. "release" \in Names /\ stage["release"] \in {"unready", "ready"}
      BY <2>3 DEF Seen
    <2>6. stage'["release"] = stage["release"]
      BY <1>7, <2>4, <2>5
    <2> QED
      BY <2>3, <2>5, <2>6 DEF Seen
  <1>15. BareInv'
    <2> SUFFICES ASSUME NEW r \in Names, stage'[r] = "bare"
                 PROVE  stage[r] = "bare"
      BY DEF BareInv, IInv
    <2> QED
      BY <1>7
  <1> QED
    BY <1>5, <1>8, <1>10, <1>11, <1>12, <1>13, <1>14, <1>15

\* A provider changes the state of one resource.
LEMMA SetKeeps ==
  ASSUME IInv, NEW r \in Names, NEW new \in Stages, Set(r, new), faults' \in 0..MaxFaults,
         stage[r] # "none", new # "none", new = "bare" => r = "pg",
         stage[r] \in {"unready", "ready"} => new \in {"unready", "ready"} \/ r = "init-observer"
  PROVE  IInv'
  <1>1. /\ stage' = [stage EXCEPT ![r] = new]
        /\ UNCHANGED <<spec, status, reported, edits, open, retention, render, external, pass>>
    BY DEF Set, composite, labels
  <1>2. stage' \in [Names -> Stages] /\ \A q \in Names : stage'[q] = IF q = r THEN new ELSE stage[q]
    BY <1>1, TypeFacts
  <1>3. Existing' = Existing
    BY <1>2 DEF Existing
  <1>4. Seen \ {"init-observer"} \subseteq Seen'
    BY <1>2 DEF Seen
  <1>5. TypeOK'
    BY <1>1, <1>2, <1>3 DEF IInv, TypeOK
  <1>6. PassInv'
    <2> SUFFICES ASSUME pass # None PROVE PassInv'
      BY <1>1 DEF PassInv
    <2>1. pass.input.seen \ {"init-observer"} \subseteq Seen'
      BY <1>4 DEF IInv, PassInv
    <2> QED
      BY <1>1, <1>3, <2>1 DEF IInv, PassInv
  <1>7. OpenInv'
    BY <1>1 DEF IInv, OpenInv
  <1>8. KeyInv'
    BY <1>1, <1>3, <1>4 DEF IInv, KeyInv
  <1>9. BareInv'
    BY <1>2 DEF IInv, BareInv
  <1>10. ExternalInv' /\ ReadyMeansReachable'
    BY <1>1 DEF IInv, ExternalInv, ReadyMeansReachable
  <1> QED
    BY <1>5, <1>6, <1>7, <1>8, <1>9, <1>10 DEF IInv
-----------------------------------------------------------------------------
(* The inductive invariant. *)

LEMMA InitIInv == Init => IInv
  <1> SUFFICES ASSUME Init PROVE IInv
    OBVIOUS
  <1>1. Existing = {}
    BY DEF Init, Existing
  <1>2. stage \in [Names -> Stages] /\ \A r \in Names : stage[r] = "none"
    BY DEF Init, Stages
  <1>3. status \in Status /\ spec \in Spec0 /\ retention \in Retention /\ external \in External
    BY DEF Init, Status, Retention, External
  <1>4. TypeOK
    <2>1. Existing \subseteq Composed[spec.service] /\ open \subseteq Existing /\ open = {}
      BY <1>1 DEF Init
    <2>2. retention = "none" /\ render \in SUBSET Tags /\ pass = None /\ reported \in BOOLEAN
      BY DEF Init
    <2>3. edits \in 0..MaxEdits /\ faults \in 0..MaxFaults
      BY ServicesAssumption DEF Init
    <2> QED
      BY <1>2, <1>3, <2>1, <2>2, <2>3 DEF TypeOK
  <1>5. PassInv /\ OpenInv /\ KeyInv /\ BareInv /\ ReadyMeansReachable
    BY <1>1, <1>2 DEF Init, PassInv, OpenInv, KeyInv, BareInv, ReadyMeansReachable
  <1>6. ExternalInv
    BY DEF Init, ExternalInv
  <1> QED
    BY <1>4, <1>5, <1>6 DEF IInv

LEMMA ObservedIs ==
  ASSUME IInv
  PROVE  Observed \in Snapshot /\ Sane(Observed)
  <1>1. Observed \in Snapshot
    BY TypeFacts DEF IInv, TypeOK, Observed, Snapshot, Seen
  <1>2. Sane(Observed)
    BY DEF IInv, BareInv, Observed, Sane, Existing, Seen
  <1> QED
    BY <1>1, <1>2

LEMMA RunFunctionKeeps == IInv /\ RunFunction => IInv'
  <1> SUFFICES ASSUME IInv, RunFunction PROVE IInv'
    OBVIOUS
  <1>1. /\ pass' = [input |-> Observed, answer |-> Respond(Observed)]
        /\ UNCHANGED <<spec, status, reported, edits, stage, open, retention, render, external, faults>>
    BY DEF RunFunction, composite, labels
  <1>2. Observed \in Snapshot /\ Respond(Observed) \in Answer /\ Sane(Observed)
    BY ObservedIs, AnswersAreGood DEF Good
  <1>3. Existing' = Existing /\ Seen' = Seen
    BY <1>1 DEF Existing, Seen
  <1>4. TypeOK'
    BY <1>1, <1>2, <1>3 DEF IInv, TypeOK
  <1>5. PassInv'
    <2> DEFINE s == Observed
    <2>1. /\ s.spec = spec /\ s.status = status /\ s.exists = Existing /\ s.seen = Seen
          /\ s.external = external
      BY DEF Observed
    <2>2. /\ s.seen \subseteq Existing /\ s.ready \subseteq Existing /\ s.ready \ {"pg"} \subseteq s.seen
      BY <1>2, <2>1 DEF Sane
    <2>3. spec.service = "cnpg" /\ "luks-key-0" \in Existing => "release" \in s.seen
      BY <2>1 DEF IInv, KeyInv
    <2> HIDE DEF s
    <2>4. pass' = [input |-> s, answer |-> Respond(s)]
      BY <1>1 DEF s
    <2>5. pass'.input = s /\ pass'.answer = Respond(s)
      BY <2>4
    <2> QED
      BY <1>1, <1>3, <2>1, <2>2, <2>3, <2>5 DEF PassInv
  <1>6. OpenInv' /\ KeyInv' /\ BareInv' /\ ExternalInv' /\ ReadyMeansReachable'
    BY <1>1, <1>3 DEF IInv, OpenInv, KeyInv, BareInv, ExternalInv, ReadyMeansReachable
  <1> QED
    BY <1>4, <1>5, <1>6 DEF IInv

\* A composite that is Ready has its endpoint covered.
LEMMA FinishKeeps == IInv /\ Finish => IInv'
  <1> SUFFICES ASSUME IInv, Finish PROVE IInv'
    OBVIOUS
  <1>1. /\ pass # None /\ \A r \in Garbage(pass.answer) : ~Denied(r)
        /\ Apply(pass.answer.desired)
        /\ status' = pass.answer.status
        /\ reported' = CheckReadiness(pass.input, pass.answer)
        /\ pass' = None /\ UNCHANGED <<spec, external, edits, faults>>
    BY DEF Finish
  <1>2. /\ stage' \in [Names -> Stages]
        /\ Existing' \subseteq Composed[spec.service]
        /\ open' \subseteq Existing' /\ OpenInv'
        /\ retention' \in Retention /\ render' \in SUBSET Tags
        /\ retention' # "none" => Bucket(spec.service) \in Existing'
        /\ KeyInv' /\ BareInv'
    BY <1>1, ApplyKeeps
  <1>3. status' \in Status /\ reported' \in BOOLEAN
    BY <1>1, PassIsGood DEF Answer, CheckReadiness
  <1>4. TypeOK'
    BY <1>1, <1>2, <1>3 DEF IInv, TypeOK
  <1>5. PassInv' /\ ExternalInv'
    BY <1>1 DEF IInv, PassInv, ExternalInv
  <1>6. ReadyMeansReachable'
    <2> SUFFICES ASSUME CheckReadiness(pass.input, pass.answer), external # "off", external # "covered"
                 PROVE  FALSE
      BY <1>1 DEF ReadyMeansReachable
    <2>1. pass.input.spec.service \in {"redis", "mariadb"}
      BY <1>1 DEF IInv, PassInv, ExternalInv
    <2>2. pass.input.external \in {"waiting", "known"}
      <3>1. pass.input.external # "off" /\ pass.input.external # "covered"
        BY <1>1 DEF IInv, PassInv
      <3> QED
        BY <1>1, <3>1, PassIsGood DEF Snapshot, External
    <2>3. "server-cert" \in pass.answer.desired \cap pass.answer.unready
      BY <1>1, <2>1, <2>2, PassIsGood DEF Good
    <2> QED
      BY <2>3 DEF CheckReadiness
  <1> QED
    BY <1>2, <1>4, <1>5, <1>6 DEF IInv

LEMMA FinishDeniedKeeps == IInv /\ FinishDenied => IInv'
  <1> SUFFICES ASSUME IInv, FinishDenied PROVE IInv'
    OBVIOUS
  <1>1. /\ pass # None /\ pass' = None
        /\ UNCHANGED <<spec, status, reported, edits, external, render, faults>>
    BY DEF FinishDenied, composite
  <1>2. PICK deleted \in SUBSET {r \in Garbage(pass.answer) : ~Denied(r)} :
          /\ stage' = [r \in Names |-> IF r \in deleted THEN "none" ELSE stage[r]]
          /\ open' = open \ deleted
          /\ retention' = IF Bucket(spec.service) \in deleted THEN "none" ELSE retention
    BY DEF FinishDenied
  <1>3. stage' \in [Names -> Stages]
    BY <1>2, TypeFacts DEF Stages
  <1>4. Existing' = Existing \ deleted
    BY <1>2 DEF Existing
  <1>5. TypeOK'
    BY <1>1, <1>2, <1>3, <1>4 DEF IInv, TypeOK, Retention
  <1>6. PassInv' /\ ExternalInv' /\ ReadyMeansReachable'
    BY <1>1 DEF IInv, PassInv, ExternalInv, ReadyMeansReachable
  <1>7. OpenInv'
    BY <1>1, <1>2 DEF IInv, OpenInv
  <1>8. KeyInv'
    <2> SUFFICES ASSUME spec.service = "cnpg", "luks-key-0" \in Existing'
                 PROVE  spec.encrypted /\ "release" \in Seen'
      BY <1>1 DEF KeyInv
    <2>1. spec.encrypted /\ "release" \in Seen
      BY <1>4 DEF IInv, KeyInv
    <2>2. "release" \notin deleted
      BY <1>1, ReleaseStays
    <2> QED
      BY <1>2, <2>1, <2>2 DEF Seen
  <1>9. BareInv'
    BY <1>2 DEF IInv, BareInv
  <1> QED
    BY <1>5, <1>6, <1>7, <1>8, <1>9 DEF IInv

LEMMA BreakOffKeeps == IInv /\ BreakOff => IInv'
  <1> SUFFICES ASSUME IInv, BreakOff PROVE IInv'
    OBVIOUS
  <1>1. /\ pass # None /\ \A r \in Garbage(pass.answer) : ~Denied(r)
        /\ faults < MaxFaults /\ faults' = faults + 1
        /\ pass' = None /\ UNCHANGED <<spec, status, reported, edits, external>>
    BY DEF BreakOff, composite
  <1>2. PICK applied \in SUBSET pass.answer.desired : Apply(applied)
    BY DEF BreakOff
  <1>3. /\ stage' \in [Names -> Stages]
        /\ Existing' \subseteq Composed[spec.service]
        /\ open' \subseteq Existing' /\ OpenInv'
        /\ retention' \in Retention /\ render' \in SUBSET Tags
        /\ retention' # "none" => Bucket(spec.service) \in Existing'
        /\ KeyInv' /\ BareInv'
    BY <1>1, <1>2, ApplyKeeps
  <1>4. faults' \in 0..MaxFaults
    BY <1>1, ServicesAssumption DEF IInv, TypeOK
  <1>5. TypeOK'
    BY <1>1, <1>3, <1>4 DEF IInv, TypeOK
  <1>6. PassInv' /\ ExternalInv' /\ ReadyMeansReachable'
    BY <1>1 DEF IInv, PassInv, ExternalInv, ReadyMeansReachable
  <1> QED
    BY <1>3, <1>5, <1>6 DEF IInv

LEMMA ProvidersKeep ==
  ASSUME IInv,
         \/ \E r \in Composed[spec.service] : BecomeReady(r) \/ BecomeUnready(r)
         \/ BecomeBare \/ LoseInitOutput
  PROVE  IInv'
  <1>1. faults \in 0..MaxFaults /\ (faults < MaxFaults => faults + 1 \in 0..MaxFaults)
    BY ServicesAssumption DEF IInv, TypeOK
  <1>2. ASSUME NEW r \in Composed[spec.service], BecomeReady(r) PROVE IInv'
    BY <1>1, <1>2, SetKeeps, TypeFacts DEF BecomeReady, Stages
  <1>3. ASSUME NEW r \in Composed[spec.service], BecomeUnready(r) PROVE IInv'
    BY <1>1, <1>3, SetKeeps, TypeFacts DEF BecomeUnready, Stages
  <1>4. CASE BecomeBare
    BY <1>1, <1>4, SetKeeps, AllNames DEF BecomeBare, Stages
  <1>5. CASE LoseInitOutput
    BY <1>1, <1>5, SetKeeps, AllNames DEF LoseInitOutput, Stages
  <1> QED
    BY <1>2, <1>3, <1>4, <1>5

\* Neither the endpoint nor time nor the user touches a resource or a pass.
LEMMA OutsideKeeps ==
  ASSUME IInv, EndpointKnown \/ EndpointCovered \/ Expire \/ EditSettings
  PROVE  IInv'
  <1>1. /\ UNCHANGED <<status, reported, stage, open, render, pass, faults>>
        /\ spec' \in Spec0 /\ spec'.service = spec.service /\ spec'.encrypted = spec.encrypted
        /\ retention' \in Retention /\ (retention' # "none" => retention # "none")
        /\ external' \in External
        /\ external' = "off" <=> external = "off"
        /\ external = "covered" => external' = "covered"
        /\ edits' \in 0..MaxEdits
    <2>1. CASE EndpointKnown \/ EndpointCovered
      BY <2>1 DEF EndpointKnown, EndpointCovered, composite, labels, IInv, TypeOK, External
    <2>2. CASE Expire
      BY <2>2 DEF Expire, composite, IInv, TypeOK, Retention
    <2>3. CASE EditSettings
      <3>1. UNCHANGED <<status, reported, stage, open, retention, render, pass, faults, external>>
        BY <2>3 DEF EditSettings, labels
      <3>2. spec' \in Spec0 /\ spec'.service = spec.service /\ spec'.encrypted = spec.encrypted
        <4>1. CASE spec' = [spec EXCEPT !.backup = ~@]
          BY <4>1 DEF IInv, TypeOK, Spec0
        <4>2. ASSUME NEW n \in Instances, spec' = [spec EXCEPT !.instances = n]
              PROVE  spec' \in Spec0 /\ spec'.service = spec.service /\ spec'.encrypted = spec.encrypted
          BY <4>2, ServicesAssumption DEF IInv, TypeOK, Spec0
        <4> QED
          BY <2>3, <4>1, <4>2 DEF EditSettings
      <3>3. edits' \in 0..MaxEdits
        BY <2>3, ServicesAssumption DEF EditSettings, IInv, TypeOK
      <3> QED
        BY <3>1, <3>2, <3>3 DEF IInv, TypeOK
    <2> QED
      BY <2>1, <2>2, <2>3
  <1>2. Existing' = Existing /\ Seen' = Seen
    BY <1>1 DEF Existing, Seen
  <1>3. TypeOK'
    BY <1>1, <1>2 DEF IInv, TypeOK, Bucket
  <1>4. PassInv'
    BY <1>1, <1>2 DEF IInv, PassInv
  <1>5. OpenInv' /\ KeyInv' /\ BareInv' /\ ExternalInv'
    BY <1>1, <1>2 DEF IInv, OpenInv, KeyInv, BareInv, ExternalInv
  <1>6. ReadyMeansReachable'
    BY <1>1 DEF IInv, ReadyMeansReachable
  <1> QED
    BY <1>3, <1>4, <1>5, <1>6 DEF IInv

LEMMA NextIInv == IInv /\ [Next]_vars => IInv'
  <1> SUFFICES ASSUME IInv, [Next]_vars PROVE IInv'
    OBVIOUS
  <1>1. CASE RunFunction \/ Finish \/ FinishDenied \/ BreakOff
    BY <1>1, RunFunctionKeeps, FinishKeeps, FinishDeniedKeeps, BreakOffKeeps
  <1>2. CASE \/ \E r \in Composed[spec.service] : BecomeReady(r) \/ BecomeUnready(r)
             \/ BecomeBare \/ LoseInitOutput
    BY <1>2, ProvidersKeep
  <1>3. CASE EndpointKnown \/ EndpointCovered \/ Expire \/ EditSettings
    BY <1>3, OutsideKeeps
  <1>4. CASE UNCHANGED vars
    BY <1>4 DEF vars, IInv, TypeOK, PassInv, OpenInv, KeyInv, BareInv, ExternalInv, ReadyMeansReachable,
       Existing, Seen
  <1> QED
    BY <1>1, <1>2, <1>3, <1>4 DEF Next, Progress
-----------------------------------------------------------------------------
(* The theorems. *)

\* Every composed resource, label and answer is one the service knows of, and a
\* label only sits on a resource that exists: the state that Crossplane and the
\* webhooks keep.
THEOREM TypeCorrect == Spec => []TypeOK
  <1>1. IInv => TypeOK
    BY DEF IInv
  <1> QED
    BY InitIInv, NextIInv, <1>1, PTL DEF Spec

\* A composite of Redis or MariaDB becomes Ready only when its certificate
\* covers the endpoint outside of the cluster (GateExternalCertReadiness).
THEOREM ReadyOnlyIfReachable == Spec => []ReadyMeansReachable
  <1>1. IInv => ReadyMeansReachable
    BY DEF IInv
  <1> QED
    BY InitIInv, NextIInv, <1>1, PTL DEF Spec

\* Only the end of a pass creates or deletes resources, or sets the Ready
\* condition.
LEMMA OnlyPasses ==
  ASSUME IInv, [Next]_vars, ~Finish, ~FinishDenied, ~BreakOff
  PROVE  /\ \A r \in Names : stage'[r] = "none" <=> stage[r] = "none"
         /\ reported' = reported
  <1>1. CASE RunFunction
    BY <1>1 DEF RunFunction, composite
  <1>2. ASSUME NEW r \in Names, NEW new \in Stages, new # "none", stage[r] # "none", Set(r, new)
        PROVE  /\ \A q \in Names : stage'[q] = "none" <=> stage[q] = "none"
               /\ reported' = reported
    BY <1>2, TypeFacts DEF Set, composite
  <1>3. ASSUME NEW r \in Composed[spec.service], BecomeReady(r)
        PROVE  /\ \A q \in Names : stage'[q] = "none" <=> stage[q] = "none"
               /\ reported' = reported
    BY <1>2, <1>3, TypeFacts DEF BecomeReady, Stages
  <1>4. ASSUME NEW r \in Composed[spec.service], BecomeUnready(r)
        PROVE  /\ \A q \in Names : stage'[q] = "none" <=> stage[q] = "none"
               /\ reported' = reported
    BY <1>2, <1>4, TypeFacts DEF BecomeUnready, Stages
  <1>5. CASE BecomeBare
    BY <1>2, <1>5, AllNames DEF BecomeBare, Stages
  <1>6. CASE LoseInitOutput
    BY <1>2, <1>6, AllNames DEF LoseInitOutput, Stages
  <1>7. CASE EndpointKnown \/ EndpointCovered \/ Expire \/ EditSettings
    BY <1>7 DEF EndpointKnown, EndpointCovered, Expire, EditSettings, composite
  <1>8. CASE UNCHANGED vars
    BY <1>8 DEF vars
  <1> QED
    BY <1>1, <1>3, <1>4, <1>5, <1>6, <1>7, <1>8 DEF Next, Progress

\* What the end of a pass creates it desires, what it deletes is not denied.
LEMMA PassesEnd ==
  ASSUME IInv, Finish \/ FinishDenied \/ BreakOff
  PROVE  /\ pass # None
         /\ \A r \in Names : stage[r] # "none" /\ stage'[r] = "none" => r \in Garbage(pass.answer) /\ ~Denied(r)
         /\ \A r \in Names : stage[r] = "none" /\ stage'[r] # "none" => r \in pass.answer.desired
  <1>1. ASSUME NEW applied \in SUBSET pass.answer.desired, Apply(applied), pass # None
        PROVE  \A r \in Names :
                 /\ stage[r] # "none" /\ stage'[r] = "none" => r \in Garbage(pass.answer)
                 /\ stage[r] = "none" /\ stage'[r] # "none" => r \in pass.answer.desired
    <2> SUFFICES ASSUME NEW r \in Names
                 PROVE  /\ stage[r] # "none" /\ stage'[r] = "none" => r \in Garbage(pass.answer)
                        /\ stage[r] = "none" /\ stage'[r] # "none" => r \in applied
      OBVIOUS
    <2>1. stage'[r] = CASE r \in Garbage(pass.answer) -> "none"
                        [] r \in applied /\ stage[r] = "none" -> IF r \in Plain THEN "ready" ELSE "new"
                        [] OTHER -> stage[r]
      BY <1>1 DEF Apply
    <2>2. ~(r \in Garbage(pass.answer) /\ r \in applied)
      BY DEF Garbage
    <2> QED
      BY <2>1, <2>2
  <1>2. CASE Finish
    BY <1>1, <1>2 DEF Finish
  <1>3. CASE BreakOff
    BY <1>1, <1>3 DEF BreakOff
  <1>4. CASE FinishDenied
    <2>1. PICK deleted \in SUBSET {r \in Garbage(pass.answer) : ~Denied(r)} :
            stage' = [r \in Names |-> IF r \in deleted THEN "none" ELSE stage[r]]
      BY <1>4 DEF FinishDenied
    <2> QED
      BY <1>4, <2>1 DEF FinishDenied
  <1> QED
    BY <1>2, <1>3, <1>4

\* Through passes that break off, are denied or see resources come and go, what
\* holds the data or the keys of an instance is not deleted, but for the bucket
\* after the retention (the webhooks of the deletion protection).
THEOREM DataIsKept == Spec => DataSurvives
  <1> DEFINE A == \A r \in Precious : stage[r] # "none" /\ stage'[r] = "none"
                    => r = Bucket(spec.service) /\ retention = "over"
  <1>1. ASSUME IInv, [Next]_vars PROVE A
    <2> SUFFICES ASSUME NEW r \in Precious, stage[r] # "none", stage'[r] = "none"
                 PROVE  r = Bucket(spec.service) /\ retention = "over"
      OBVIOUS
    <2>1. r \in Names
      BY AllNames DEF Precious
    <2>2. Finish \/ FinishDenied \/ BreakOff
      BY <1>1, <2>1, OnlyPasses
    <2>3. pass # None /\ r \in Garbage(pass.answer) /\ ~Denied(r)
      BY <1>1, <2>1, <2>2, PassesEnd
    <2> QED
      BY <1>1, <2>3, PreciousGarbage
  <1>2. IInv /\ [Next]_vars => [A]_vars
    BY <1>1
  <1> QED
    BY InitIInv, NextIInv, <1>2, PTL DEF Spec, DataSurvives

\* A vault is not initialised twice, even when the observer has lost what the
\* first initialisation wrote (InitOpenBao, UpdateStatus).
THEOREM InitialisedOnce == Spec => InitOnce
  <1> DEFINE A == stage["init-job"] = "none" /\ status.initialized => stage'["init-job"] = "none"
  <1>1. ASSUME IInv, [Next]_vars PROVE A
    <2> SUFFICES ASSUME stage["init-job"] = "none", status.initialized, stage'["init-job"] # "none"
                 PROVE  FALSE
      OBVIOUS
    <2>1. "init-job" \in Names
      BY AllNames
    <2>2. Finish \/ FinishDenied \/ BreakOff
      BY <1>1, <2>1, OnlyPasses
    <2>3. pass # None /\ "init-job" \in pass.answer.desired
      BY <1>1, <2>1, <2>2, PassesEnd
    <2>4. ~pass.input.status.initialized
      BY <1>1, <2>3, PassIsGood DEF Good
    <2> QED
      BY <1>1, <2>3, <2>4 DEF IInv, PassInv
  <1>2. IInv /\ [Next]_vars => [A]_vars
    BY <1>1
  <1> QED
    BY InitIInv, NextIInv, <1>2, PTL DEF Spec, InitOnce

\* A composite becomes Ready only in a pass that saw its main resource Ready,
\* though pipelines leave that resource out when a step ends early
\* (checkReadiness).
THEOREM ReadyOnlyIfServing == Spec => ReadyMeansServing
  <1> DEFINE A == ~reported /\ reported' /\ spec.service # "keycloak"
                    => Main(spec.service) \in pass.input.ready
  <1>1. ASSUME IInv, [Next]_vars PROVE A
    <2> SUFFICES ASSUME ~reported, reported', spec.service # "keycloak"
                 PROVE  Main(spec.service) \in pass.input.ready
      OBVIOUS
    <2>1. Finish \/ FinishDenied \/ BreakOff
      BY <1>1, OnlyPasses
    <2>2. Finish
      BY <2>1 DEF FinishDenied, BreakOff, composite
    <2>3. pass # None /\ CheckReadiness(pass.input, pass.answer)
      BY <2>2 DEF Finish
    <2>4. pass.input.spec.service = spec.service
      BY <1>1, <2>3 DEF IInv, PassInv
    <2> QED
      BY <1>1, <2>3, <2>4, PassIsGood DEF Good
  <1>2. IInv /\ [Next]_vars => [A]_vars
    BY <1>1
  <1> QED
    BY InitIInv, NextIInv, <1>2, PTL DEF Spec, ReadyMeansServing

\* The main resource is created on what the pass that creates it has seen in
\* order and what still exists (DelayClusterDeployment, DatabaseReady,
\* AddAdminSecret, SkipsRelease).
THEOREM BuiltInOrder == Spec => DeployedInOrder
  <1> DEFINE A == stage[Main(spec.service)] = "none" /\ stage'[Main(spec.service)] # "none"
                    => /\ Foundations(pass.input.spec) \subseteq pass.input.ready \cap Existing
                       /\ Restored(pass.input.spec) \subseteq pass.input.seen \cap Existing
  <1>1. ASSUME IInv, [Next]_vars PROVE A
    <2> SUFFICES ASSUME stage[Main(spec.service)] = "none", stage'[Main(spec.service)] # "none"
                 PROVE  /\ Foundations(pass.input.spec) \subseteq pass.input.ready \cap Existing
                        /\ Restored(pass.input.spec) \subseteq pass.input.seen \cap Existing
      OBVIOUS
    <2>1. Main(spec.service) \in Names
      BY AllNames DEF Main
    <2>2. Finish \/ FinishDenied \/ BreakOff
      BY <1>1, <2>1, OnlyPasses
    <2>3. pass # None /\ Main(spec.service) \in pass.answer.desired
      BY <1>1, <2>1, <2>2, PassesEnd
    <2>4. /\ pass.input.spec.service = spec.service /\ pass.input.exists = Existing
          /\ pass.input.ready \subseteq Existing /\ pass.input.seen \subseteq Existing
      BY <1>1, <2>3 DEF IInv, PassInv
    <2>5. Main(spec.service) \notin pass.input.exists
      BY <2>4 DEF Existing
    <2>6. Good(pass.input, pass.answer)
      BY <1>1, <2>3, PassIsGood
    <2> QED
      BY <2>3, <2>4, <2>5, <2>6 DEF Good
  <1>2. IInv /\ [Next]_vars => [A]_vars
    BY <1>1
  <1> QED
    BY InitIInv, NextIInv, <1>2, PTL DEF Spec, DeployedInOrder
-----------------------------------------------------------------------------
(* What an answer creates and opens for deletion, and what it forgets. *)

\* A step desires a resource only if it has seen what it waits for, and opens
\* what may be deleted.
Sound(s, a) ==
  LET x == s.spec.service
  IN /\ a.open \subseteq Removable(x) \cup {"proxysql"}
     /\ a.desired \cap Removable(x) \subseteq a.open
     /\ x \in {"forgejo", "keycloak", "nextcloud"} /\ "release" \in a.desired =>
          "credentials" \in s.exists
     /\ x = "nextcloud" /\ "release" \in a.desired => "pg" \in s.exists
     /\ x = "minio" /\ "sli-bucket" \in a.desired => "service-observer" \in s.seen
     /\ x = "mariadb" /\ "proxysql" \in a.desired =>
          "server-cert" \in s.exists /\ ("proxysql" \in a.open \/ a.status.instances > 1)
     /\ x = "keycloak" /\ s.spec.restore /\ "credentials" \in a.desired =>
          "restore-creds" \in s.seen
     /\ x = "cnpg" /\ s.spec.restore =>
          /\ "recovery-creds" \in a.desired
          /\ "release" \in a.desired => "recovery-creds" \in s.seen
     /\ x = "keycloak" /\ a.desired \cap {"copy-job", "restore-creds"} # {} => s.spec.restore
     /\ x = "stackgres" /\ a.desired \cap {"luks-key-0", "luks-key-1"} # {} => s.spec.encrypted

\* What exists and is protected and is not desired.
Forgotten(s, a) ==
  LET x == s.spec.service
  IN (s.exists \cap Composed[x])
       \ (a.desired \cup Removable(x) \cup When(~KeepsBucket(s), {Bucket(x)}))

\* The reasons for which an answer for a deployed instance forgets something.
Whole(s, a) ==
  LET x == s.spec.service
      f == Forgotten(s, a)
  IN Built(s) /\ Main(x) \in s.exists =>
       /\ x \in {"keycloak", "redis", "forgejo", "minio", "openbao", "garage"} => f = {}
       /\ x = "cnpg" => f = {} \/ SetupBackupFails(s)
       /\ x = "nextcloud" => f = {} \/ "release" \notin s.ready
       /\ x = "mariadb" => f \subseteq {"proxysql"} /\ (f # {} => s.status.instances <= 1)
       /\ x = "stackgres" =>
            \/ f = {}
            \/ s.spec.backup /\ "certificate" \notin s.ready
            \/ s.spec.encrypted /\ "luks-key-0" \notin s.ready
            \/ s.spec.encrypted /\ \E i \in s.spec.instances..1 : Luks(i) \in s.exists

\* A bucket is forgotten only as long as it has to be kept.
LEMMA ForgottenIs ==
  ASSUME NEW s, NEW a, NEW x, s.spec.service = x, NEW r \in Forgotten(s, a)
  PROVE  /\ r \in s.exists /\ r \in Composed[x] /\ r \notin a.desired /\ r \notin Removable(x)
         /\ r = Bucket(x) => KeepsBucket(s)
  BY DEF Forgotten, When

LEMMA ForgejoLasts ==
  ASSUME NEW s \in Snapshot, s.spec.service = "forgejo"
  PROVE  Sound(s, Respond(s)) /\ Whole(s, Respond(s))
  <1> DEFINE a == Respond(s)
             rel == When("credentials" \in s.exists, {"release"})
  <1>0. a = Forgejo(s)
    BY Responds
  <1> HIDE DEF a
  <1>1. PICK b \in SUBSET {"backup"}, k \in SUBSET {"repo-password", "schedule"} :
          /\ Is(a, {"credentials"} \cup rel \cup b \cup k, k, {}, {})
          /\ KeepsBucket(s) => b = {"backup"}
    BY <1>0, ForgejoIs
  <1>2. a.desired = {"credentials"} \cup rel \cup b \cup k /\ a.open = k
    BY <1>1 DEF Is
  <1>3. Sound(s, a)
    BY <1>2 DEF Sound, Removable, When
  <1>4. Built(s) /\ "release" \in s.exists => "credentials" \in s.exists
    BY DEF Built
  <1>5. Whole(s, a)
    BY <1>1, <1>2, <1>4, ComposedAre DEF Whole, Forgotten, Removable, When, Bucket, Main, K8up
  <1> QED
    BY <1>3, <1>5 DEF a

LEMMA NextcloudLasts ==
  ASSUME NEW s \in Snapshot, s.spec.service = "nextcloud"
  PROVE  Sound(s, Respond(s)) /\ Whole(s, Respond(s))
  <1> DEFINE a == Respond(s)
             rel == When({"credentials", "pg"} \subseteq s.exists, {"release"})
  <1>0. a = Nextcloud(s)
    BY Responds
  <1> HIDE DEF a
  <1>1. PICK b \in SUBSET {"backup"}, k \in SUBSET {"repo-password", "schedule"}, c \in SUBSET {"collabora"} :
          /\ Is(a, {"pg", "credentials"} \cup rel \cup b \cup k \cup c, k, {}, {})
          /\ KeepsBucket(s) => b = {"backup"}
          /\ "release" \in s.ready => c = {"collabora"}
    BY <1>0, NextcloudIs
  <1>2. a.desired = {"pg", "credentials"} \cup rel \cup b \cup k \cup c /\ a.open = k
    BY <1>1 DEF Is
  <1>3. Sound(s, a)
    BY <1>2 DEF Sound, Removable, When
  <1>4. Built(s) /\ "release" \in s.exists => {"credentials", "pg"} \subseteq s.exists
    BY DEF Built
  <1>5. Whole(s, a)
    BY <1>1, <1>2, <1>4, ComposedAre DEF Whole, Forgotten, Removable, When, Bucket, Main, K8up
  <1> QED
    BY <1>3, <1>5 DEF a

LEMMA RedisLasts ==
  ASSUME NEW s \in Snapshot, s.spec.service = "redis"
  PROVE  Sound(s, Respond(s)) /\ Whole(s, Respond(s))
  <1> DEFINE a == Respond(s)
  <1>0. a = Redis(s)
    BY Responds
  <1> HIDE DEF a
  <1>1. PICK b \in SUBSET {"backup"}, k \in SUBSET {"repo-password", "schedule"},
             o \in SUBSET {"tls-observer"}, u \in SUBSET {"server-cert"}, x \in SUBSET {"server-cert"} :
          /\ Is(a, {"credentials", "server-cert"} \cup o \cup {"release"} \cup b \cup k, o \cup k, u, x)
          /\ s.external \in {"waiting", "known"} => u = {"server-cert"}
          /\ KeepsBucket(s) => b = {"backup"}
    BY <1>0, RedisIs
  <1>2. a.desired = {"credentials", "server-cert"} \cup o \cup {"release"} \cup b \cup k /\ a.open = o \cup k
    BY <1>1 DEF Is
  <1>3. Sound(s, a)
    BY <1>2 DEF Sound, Removable, When
  <1>5. Whole(s, a)
    BY <1>1, <1>2, ComposedAre DEF Whole, Forgotten, Removable, When, Bucket, Main, K8up
  <1> QED
    BY <1>3, <1>5 DEF a

LEMMA MariaDBLasts ==
  ASSUME NEW s \in Snapshot, s.spec.service = "mariadb"
  PROVE  Sound(s, Respond(s)) /\ Whole(s, Respond(s))
  <1> DEFINE a == Respond(s)
  <1>0. a = MariaDB(s)
    BY Responds
  <1> HIDE DEF a
  <1>1. PICK b \in SUBSET {"backup"}, k \in SUBSET {"repo-password", "schedule"}, p \in SUBSET {"proxysql"},
             q \in SUBSET {"proxysql"}, o \in SUBSET {"tls-observer"},
             u \in SUBSET {"server-cert"}, x \in SUBSET {"server-cert"} :
          /\ Is(MariaDB(s), {"credentials", "server-cert"} \cup o \cup {"release"} \cup b \cup k \cup p,
                o \cup k \cup q, u, x)
          /\ s.external \in {"waiting", "known"} => u = {"server-cert"}
          /\ KeepsBucket(s) => b = {"backup"}
          /\ p # {} => "server-cert" \in s.exists
          /\ p # {} /\ q = {} => MariaDB(s).status.instances > 1
          /\ p = {} /\ "server-cert" \in s.exists => s.status.instances <= 1
    BY MariaDBIs
  <1>2. /\ a.desired = {"credentials", "server-cert"} \cup o \cup {"release"} \cup b \cup k \cup p
        /\ a.open = o \cup k \cup q
    BY <1>0, <1>1 DEF Is
  <1>3. Sound(s, a)
    BY <1>0, <1>1, <1>2 DEF Sound, Removable, When
  <1>4. Built(s) /\ "proxysql" \in s.exists => "server-cert" \in s.exists
    BY DEF Built
  <1>5. Forgotten(s, a) \subseteq {"proxysql"}
    <2> SUFFICES ASSUME NEW r \in Forgotten(s, a) PROVE r = "proxysql"
      OBVIOUS
    <2>1. /\ r \in Composed["mariadb"] /\ r \notin a.desired /\ r \notin Removable("mariadb")
          /\ r = "backup" => KeepsBucket(s)
      BY ForgottenIs DEF Bucket
    <2>2. {"repo-password", "schedule", "tls-observer"} \subseteq Removable("mariadb")
      BY DEF Removable
    <2> QED
      BY <1>1, <1>2, <2>1, <2>2, ComposedAre DEF K8up
  <1>6. Forgotten(s, a) # {} => p = {} /\ "proxysql" \in s.exists
    BY <1>2, <1>5, ForgottenIs
  <1>7. Whole(s, a)
    BY <1>1, <1>4, <1>5, <1>6 DEF Whole
  <1> QED
    BY <1>3, <1>7 DEF a

LEMMA KeycloakLasts ==
  ASSUME NEW s \in Snapshot, s.spec.service = "keycloak"
  PROVE  Sound(s, Respond(s)) /\ Whole(s, Respond(s))
  <1> DEFINE a == Respond(s)
  <1>0. a = Keycloak(s)
    BY Responds
  <1> HIDE DEF a
  <1>1. PICK m \in SUBSET {"copy-job", "restore-creds", "credentials"}, r \in SUBSET {"release"} :
          /\ Is(a, {"pg"} \cup m \cup r, {}, {}, {})
          /\ r # {} /\ "release" \notin s.exists =>
               "pg" \in s.ready /\ (s.spec.restore => "restore-creds" \in s.seen)
          /\ Secrets(s, m)
          /\ r # {} => "credentials" \in s.exists
          /\ "release" \in s.exists =>
               /\ Kept(s, m)
               /\ "credentials" \in m \cap s.exists => r # {}
    BY <1>0, KeycloakIs
  <1>2. a.desired = {"pg"} \cup m \cup r /\ a.open = {}
    BY <1>1 DEF Is
  <1>3. Sound(s, a)
    BY <1>1, <1>2 DEF Sound, Removable, Secrets
  <1>4. Built(s) /\ "release" \in s.exists =>
          /\ "credentials" \in s.exists
          /\ s.spec.restore => "restore-creds" \in s.seen
          /\ ~s.spec.restore => s.exists \cap {"copy-job", "restore-creds"} = {}
    BY DEF Built
  <1>5. Built(s) /\ "release" \in s.exists =>
          /\ r = {"release"} /\ "credentials" \in m
          /\ s.exists \cap {"copy-job", "restore-creds"} \subseteq m
    BY <1>1, <1>4 DEF Kept
  <1>6. Whole(s, a)
    BY <1>2, <1>5, ComposedAre DEF Whole, Forgotten, Main
  <1> QED
    BY <1>3, <1>6 DEF a

LEMMA CnpgLasts ==
  ASSUME NEW s \in Snapshot, s.spec.service = "cnpg"
  PROVE  Sound(s, Respond(s)) /\ Whole(s, Respond(s))
  <1> DEFINE a == Respond(s)
             key == When(s.spec.encrypted /\ "release" \in s.seen, {"luks-key-0"})
  <1>0. a = Cnpg(s)
    BY Responds
  <1> HIDE DEF a
  <1>1. PICK c \in SUBSET {"copy-job", "recovery-creds", "recovery-store"}, b \in SUBSET {"backup"},
             r \in SUBSET {"release"} :
          /\ Is(a, c \cup b \cup r \cup key, c \cup key, {}, {})
          /\ r # {} => ~SkipsRelease(s)
          /\ r = {} => \/ "recovery-creds" \in c \ s.seen
                       \/ "backup" \in b \ s.exists
          /\ s.spec.restore => "recovery-creds" \in c
          /\ SkipsRelease(s) \/ SetupBackupFails(s) \/ (r # {} /\ (KeepsBucket(s) => b # {}))
    BY <1>0, CnpgIs
  <1>2. a.desired = c \cup b \cup r \cup key /\ a.open = c \cup key /\ key \subseteq {"luks-key-0"}
    BY <1>1 DEF Is, When
  <1> HIDE DEF key
  <1>3. Removable("cnpg") = {"sg-backup", "copy-job", "recovery-creds", "recovery-store", "repo-password",
                             "schedule", "tls-observer", "init-observer", "init-job", "luks-key-0"}
    BY DEF Removable, When
  <1>4. Sound(s, a)
    BY <1>1, <1>2, <1>3 DEF Sound, SkipsRelease
  <1>5. Built(s) /\ "release" \in s.exists => ~SkipsRelease(s)
    BY DEF Built, SkipsRelease
  <1>6. ASSUME r # {}, KeepsBucket(s) => b # {}
        PROVE  Forgotten(s, a) = {}
    <2> SUFFICES ASSUME NEW f \in Forgotten(s, a) PROVE FALSE
      OBVIOUS
    <2>1. /\ f \in Composed["cnpg"] /\ f \notin a.desired /\ f \notin Removable("cnpg")
          /\ f = "backup" => KeepsBucket(s)
      BY ForgottenIs DEF Bucket
    <2>2. "release" \in a.desired /\ (KeepsBucket(s) => "backup" \in a.desired)
      <3>1. "release" \in r /\ (KeepsBucket(s) => "backup" \in b)
        BY <1>6
      <3>2. r \subseteq a.desired /\ b \subseteq a.desired
        BY <1>2
      <3> QED
        BY <3>1, <3>2
    <2>3. f \in {"copy-job", "recovery-creds", "recovery-store", "backup", "release", "luks-key-0"}
      BY <2>1, ComposedAre
    <2>4. f \in {"backup", "release"}
      BY <1>3, <2>1, <2>3
    <2> QED
      BY <2>1, <2>2, <2>4
  <1>7. Whole(s, a)
    BY <1>1, <1>5, <1>6 DEF Whole, Main
  <1> QED
    BY <1>4, <1>7 DEF a

LEMMA StackGresLasts ==
  ASSUME NEW s \in Snapshot, s.spec.service = "stackgres"
  PROVE  Sound(s, Respond(s)) /\ Whole(s, Respond(s))
  <1> DEFINE a == Respond(s)
             objects == {"profile"} \cup When(s.spec.backup, {"sg-backup"})
             keys == {"luks-key-0", "luks-key-1"}
  <1>0. a = StackGres(s)
    BY Responds
  <1> HIDE DEF a
  <1>1. PICK d \in SUBSET Composed["stackgres"], m \in SUBSET {"sg-backup", "copy-job"},
             u \in SUBSET {"cluster"} :
          /\ Is(a, d, m, u, {}) /\ m \subseteq d
          /\ {"certificate", "profile"} \subseteq d
          /\ "cluster" \in d => "cluster" \in s.exists \/ objects \subseteq s.ready
          /\ "cluster" \notin d => ~(objects \subseteq s.ready)
          /\ s.spec.backup => "certificate" \notin s.ready \/ "sg-backup" \in d
          /\ Keys(s, d \cap {"luks-key-0", "luks-key-1"})
          /\ "cluster" \in s.exists => "cluster" \in d
          /\ KeepsBucket(s) => "pg-bucket" \in d
          /\ (s.spec.backup /\ "certificate" \notin s.ready) \/ "podmonitor" \in d
          /\ d \cap {"sg-backup", "copy-job"} \subseteq m
    BY <1>0, StackGresIs
  <1>2. a.desired = d /\ a.open = m
    BY <1>1 DEF Is
  <1>3. /\ Removable("stackgres") \cap Composed["stackgres"] = {"sg-backup", "copy-job"}
        /\ {"sg-backup", "copy-job"} \subseteq Removable("stackgres")
    BY ComposedAre DEF Removable, When
  <1>4. Sound(s, a)
    <2>1. d \cap keys # {} => s.spec.encrypted
      BY <1>1 DEF Keys
    <2>2. d \cap Removable("stackgres") \subseteq m /\ m \subseteq Removable("stackgres")
      BY <1>1, <1>3
    <2> QED
      BY <1>2, <2>1, <2>2 DEF Sound
  <1>5. ASSUME Built(s), NEW r \in keys, r \in Forgotten(s, a)
        PROVE  /\ s.spec.encrypted
               /\ \/ "luks-key-0" \notin s.ready
                  \/ \E i \in s.spec.instances..1 : Luks(i) \in s.exists
    <2>1. r \in s.exists /\ r \notin d
      BY <1>2, <1>5 DEF Forgotten
    <2>2. s.spec.encrypted
      BY <1>5, <2>1 DEF Built
    <2>3. s.spec.instances \in 0..2
      BY DEF Snapshot, Spec0
    <2>4. CASE r = "luks-key-0"
      <3>1. ~(s.spec.instances >= 1)
        BY <1>1, <2>1, <2>2, <2>4 DEF Keys
      <3>2. 0 \in s.spec.instances..1 /\ Luks(0) = r
        BY <2>3, <2>4, <3>1 DEF Luks
      <3> QED
        BY <2>1, <2>2, <3>2
    <2>5. CASE r = "luks-key-1"
      <3>1. ~(s.spec.instances >= 2) \/ "luks-key-0" \notin s.ready
        BY <1>1, <2>1, <2>2, <2>5 DEF Keys
      <3>2. ~(s.spec.instances >= 2) => 1 \in s.spec.instances..1 /\ Luks(1) = r
        BY <2>3, <2>5 DEF Luks
      <3> QED
        BY <2>1, <2>2, <3>1, <3>2
    <2> QED
      BY <2>4, <2>5
  <1>6. ASSUME "cluster" \in s.exists, ~(s.spec.backup /\ "certificate" \notin s.ready)
        PROVE  Forgotten(s, a) \subseteq keys
    <2> SUFFICES ASSUME NEW f \in Forgotten(s, a) PROVE f \in keys
      OBVIOUS
    <2>1. /\ f \in Composed["stackgres"] /\ f \notin d /\ f \notin Removable("stackgres")
          /\ f = "pg-bucket" => KeepsBucket(s)
      BY <1>2, ForgottenIs DEF Bucket
    <2>2. {"certificate", "profile", "cluster", "podmonitor"} \subseteq d
      BY <1>1, <1>6
    <2> QED
      BY <1>1, <1>3, <2>1, <2>2, ComposedAre
  <1>7. Whole(s, a)
    BY <1>5, <1>6 DEF Whole, Main
  <1> QED
    BY <1>4, <1>7 DEF a

LEMMA OthersLast ==
  ASSUME NEW s \in Snapshot, s.spec.service \in {"minio", "openbao", "garage"}
  PROVE  Sound(s, Respond(s)) /\ Whole(s, Respond(s))
  <1> DEFINE a == Respond(s)
  <1>1. CASE s.spec.service = "minio"
    <2>1. PICK more \in SUBSET {"service-observer", "service-monitor", "sli-bucket"} :
            /\ Is(a, {"release"} \cup more, {}, {}, {})
            /\ {"service-observer", "service-monitor"} \subseteq more
            /\ "sli-bucket" \in more <=> "service-observer" \in s.seen
      BY <1>1, MinioIs, Responds
    <2> HIDE DEF a
    <2>2. a.desired = {"release"} \cup more /\ a.open = {}
      BY <2>1 DEF Is
    <2>3. Sound(s, a)
      BY <1>1, <2>1, <2>2 DEF Sound, Removable, When
    <2>4. Whole(s, a)
      BY <1>1, <2>1, <2>2, ComposedAre DEF Whole, Built, Forgotten, Bucket
    <2> QED
      BY <2>3, <2>4 DEF a
  <1>2. CASE s.spec.service = "openbao"
    <2> DEFINE job == When(~s.status.initialized /\ "init-observer" \notin s.seen, {"init-job"})
               d == {"release", "init-observer"} \cup job
               o == {"init-observer"} \cup job
    <2>1. Is(a, d, o, {}, {})
      BY <1>2, OpenBaoIs, Responds
    <2> HIDE DEF a
    <2>2. a.desired = d /\ a.open = o
      BY <2>1 DEF Is
    <2>3. job \subseteq {"init-job"}
      BY DEF When
    <2> HIDE DEF job
    <2>4. Sound(s, a)
      BY <1>2, <2>2, <2>3 DEF Sound, Removable, When
    <2>5. Whole(s, a)
      BY <1>2, <2>2, ComposedAre DEF Whole, Forgotten, Removable, When
    <2> QED
      BY <2>4, <2>5 DEF a
  <1>3. CASE s.spec.service = "garage"
    <2>1. Is(a, {"release"}, {}, {}, {})
      BY <1>3, GarageIs, Responds
    <2> HIDE DEF a
    <2>2. a.desired = {"release"} /\ a.open = {}
      BY <2>1 DEF Is
    <2>3. Sound(s, a)
      BY <1>3, <2>2 DEF Sound, Removable, When
    <2>4. Whole(s, a)
      BY <1>3, <2>2, ComposedAre DEF Whole, Forgotten
    <2> QED
      BY <2>3, <2>4 DEF a
  <1> QED
    BY <1>1, <1>2, <1>3

LEMMA AnswersLast ==
  ASSUME NEW s \in Snapshot
  PROVE  Sound(s, Respond(s)) /\ Whole(s, Respond(s))
  <1>1. s.spec.service \in ServiceNames
    BY DEF Snapshot, Spec0
  <1> QED
    BY <1>1, ServicesAre, StackGresLasts, CnpgLasts, KeycloakLasts, RedisLasts, MariaDBLasts,
       NextcloudLasts, ForgejoLasts, OthersLast
-----------------------------------------------------------------------------
(* Nothing protected is forgotten but for the known reasons. *)

\* A deletion that is not denied takes the bucket, what may be deleted, or
\* ProxySQL; the credentials of a recovery are desired again.
LEMMA GoneIs ==
  ASSUME IInv, LockInv, pass # None,
         NEW r \in Garbage(pass.answer), ~Denied(r)
  PROVE  /\ r = Bucket(spec.service) \/ r \in Removable(spec.service) \/ r = "proxysql"
         /\ r \notin {"credentials", "pg", "server-cert", "service-observer"}
         /\ spec.service = "keycloak" => r # "restore-creds"
         /\ spec.service = "cnpg" /\ spec.restore => r # "recovery-creds"
  <1>1. r = Bucket(spec.service) \/ r \in Removable(spec.service) \/ r = "proxysql"
    BY DEF Denied, LockInv, RemovableInv
  <1>2. /\ r \notin {"credentials", "pg", "server-cert", "service-observer"}
        /\ spec.service = "keycloak" => r # "restore-creds"
    BY <1>1 DEF Bucket, Removable, When
  <1>3. ASSUME spec.service = "cnpg", spec.restore
        PROVE  "recovery-creds" \in pass.answer.desired
    <2>1. pass.input.spec.service = "cnpg" /\ pass.input.spec.restore
      BY <1>3 DEF IInv, PassInv, LockInv
    <2>2. Sound(pass.input, pass.answer)
      BY PassIsGood, AnswersLast DEF IInv, PassInv
    <2> QED
      BY <2>1, <2>2 DEF Sound
  <1> QED
    BY <1>1, <1>2, <1>3 DEF Garbage

\* Built by what exists and what has been seen.
LEMMA BuiltIs ==
  Built(Observed) <=>
    LET x == spec.service
    IN /\ x \in {"forgejo", "keycloak", "nextcloud"} /\ "release" \in Existing => "credentials" \in Existing
       /\ x = "nextcloud" /\ "release" \in Existing => "pg" \in Existing
       /\ x = "minio" /\ "sli-bucket" \in Existing => "service-observer" \in Seen
       /\ x = "mariadb" /\ "proxysql" \in Existing => "server-cert" \in Existing
       /\ x = "keycloak" /\ spec.restore /\ "credentials" \in Existing => "restore-creds" \in Seen
       /\ x = "cnpg" /\ spec.restore /\ "release" \in Existing => "recovery-creds" \in Seen
       /\ x = "keycloak" /\ Existing \cap {"copy-job", "restore-creds"} # {} => spec.restore
       /\ x = "stackgres" /\ Existing \cap {"luks-key-0", "luks-key-1"} # {} => spec.encrypted
  <1>1. /\ Observed.spec = spec /\ Observed.exists = Existing /\ Observed.seen = Seen
    BY DEF Observed
  <1> QED
    BY <1>1 DEF Built

\* The end of a pass: what is gone was not denied, what is applied is desired.
LEMMA EndKeepsLock ==
  ASSUME IInv, LockInv, pass # None, spec' = spec,
         NEW gone \in SUBSET {r \in Garbage(pass.answer) : ~Denied(r)},
         NEW applied \in SUBSET pass.answer.desired,
         Existing' = (Existing \ gone) \cup applied,
         Seen \ gone \subseteq Seen',
         open' = ((open \ applied) \cup (pass.answer.open \cap applied)) \ gone
  PROVE  Built(Observed)' /\ RemovableInv'
  <1> DEFINE s == pass.input
             a == pass.answer
  <1>1. /\ Sound(s, a)
        /\ s.spec.service = spec.service /\ s.spec.encrypted = spec.encrypted
        /\ s.spec.restore = spec.restore
        /\ s.exists = Existing /\ s.seen \ {"init-observer"} \subseteq Seen
    BY PassIsGood, AnswersLast DEF IInv, PassInv, LockInv
  <1>2. /\ gone \cap applied = {}
        /\ gone \cap {"credentials", "pg", "server-cert", "service-observer"} = {}
        /\ spec.service = "keycloak" => "restore-creds" \notin gone
        /\ spec.service = "cnpg" /\ spec.restore => "recovery-creds" \notin gone
    BY GoneIs DEF Garbage
  <1>3. Built(Observed) /\ RemovableInv
    BY DEF LockInv
  <1> HIDE DEF s, a
  <1>4. applied \subseteq a.desired /\ open' = ((open \ applied) \cup (a.open \cap applied)) \ gone
    BY DEF a
  <1>5. RemovableInv'
    <2>1. a.open \subseteq Removable(spec.service) \cup {"proxysql"} /\ a.desired \cap Removable(spec.service) \subseteq a.open
      BY <1>1 DEF Sound
    <2>2. open' \subseteq Removable(spec.service) \cup {"proxysql"}
      BY <1>3, <1>4, <2>1 DEF RemovableInv
    <2>3. Existing' \cap Removable(spec.service) \subseteq open'
      BY <1>2, <1>3, <1>4, <2>1 DEF RemovableInv
    <2> QED
      BY <2>2, <2>3 DEF RemovableInv
  <1>6. \A r \in Existing' : r \in Existing \/ r \in a.desired
    BY <1>4
  <1>7. /\ \A r \in Existing : r \notin gone => r \in Existing'
        /\ \A r \in Seen : r \notin gone => r \in Seen'
    OBVIOUS
  <1>8. /\ \A r \in {"credentials", "pg", "server-cert"} : r \in Existing => r \in Existing'
        /\ "service-observer" \in Seen => "service-observer" \in Seen'
        /\ spec.service = "keycloak" /\ "restore-creds" \in Seen => "restore-creds" \in Seen'
        /\ spec.service = "cnpg" /\ spec.restore /\ "recovery-creds" \in Seen => "recovery-creds" \in Seen'
    BY <1>2, <1>7
  <1>9. \A r : r \in s.seen /\ r # "init-observer" => r \in Seen
    BY <1>1
  <1>10. Built(Observed)'
    <2> DEFINE x == spec.service
    <2>1. x \in {"forgejo", "keycloak", "nextcloud"} /\ "release" \in Existing' => "credentials" \in Existing'
      BY <1>1, <1>3, <1>6, <1>8, BuiltIs DEF Sound
    <2>2. x = "nextcloud" /\ "release" \in Existing' => "pg" \in Existing'
      BY <1>1, <1>3, <1>6, <1>8, BuiltIs DEF Sound
    <2>3. x = "minio" /\ "sli-bucket" \in Existing' => "service-observer" \in Seen'
      BY <1>1, <1>3, <1>6, <1>8, <1>9, BuiltIs DEF Sound
    <2>4. x = "mariadb" /\ "proxysql" \in Existing' => "server-cert" \in Existing'
      BY <1>1, <1>3, <1>6, <1>8, BuiltIs DEF Sound
    <2>5. x = "keycloak" /\ spec.restore /\ "credentials" \in Existing' => "restore-creds" \in Seen'
      BY <1>1, <1>3, <1>6, <1>8, <1>9, BuiltIs DEF Sound
    <2>6. x = "cnpg" /\ spec.restore /\ "release" \in Existing' => "recovery-creds" \in Seen'
      BY <1>1, <1>3, <1>6, <1>8, <1>9, BuiltIs DEF Sound
    <2>7. x = "keycloak" /\ Existing' \cap {"copy-job", "restore-creds"} # {} => spec.restore
      BY <1>1, <1>3, <1>6, BuiltIs DEF Sound
    <2>8. x = "stackgres" /\ Existing' \cap {"luks-key-0", "luks-key-1"} # {} => spec.encrypted
      BY <1>1, <1>3, <1>6, BuiltIs DEF Sound
    <2>9. spec' = spec
      OBVIOUS
    <2>10. /\ Observed'.spec = spec /\ Observed'.exists = Existing' /\ Observed'.seen = Seen'
      BY <2>9 DEF Observed
    <2> QED
      BY <2>1, <2>2, <2>3, <2>4, <2>5, <2>6, <2>7, <2>8, <2>10 DEF Built
  <1> QED
    BY <1>5, <1>10

\* What a pass that is not denied leaves of the resources.
LEMMA ApplyLeaves ==
  ASSUME IInv, pass # None, \A r \in Garbage(pass.answer) : ~Denied(r),
         NEW applied \in SUBSET pass.answer.desired, Apply(applied)
  PROVE  /\ Existing' = (Existing \ Garbage(pass.answer)) \cup applied
         /\ Seen \ Garbage(pass.answer) \subseteq Seen'
         /\ open' = ((open \ applied) \cup (pass.answer.open \cap applied)) \ Garbage(pass.answer)
         /\ Garbage(pass.answer) \in SUBSET {r \in Garbage(pass.answer) : ~Denied(r)}
  <1> DEFINE garbage == Garbage(pass.answer)
             f(r) == CASE r \in garbage -> "none"
                       [] r \in applied /\ stage[r] = "none" -> IF r \in Plain THEN "ready" ELSE "new"
                       [] OTHER -> stage[r]
  <1>1. /\ stage' = [r \in Names |-> f(r)]
        /\ open' = ((open \ applied) \cup (pass.answer.open \cap applied)) \ garbage
    BY DEF Apply
  <1>2. garbage \cap applied = {} /\ applied \subseteq Names
    BY PassIsGood, TypeFacts DEF Garbage, Answer
  <1> HIDE DEF garbage
  <1>3. \A r \in Names :
          /\ r \in garbage => f(r) = "none"
          /\ r \notin garbage /\ r \in applied /\ stage[r] = "none" => f(r) \in {"new", "ready"}
          /\ r \notin garbage /\ ~(r \in applied /\ stage[r] = "none") => f(r) = stage[r]
    BY <1>2
  <1> HIDE DEF f
  <1>4. \A r \in Names :
          /\ r \in garbage => stage'[r] = "none"
          /\ r \notin garbage /\ r \in applied /\ stage[r] = "none" => stage'[r] \in {"new", "ready"}
          /\ r \notin garbage /\ ~(r \in applied /\ stage[r] = "none") => stage'[r] = stage[r]
    BY <1>1, <1>3
  <1>5. Existing' \subseteq (Existing \ garbage) \cup applied
    BY <1>4 DEF Existing
  <1>6. (Existing \ garbage) \cup applied \subseteq Existing'
    BY <1>2, <1>4 DEF Existing
  <1>7. Seen \ garbage \subseteq Seen'
    BY <1>4 DEF Seen
  <1> QED
    BY <1>1, <1>5, <1>6, <1>7 DEF garbage

LEMMA InitLockInv == Init => LockInv
  <1> SUFFICES ASSUME Init PROVE LockInv
    OBVIOUS
  <1>1. Existing = {} /\ open = {} /\ pass = None
    BY DEF Init, Existing
  <1> QED
    BY <1>1, BuiltIs DEF LockInv, RemovableInv, ProxyInv

\* Steps that neither create nor delete anything.
LEMMA StillKeepsLock ==
  ASSUME LockInv, Existing' = Existing, Seen \ {"init-observer"} \subseteq Seen',
         UNCHANGED <<open, status>>,
         spec'.service = spec.service, spec'.encrypted = spec.encrypted, spec'.restore = spec.restore,
         pass' = pass \/ pass'.input.spec = spec'
  PROVE  LockInv'
  <1>1. /\ Observed'.spec = spec' /\ Observed'.exists = Existing' /\ Observed'.seen = Seen'
    BY DEF Observed
  <1>2. \A r \in Seen : r # "init-observer" => r \in Seen'
    OBVIOUS
  <1>3. Built(Observed)
    BY DEF LockInv
  <1>4. Built(Observed)'
    BY <1>1, <1>2, <1>3, BuiltIs DEF Built
  <1>5. RemovableInv' /\ ProxyInv'
    BY DEF LockInv, RemovableInv, ProxyInv
  <1>6. pass' # None => pass'.input.spec.restore = spec'.restore
    BY DEF LockInv
  <1> QED
    BY <1>4, <1>5, <1>6 DEF LockInv

LEMMA PassKeepsLock ==
  ASSUME "mariadb" \notin Breaking, IInv, LockInv, Finish \/ BreakOff
  PROVE  LockInv'
  <1>1. /\ pass # None /\ \A r \in Garbage(pass.answer) : ~Denied(r)
        /\ pass' = None /\ spec' = spec
    BY DEF Finish, BreakOff, composite
  <1>2. PICK applied \in SUBSET pass.answer.desired :
          /\ Apply(applied)
          /\ spec.service = "mariadb" => applied = pass.answer.desired /\ status' = pass.answer.status
    BY DEF Finish, BreakOff
  <1>3. /\ Existing' = (Existing \ Garbage(pass.answer)) \cup applied
        /\ Seen \ Garbage(pass.answer) \subseteq Seen'
        /\ open' = ((open \ applied) \cup (pass.answer.open \cap applied)) \ Garbage(pass.answer)
        /\ Garbage(pass.answer) \in SUBSET {r \in Garbage(pass.answer) : ~Denied(r)}
    BY <1>1, <1>2, ApplyLeaves
  <1>4. Built(Observed)' /\ RemovableInv'
    BY <1>1, <1>3, EndKeepsLock
  <1>5. ProxyInv'
    <2> SUFFICES ASSUME spec.service = "mariadb", "proxysql" \in Existing', "proxysql" \notin open'
                 PROVE  status'.instances > 1
      BY <1>1 DEF ProxyInv
    <2>1. applied = pass.answer.desired /\ status' = pass.answer.status
      BY <1>2
    <2>2. "proxysql" \in pass.answer.desired /\ "proxysql" \notin Garbage(pass.answer)
      BY <1>3, <2>1 DEF Garbage
    <2>3. "proxysql" \notin pass.answer.open
      BY <1>3, <2>1, <2>2
    <2>4. pass.input.spec.service = "mariadb" /\ Sound(pass.input, pass.answer)
      BY <1>1, PassIsGood, AnswersLast DEF IInv, PassInv
    <2> QED
      BY <2>1, <2>2, <2>3, <2>4 DEF Sound
  <1> QED
    BY <1>1, <1>4, <1>5 DEF LockInv

LEMMA DeniedKeepsLock ==
  ASSUME IInv, LockInv, FinishDenied
  PROVE  LockInv'
  <1>1. /\ pass # None /\ pass' = None /\ spec' = spec /\ status' = status
    BY DEF FinishDenied, composite
  <1>2. PICK deleted \in SUBSET {r \in Garbage(pass.answer) : ~Denied(r)} :
          /\ stage' = [r \in Names |-> IF r \in deleted THEN "none" ELSE stage[r]]
          /\ open' = open \ deleted
    BY DEF FinishDenied
  <1>3. Existing' = Existing \ deleted /\ Seen \ deleted \subseteq Seen'
    BY <1>2 DEF Existing, Seen
  <1> DEFINE none == {}
  <1>4. /\ none \in SUBSET pass.answer.desired
        /\ Existing' = (Existing \ deleted) \cup none
        /\ open' = ((open \ none) \cup (pass.answer.open \cap none)) \ deleted
    BY <1>2, <1>3
  <1> HIDE DEF none
  <1>5. Built(Observed)' /\ RemovableInv'
    BY <1>1, <1>3, <1>4, EndKeepsLock
  <1>6. ProxyInv'
    BY <1>1, <1>2, <1>3 DEF LockInv, ProxyInv
  <1> QED
    BY <1>1, <1>5, <1>6 DEF LockInv

LEMMA RunKeepsLock ==
  ASSUME LockInv, RunFunction
  PROVE  LockInv'
  <1>1. /\ pass' = [input |-> Observed, answer |-> Respond(Observed)]
        /\ UNCHANGED <<spec, status, stage, open>>
    BY DEF RunFunction, composite, labels
  <1>2. pass'.input.spec = spec'
    BY <1>1 DEF Observed
  <1>3. Existing' = Existing /\ Seen' = Seen
    BY <1>1 DEF Existing, Seen
  <1> QED
    BY <1>1, <1>2, <1>3, StillKeepsLock

\* A provider changes the state of one resource.
LEMMA SetKeepsLock ==
  ASSUME IInv, LockInv, NEW r \in Names, NEW new \in Stages, Set(r, new),
         stage[r] # "none", new # "none",
         stage[r] \in {"unready", "ready"} => new \in {"unready", "ready"} \/ r = "init-observer"
  PROVE  LockInv'
  <1>1. stage' = [stage EXCEPT ![r] = new] /\ UNCHANGED <<spec, status, open, pass>>
    BY DEF Set, composite, labels
  <1>2. \A q \in Names : stage'[q] = IF q = r THEN new ELSE stage[q]
    BY <1>1, TypeFacts
  <1>3. Existing' = Existing /\ Seen \ {"init-observer"} \subseteq Seen'
    BY <1>2 DEF Existing, Seen
  <1> QED
    BY <1>1, <1>3, StillKeepsLock

LEMMA ProvidersKeepLock ==
  ASSUME IInv, LockInv,
         \/ \E r \in Composed[spec.service] : BecomeReady(r) \/ BecomeUnready(r)
         \/ BecomeBare \/ LoseInitOutput
  PROVE  LockInv'
  <1>1. ASSUME NEW r \in Composed[spec.service], BecomeReady(r) PROVE LockInv'
    BY <1>1, SetKeepsLock, TypeFacts DEF BecomeReady, Stages
  <1>2. ASSUME NEW r \in Composed[spec.service], BecomeUnready(r) PROVE LockInv'
    BY <1>2, SetKeepsLock, TypeFacts DEF BecomeUnready, Stages
  <1>3. CASE BecomeBare
    BY <1>3, SetKeepsLock, AllNames DEF BecomeBare, Stages
  <1>4. CASE LoseInitOutput
    BY <1>4, SetKeepsLock, AllNames DEF LoseInitOutput, Stages
  <1> QED
    BY <1>1, <1>2, <1>3, <1>4

LEMMA OutsideKeepsLock ==
  ASSUME IInv, LockInv, EndpointKnown \/ EndpointCovered \/ Expire \/ EditSettings
  PROVE  LockInv'
  <1>1. UNCHANGED <<stage, status, open, pass>>
    BY DEF EndpointKnown, EndpointCovered, Expire, EditSettings, composite, labels
  <1>2. spec'.service = spec.service /\ spec'.encrypted = spec.encrypted /\ spec'.restore = spec.restore
    <2>1. CASE EditSettings
      BY <2>1 DEF EditSettings, IInv, TypeOK, Spec0
    <2>2. CASE EndpointKnown \/ EndpointCovered \/ Expire
      BY <2>2 DEF EndpointKnown, EndpointCovered, Expire, composite
    <2> QED
      BY <2>1, <2>2
  <1>3. Existing' = Existing /\ Seen' = Seen
    BY <1>1 DEF Existing, Seen
  <1> QED
    BY <1>1, <1>2, <1>3, StillKeepsLock

LEMMA NextLockInv ==
  ASSUME "mariadb" \notin Breaking, IInv, LockInv, [Next]_vars
  PROVE  LockInv'
  <1>1. CASE RunFunction \/ Finish \/ FinishDenied \/ BreakOff
    BY <1>1, RunKeepsLock, PassKeepsLock, DeniedKeepsLock
  <1>2. CASE \/ \E r \in Composed[spec.service] : BecomeReady(r) \/ BecomeUnready(r)
             \/ BecomeBare \/ LoseInitOutput
    BY <1>2, ProvidersKeepLock
  <1>3. CASE EndpointKnown \/ EndpointCovered \/ Expire \/ EditSettings
    BY <1>3, OutsideKeepsLock
  <1>4. CASE UNCHANGED vars
    <2>1. UNCHANGED <<spec, status, stage, open, pass>>
      BY <1>4 DEF vars
    <2>2. Existing' = Existing /\ Seen' = Seen
      BY <2>1 DEF Existing, Seen
    <2> QED
      BY <2>1, <2>2, StillKeepsLock
  <1> QED
    BY <1>1, <1>2, <1>3, <1>4 DEF Next, Progress

\* The next pass is denied for a known reason only.
LEMMA LocksAreKnown ==
  ASSUME IInv, LockInv
  PROVE  LockedOnlyIfKnown
  <1> SUFFICES ASSUME stage[Main(spec.service)] # "none", Locked
               PROVE  Stranded \/ Waiting
    BY DEF LockedOnlyIfKnown, NoLockout
  <1> DEFINE s == Observed
             a == Respond(Observed)
             x == spec.service
  <1>1. PICK r \in Garbage(a) : Denied(r)
    BY DEF Locked
  <1>2. /\ s \in Snapshot /\ Sane(s)
        /\ s.spec = spec /\ s.status = status /\ s.exists = Existing /\ s.retention = retention
        /\ s.ready = {q \in Names : stage[q] \in {"bare", "ready"}}
    BY ObservedIs DEF Observed
  <1>3. Built(s) /\ Whole(s, a)
    BY <1>2, AnswersLast DEF LockInv
  <1>4. Main(x) \in Existing
    BY AllNames DEF Main, Existing
  <1>5. \A q \in Names : stage[q] = "ready" => q \in s.ready
    BY <1>2
  <1> HIDE DEF s, a
  <1>6. r \in Existing /\ r \notin a.desired /\ r \in Composed[x] /\ r \in Names
    BY <1>1, TypeFacts DEF Garbage, IInv, TypeOK
  <1>7. r \notin Removable(x) /\ r \notin When(~KeepsBucket(s), {Bucket(x)})
        /\ (r # Bucket(x) => r \notin open)
    <2>1. CASE r = Bucket(x)
      <3>1. KeepsBucket(s)
        BY <1>1, <1>2, <1>6, <2>1 DEF Denied, KeepsBucket
      <3>2. r \notin Removable(x)
        BY <2>1 DEF Bucket, Removable, When
      <3> QED
        BY <2>1, <3>1, <3>2 DEF When
    <2>2. CASE r # Bucket(x)
      <3>1. r \notin open
        BY <1>1, <2>2 DEF Denied
      <3>2. r \notin Removable(x)
        BY <1>6, <3>1 DEF LockInv, RemovableInv
      <3> QED
        BY <2>2, <3>1, <3>2 DEF When
    <2> QED
      BY <2>1, <2>2
  <1>8. r \in Forgotten(s, a)
    BY <1>2, <1>6, <1>7 DEF Forgotten
  <1>9. /\ x \notin {"keycloak", "redis", "forgejo", "minio", "openbao", "garage"}
        /\ x = "cnpg" => SetupBackupFails(s)
        /\ x = "nextcloud" => "release" \notin s.ready
        /\ x = "mariadb" => r = "proxysql" /\ status.instances <= 1
        /\ x = "stackgres" =>
             \/ spec.backup /\ "certificate" \notin s.ready
             \/ spec.encrypted /\ "luks-key-0" \notin s.ready
             \/ spec.encrypted /\ \E i \in spec.instances..1 : Luks(i) \in Existing
    BY <1>2, <1>3, <1>4, <1>8 DEF Whole
  <1>10. CASE x = "cnpg"
    BY <1>4, <1>9, <1>10 DEF Stranded, Main, Existing, s
  <1>11. CASE x = "nextcloud"
    BY <1>5, <1>9, <1>11, AllNames DEF Waiting
  <1>12. CASE x = "mariadb"
    <2>1. "proxysql" \in Existing \ open /\ status.instances <= 1
      BY <1>6, <1>7, <1>9, <1>12 DEF Bucket
    <2>2. status.instances > 1
      BY <1>12, <2>1 DEF LockInv, ProxyInv
    <2>3. status.instances \in 0..2
      BY DEF IInv, TypeOK, Status
    <2> QED
      BY <2>1, <2>2, <2>3
  <1>13. CASE x = "stackgres"
    <2>1. \A q \in Existing : stage[q] # "none"
      BY DEF Existing
    <2> QED
      BY <1>5, <1>9, <1>13, <2>1, AllNames DEF Waiting, Stranded
  <1> QED
    BY <1>9, <1>10, <1>11, <1>12, <1>13, TypeFacts, ServicesAre

\* Changes to a deployed instance are denied for the known reasons only:
\* whatever the user edits and whichever outages and broken passes came before,
\* every pipeline desires again what the deletion protection would not let go.
\* Passes of MariaDB are not to break off: one that has applied ProxySQL and not
\* written the status is forgotten by AddProxySQL.
THEOREM LockoutsAreKnown ==
  ASSUME "mariadb" \notin Breaking
  PROVE  Spec => []LockedOnlyIfKnown
  <1>1. Init => IInv /\ LockInv
    BY InitIInv, InitLockInv
  <1>2. IInv /\ LockInv /\ [Next]_vars => (IInv /\ LockInv)'
    BY NextIInv, NextLockInv
  <1>3. IInv /\ LockInv => LockedOnlyIfKnown
    BY LocksAreKnown
  <1> QED
    BY <1>1, <1>2, <1>3, PTL DEF Spec
=============================================================================
