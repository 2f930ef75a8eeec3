------------------------------ MODULE Services ------------------------------
(***************************************************************************)
(* A service's composite over its life: Crossplane runs the composition    *)
(* functions of Pipelines again and again, deletes what they no longer     *)
(* desire, unless the deletion protection webhooks deny it, and applies    *)
(* the rest, while the providers make resources ready or lose them and the *)
(* user edits the settings.                                                *)
(*                                                                         *)
(* A denied deletion ends the pass before anything is applied, so a step   *)
(* that forgets a protected resource stops every change to the instance.   *)
(***************************************************************************)
EXTENDS Pipelines

CONSTANTS
  Services,   \* the services to look at
  Instances,  \* the numbers of instances a user may ask for
  None,       \* no pass is running
  Breaking,   \* the services whose passes may break off
  MaxEdits,   \* bound: changes of the settings
  MaxFaults   \* bound: passes that break off and resources that fail

ASSUME ServicesAssumption ==
  /\ Services \subseteq ServiceNames /\ Breaking \subseteq Services
  /\ Instances \subseteq 0..2
  /\ None \notin [input: Snapshot, answer: Answer]
  /\ MaxEdits \in Nat /\ MaxFaults \in Nat

VARIABLES
  spec,       \* the settings of the composite
  status,     \* its status
  stage,      \* every composed resource, see Stages
  open,       \* those with the allow-deletion label
  retention,  \* of the bucket, since backups were disabled
  external,   \* the endpoint outside of the cluster
  render,     \* how the main resource and the certificate were last applied
  pass,       \* what the functions were given and answered, None between passes
  reported,   \* the Ready condition of the composite
  edits, faults

vars == <<spec, status, stage, open, retention, external, render, pass, reported, edits, faults>>
composite == <<spec, status, reported, edits>>
labels == <<open, retention, render>>

\* "new": created; "bare": Ready without connection details; "unready": was
\* ready before.
Stages == {"none", "new", "bare", "ready", "unready"}

Existing == {r \in Names : stage[r] # "none"}
Seen == {r \in Names : stage[r] \in {"unready", "ready"}}

Observed ==
  [spec |-> spec, status |-> status, exists |-> Existing,
   ready |-> {r \in Names : stage[r] \in {"bare", "ready"}},
   seen |-> Seen,
   retention |-> retention, external |-> external]
-----------------------------------------------------------------------------
(* Crossplane and the webhooks. *)

\* Mutant: nothing is protected.
Denied_Never(r) == FALSE

\* checkManagedObject and isDeletionProtected; for a bucket with backups the
\* retention decides.
Denied(r) ==
  IF r = Bucket(spec.service) THEN retention # "over" ELSE r \notin open

Garbage(a) == Existing \ a.desired

\* The label of a bucket says since when backups are disabled.
RetentionAfter(applied) ==
  IF Bucket(spec.service) \notin applied THEN retention
  ELSE IF pass.input.spec.backup THEN "none"
  ELSE IF pass.input.retention = "none" THEN "running"
  ELSE retention

\* Resources whose readiness no step looks at: they are Ready once applied.
Plain == K8up \cup {"pg-bucket", "credentials", "podmonitor", "service-monitor",
                    "sli-bucket", "recovery-store"}

Carrier(tag) == IF tag = "san" THEN "server-cert" ELSE Main(spec.service)

\* Of what is desired, applied gets created or updated.
Apply(applied) ==
  LET a == pass.answer
      garbage == Garbage(a)
  IN /\ stage' = [r \in Names |->
                    CASE r \in garbage -> "none"
                      [] r \in applied /\ stage[r] = "none" -> IF r \in Plain THEN "ready" ELSE "new"
                      [] OTHER -> stage[r]]
     /\ open' = ((open \ applied) \cup (a.open \cap applied)) \ garbage
     /\ retention' = IF Bucket(spec.service) \in garbage THEN "none" ELSE RetentionAfter(applied)
     /\ render' = {t \in Tags : IF Carrier(t) \in applied THEN t \in a.render ELSE t \in render}

RunFunction ==
  /\ pass = None
  /\ LET s == Observed IN pass' = [input |-> s, answer |-> Respond(s)]
  /\ UNCHANGED <<composite, stage, labels, external, faults>>

Finish ==
  /\ pass # None
  /\ \A r \in Garbage(pass.answer) : ~Denied(r)
  /\ Apply(pass.answer.desired)
  /\ status' = pass.answer.status
  /\ reported' = CheckReadiness(pass.input, pass.answer)
  /\ pass' = None
  /\ UNCHANGED <<spec, external, edits, faults>>

\* The first denied deletion ends the pass; deletions before it are done.
FinishDenied ==
  /\ pass # None
  /\ LET garbage == Garbage(pass.answer)
     IN /\ \E r \in garbage : Denied(r)
        /\ \E deleted \in SUBSET {r \in garbage : ~Denied(r)} :
             /\ stage' = [r \in Names |-> IF r \in deleted THEN "none" ELSE stage[r]]
             /\ open' = open \ deleted
             /\ retention' = IF Bucket(spec.service) \in deleted THEN "none" ELSE retention
  /\ pass' = None
  /\ UNCHANGED <<composite, external, render, faults>>

\* An error while applying: some resources are, the status is not.
BreakOff ==
  /\ pass # None /\ faults < MaxFaults /\ spec.service \in Breaking
  /\ \A r \in Garbage(pass.answer) : ~Denied(r)
  /\ \E applied \in (SUBSET pass.answer.desired) \ {pass.answer.desired} : Apply(applied)
  /\ pass' = None
  /\ faults' = faults + 1
  /\ UNCHANGED <<composite, external>>
-----------------------------------------------------------------------------
(* The providers. *)

\* What has to be there before a resource can be ready for the first time:
\* jobs write what observers look at.
Needs(r) ==
  CASE r \in {"recovery-creds", "restore-creds"} -> {"copy-job"}
    [] r = "init-observer"    -> {"init-job"}
    [] r = "service-observer" -> {"release"}
    [] r = "tls-observer"     -> {"server-cert"}
    [] r = "init-job"         -> {"release"}
    [] OTHER                  -> {}

Set(r, new) ==
  /\ stage' = [stage EXCEPT ![r] = new]
  /\ UNCHANGED <<composite, labels, external, pass>>

BecomeReady(r) ==
  /\ stage[r] \in {"new", "bare", "unready"}
  /\ stage[r] = "new" => \A n \in Needs(r) : stage[n] = "ready"
  /\ Set(r, "ready") /\ UNCHANGED faults

\* The nested PostgreSQL is Ready before its connection details are there.
BecomeBare ==
  /\ stage["pg"] = "new"
  /\ Set("pg", "bare") /\ UNCHANGED faults

BecomeUnready(r) ==
  /\ r \notin Plain /\ stage[r] = "ready" /\ faults < MaxFaults
  /\ Set(r, "unready") /\ faults' = faults + 1

\* The secret with the unseal keys is gone: its observer has nothing to show.
LoseInitOutput ==
  /\ stage["init-observer"] = "ready" /\ faults < MaxFaults
  /\ Set("init-observer", "new") /\ faults' = faults + 1

\* The load balancer has got its address.
EndpointKnown ==
  /\ external = "waiting" /\ stage["release"] = "ready"
  /\ external' = "known"
  /\ UNCHANGED <<composite, stage, labels, pass, faults>>

\* cert-manager has renewed the certificate and the observer shows it.
EndpointCovered ==
  /\ external = "known" /\ "san" \in render
  /\ stage["server-cert"] = "ready" /\ stage["tls-observer"] = "ready"
  /\ external' = "covered"
  /\ UNCHANGED <<composite, stage, labels, pass, faults>>

\* The retention after disabling backups is over.
Expire ==
  /\ retention = "running"
  /\ retention' = "over"
  /\ UNCHANGED <<composite, stage, open, external, render, pass, faults>>

\* The services that have a step which tells numbers of instances apart.
Scaling == {"stackgres", "mariadb"}
Postgres == {"stackgres", "cnpg"}

EditSettings ==
  /\ edits < MaxEdits
  /\ \/ spec' = [spec EXCEPT !.backup = ~@]
     \/ /\ spec.service \in Scaling
        /\ \E n \in Instances \ {spec.instances} : spec' = [spec EXCEPT !.instances = n]
  /\ edits' = edits + 1
  /\ UNCHANGED <<status, reported, stage, labels, external, pass, faults>>
-----------------------------------------------------------------------------
Init ==
  /\ spec \in {x \in Spec0 :
       /\ x.service \in Services /\ x.instances \in Instances
       /\ x.service \notin Scaling => x.instances = 1
       /\ x.encrypted => x.service \in Postgres
       /\ x.restore => x.service \in Postgres \cup {"keycloak"}}
  /\ status = [instances |-> 0, initialized |-> FALSE]
  /\ stage = [r \in Names |-> "none"]
  /\ open = {} /\ retention = "none" /\ render = {}
  /\ external \in {"off"} \cup (IF spec.service \in {"redis", "mariadb"} THEN {"waiting"} ELSE {})
  /\ pass = None /\ reported = FALSE
  /\ edits = 0 /\ faults = 0

Progress == \/ \E r \in Composed[spec.service] : BecomeReady(r)
            \/ BecomeBare \/ EndpointKnown \/ EndpointCovered

Next ==
  \/ RunFunction \/ Finish \/ FinishDenied \/ BreakOff
  \/ Progress
  \/ \E r \in Composed[spec.service] : BecomeUnready(r)
  \/ LoseInitOutput \/ Expire \/ EditSettings

Spec == Init /\ [][Next]_vars

\* Crossplane reconciles again and again, and the providers bring about what
\* can be brought about.
Fairness ==
  /\ WF_vars(RunFunction) /\ WF_vars(Finish \/ FinishDenied)
  /\ WF_vars(Progress)

FairSpec == Spec /\ Fairness
-----------------------------------------------------------------------------
TypeOK ==
  /\ spec \in Spec0 /\ status \in Status
  /\ stage \in [Names -> Stages]
  /\ Existing \subseteq Composed[spec.service]
  /\ open \subseteq Existing
  /\ retention \in Retention /\ external \in External /\ render \in SUBSET Tags
  /\ retention # "none" => Bucket(spec.service) \in Existing
  /\ pass \in [input: Snapshot, answer: Answer] \cup {None} /\ reported \in BOOLEAN
  /\ edits \in 0..MaxEdits /\ faults \in 0..MaxFaults

\* Is the next pass going to be denied?
Locked == \E r \in Garbage(Respond(Observed)) : Denied(r)

\* Whatever the user changes, the functions never forget a protected resource
\* of a deployed instance: its passes are not denied, changes get through.
NoLockout == stage[Main(spec.service)] # "none" => ~Locked

\* Where a PostgreSQL is locked for good: backups were enabled later, or an
\* encrypted instance was scaled down, or suspended.
Stranded ==
  \/ /\ spec.service = "cnpg" /\ stage["release"] # "none"
     /\ SetupBackupFails(Observed)
  \/ /\ spec.service = "stackgres" /\ spec.encrypted
     /\ \E i \in spec.instances..1 : stage[Luks(i)] # "none"

\* Where a resource that became unready locks a service until it is back: the
\* steps after its gate are left out.
Waiting ==
  \/ spec.service = "nextcloud" /\ stage["release"] # "ready"
  \/ spec.service = "stackgres" /\ spec.backup /\ stage["certificate"] # "ready"
  \/ spec.service = "stackgres" /\ spec.encrypted /\ stage["luks-key-0"] # "ready"

\* There are no other reasons: no setting and no outage makes the functions
\* forget a protected resource of any other deployed instance, so changes to
\* it get through.
LockedOnlyIfKnown == ~NoLockout => Stranded \/ Waiting

\* What holds the data of an instance, or the keys to it.
Precious == {"cluster", "release", "pg", "credentials", "luks-key-0", "luks-key-1", "pg-bucket", "backup"}

\* However often a pass comes out differently, what holds data or keys stays;
\* backups go after the retention.
DataSurvives ==
  [][\A r \in Precious : stage[r] # "none" /\ stage'[r] = "none"
       => r = Bucket(spec.service) /\ retention = "over"]_vars

\* A composite with an endpoint outside of the cluster becomes Ready only when
\* its certificate covers that endpoint.
ReadyMeansReachable == reported /\ external # "off" => external = "covered"

\* A composite becomes Ready only in a pass that saw its main resource Ready.
\* Keycloak is left out: with a database that has no connection details yet it
\* counts as Ready without its release.
ReadyMeansServing ==
  [][~reported /\ reported' /\ spec.service # "keycloak"
       => Main(spec.service) \in pass.input.ready]_vars

\* What has to be Ready before the main resource is created, and for an
\* instance that is restored, the credentials that have to be known.
Foundations(x) ==
  CASE x.service = "keycloak"  -> {"pg"}
    [] x.service = "stackgres" -> {"profile"} \cup When(x.backup, {"sg-backup"})
    [] OTHER                   -> {}
Restored(x) ==
  CASE x.service = "keycloak" /\ x.restore -> {"restore-creds"}
    [] x.service = "cnpg" /\ x.restore     -> {"recovery-creds"}
    [] OTHER                               -> {}

\* When the main resource is created, what it builds on has been seen in order
\* and is still there.
DeployedInOrder ==
  [][stage[Main(spec.service)] = "none" /\ stage'[Main(spec.service)] # "none"
       => /\ Foundations(pass.input.spec) \subseteq pass.input.ready \cap Existing
          /\ Restored(pass.input.spec) \subseteq pass.input.seen \cap Existing]_vars

\* The vault is not initialised again, not even if the output of the first
\* time is lost.
InitOnce == [][stage["init-job"] = "none" /\ status.initialized => stage'["init-job"] = "none"]_vars

\* The instance is deployed and Ready, and another pass would change nothing.
Settled ==
  LET a == Respond(Observed)
  IN /\ Main(spec.service) \in Existing /\ reported
     /\ a.desired = Existing
     /\ a.status = status /\ a.open = open /\ a.render = render

\* The output of the initialisation is lost after the job is gone.
OutputLost == status.initialized /\ stage["init-observer"] = "new"

\* After the last edit and the last fault the instance gets into the shape the
\* settings ask for, and becomes Ready. A vault whose unseal keys are lost
\* does not, as it is not initialised again, nor does a stranded PostgreSQL.
EventuallySettled == <>[]Settled \/ <>[]OutputLost \/ <>[]Stranded

\* Encrypted instances are on encrypted storage.
EncryptedStorage == spec.encrypted /\ stage["cluster"] # "none" => "encrypted" \in render

\* A suspended MariaDB ends up without ProxySQL.
SuspendedHasNoProxy == <>[](spec.instances = 0 => stage["proxysql"] = "none")
-----------------------------------------------------------------------------
(* The inductive invariant of the proofs. *)

\* What a pass was given is still so when it ends, as far as that matters:
\* nobody else creates or deletes resources, and what has reported something
\* keeps it, but for the output of the initialisation.
PassInv ==
  pass # None =>
    LET s == pass.input
    IN /\ pass.answer = Respond(s)
       /\ s.spec.service = spec.service /\ s.spec.encrypted = spec.encrypted
       /\ s.status = status
       /\ s.exists = Existing /\ s.seen \subseteq Existing
       /\ s.ready \ {"pg"} \subseteq s.seen /\ s.ready \subseteq Existing
       /\ s.seen \ {"init-observer"} \subseteq Seen
       /\ s.external = "off" <=> external = "off"
       /\ s.external = "covered" => external = "covered"
       /\ spec.service = "cnpg" /\ "luks-key-0" \in Existing => "release" \in s.seen

\* Of what holds data or keys only the key of CloudNativePG may be deleted, and
\* every pass desires it again: its release has been seen.
OpenInv == open \cap Precious \subseteq When(spec.service = "cnpg", {"luks-key-0"})
KeyInv ==
  spec.service = "cnpg" /\ "luks-key-0" \in Existing => spec.encrypted /\ "release" \in Seen

BareInv == \A r \in Names : stage[r] = "bare" => r = "pg"
ExternalInv == external # "off" => spec.service \in {"redis", "mariadb"}

IInv ==
  /\ TypeOK /\ PassInv /\ OpenInv /\ KeyInv /\ BareInv /\ ExternalInv
  /\ ReadyMeansReachable
-----------------------------------------------------------------------------
(* The inductive invariant behind LockedOnlyIfKnown. *)

\* What every pass that desires it opens for deletion.
Removable(service) ==
  IF service = "keycloak" THEN {}
  ELSE {"sg-backup", "copy-job", "recovery-creds", "recovery-store", "repo-password", "schedule",
        "tls-observer", "init-observer", "init-job"} \cup When(service = "cnpg", {"luks-key-0"})

\* What a step waited for before it desired a resource is still there when the
\* resource is, so the step does not forget it.
Built(s) ==
  LET x == s.spec.service
      Behind(r, needed, there) == r \in s.exists => needed \subseteq there
  IN /\ x \in {"forgejo", "keycloak", "nextcloud"} => Behind("release", {"credentials"}, s.exists)
     /\ x = "nextcloud" => Behind("release", {"pg"}, s.exists)
     /\ x = "minio" => Behind("sli-bucket", {"service-observer"}, s.seen)
     /\ x = "mariadb" => Behind("proxysql", {"server-cert"}, s.exists)
     /\ s.spec.restore =>
          /\ x = "keycloak" => Behind("credentials", {"restore-creds"}, s.seen)
          /\ x = "cnpg" => Behind("release", {"recovery-creds"}, s.seen)
     /\ x = "keycloak" /\ s.exists \cap {"copy-job", "restore-creds"} # {} => s.spec.restore
     /\ x = "stackgres" /\ s.exists \cap {"luks-key-0", "luks-key-1"} # {} => s.spec.encrypted

\* Nothing else can be deleted but ProxySQL; and as long as that cannot be, the
\* status remembers the number of instances it is for.
RemovableInv ==
  /\ open \subseteq Removable(spec.service) \cup {"proxysql"}
  /\ Existing \cap Removable(spec.service) \subseteq open
ProxyInv == spec.service = "mariadb" /\ "proxysql" \in Existing \ open => status.instances > 1

LockInv ==
  /\ Built(Observed) /\ RemovableInv /\ ProxyInv
  /\ pass # None => pass.input.spec.restore = spec.restore
=============================================================================
