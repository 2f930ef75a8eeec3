---------------------------- MODULE Maintenance ----------------------------
(***************************************************************************)
(* The maintenance of an instance that runs from a Helm chart.  A weekly   *)
(* CronJob, and a Job when the instance is created, wait for the running   *)
(* backups, move the claim to the latest composition revision and patch    *)
(* the image tag of the Release.  The hotfixer moves the claim as well,    *)
(* whenever a human runs it.                                               *)
(*                                                                         *)
(* Meanwhile the user edits the claim and the composition function runs    *)
(* pass after pass.  A pass answers with the image tag it found in the     *)
(* Release it was given, so it writes to what the jobs patch.              *)
(*                                                                         *)
(* The claim is updated with its resourceVersion, the Release is patched   *)
(* without.  Revisions and versions are numbers, 0 is "not set": no pinned *)
(* tag, no revision selector, no Release.                                  *)
(***************************************************************************)
EXTENDS Naturals

CONSTANTS
  MaxRevision,   \* bound: composition revisions
  MaxVersion,    \* bound: versions of the service, all patches of one minor
  Retries,       \* bound: how often Kubernetes starts a failed job again
  MirrorTag,     \* the tag of the image mirror: the newest patch when it was set up
  Settings,      \* bound: the settings the user chooses from
  Starts         \* bound: configurations, published artefacts and what may happen

\* How many edits, failing attempts, backups, hotfixes there are, and how many
\* patches while a pass is under way.
Bounded == {"edits", "faults", "backups", "hotfixes", "overlaps"}

\* What the configuration can turn off: RELEASE_MANAGEMENT_ENABLED and the
\* switches of the maintenance config.
Switches == {"management", "release", "service"}

\* The image tag in the values of the chart: none for MariaDB, Keycloak and
\* Nextcloud, the version of the claim for Forgejo and Redis, the one of the
\* mirror for a Redis whose images are mirrored.
TagSources == {"none", "claim", "mirror"}

ASSUME MaintenanceAssumption ==
  /\ MaxRevision \in Nat \ {0} /\ MaxVersion \in Nat \ {0}
  /\ Retries \in Nat /\ MirrorTag \in 1..MaxVersion
  /\ Settings \subseteq [version: 1..MaxVersion, pin: 0..MaxVersion,
                         frozen: BOOLEAN, auto: BOOLEAN]
  /\ Starts \subseteq [claim: Settings, disabled: SUBSET Switches, source: TagSources,
                       newest: 1..MaxRevision, aged: 0..MaxRevision,
                       latest: 1..MaxVersion, budget: [Bounded -> Nat]]

VARIABLES
  claim,      \* version, pinned tag, disableAppcatRelease, label autoUpdate
  selector,   \* the revision the claim selects
  disabled,   \* what the configuration of the component turns off
  source,     \* where the image tag in the values of the chart is from
  newest,     \* the newest composition revision
  aged,       \* the newest one that is older than the minimum age, 0 for none
  latest,     \* the newest tag in the registry
  tag,        \* image.tag of the Release
  backup,     \* the backup of the instance
  jobs,       \* the maintenance runs
  cronEnv,    \* the environment in the template of the CronJob
  initial,    \* status.initialMaintenance
  ready,      \* the last answer called the composite ready
  pass,       \* what the composition function was given
  budget      \* what is left of the bounds

vars == <<claim, selector, disabled, source, newest, aged, latest, tag, backup, jobs, cronEnv,
          initial, ready, pass, budget>>
config == <<disabled, source>>
world == <<config, newest, aged, latest, backup>>
object == <<claim, selector>>
instance == <<tag, cronEnv, initial, ready, pass>>

Versions == 1..MaxVersion
Revisions == 1..MaxRevision
Env == [pin: 0..MaxVersion, frozen: BOOLEAN]
NoEnv == [pin |-> 0, frozen |-> FALSE]

NoClaim == [version |-> 0, pin |-> 0, frozen |-> FALSE, auto |-> FALSE]

Runs == {"initial", "cron", "hotfix"}
Over == {"absent", "complete", "failed"}
Steps == Over \cup {"waiting", "revision", "claim", "update", "registry", "release", "patch"}
\* A run: what it was started with and what it has read so far.  "fresh" says
\* that the claim was not written since, its resourceVersion is the same.
Run == [pc: Steps, env: Env, left: 0..Retries, revision: 0..MaxRevision,
        claim: Settings \cup {NoClaim}, selector: 0..MaxRevision, fresh: BOOLEAN,
        known: 0..MaxVersion, tag: 0..MaxVersion]
\* A backup older than 24 hours is "stuck", a "leftover" is labelled as the
\* former pre-maintenance backups were.
Backups == {"none", "running", "stuck", "leftover"}
\* The initial run was never triggered, triggered in the last 30 minutes, or before.
Initial == {"never", "recent", "past"}
Idle == [pc |-> "absent", env |-> NoEnv, left |-> 0, revision |-> 0, claim |-> NoClaim,
         selector |-> 0, fresh |-> FALSE, known |-> 0, tag |-> 0]
Snapshot == [running: BOOLEAN, claim: Settings \cup {NoClaim}, tag: 0..MaxVersion, initial: Initial,
             complete: BOOLEAN]
NoPass == [running |-> FALSE, claim |-> NoClaim, tag |-> 0, initial |-> "never",
           complete |-> FALSE]

Spend(what) == /\ budget[what] > 0
               /\ budget' = [budget EXCEPT ![what] = @ - 1]
Larger(a, b) == IF a >= b THEN a ELSE b
At(r, step) == jobs[r].pc = step
Set(r, run) == jobs' = [jobs EXCEPT ![r] = run]
\* A run goes on without what it has read.
Forget(run, step) ==
  IF step \in Over THEN [Idle EXCEPT !.pc = step]
  ELSE [Idle EXCEPT !.pc = step, !.env = run.env, !.left = run.left]
Goto(r, step) == Set(r, Forget(jobs[r], step))
-----------------------------------------------------------------------------
(* The steps of a run. *)

Enabled == "management" \notin disabled
SkipsReleases(run) == run.env.frozen \/ "release" \in disabled
SkipsService(run) == run.env.pin # 0 \/ "service" \in disabled

\* Nothing to do, no need to wait for backups either.
FirstStep(env) ==
  IF (env.frozen \/ "release" \in disabled) /\ (env.pin # 0 \/ "service" \in disabled)
  THEN "complete" ELSE "waiting"
AfterRelease(run) == IF SkipsService(run) THEN "complete" ELSE "registry"
\* An empty revision keeps the composite on the default policy.
AfterBackups(run) ==
  IF SkipsReleases(run) THEN AfterRelease(run)
  ELSE IF Enabled THEN "revision" ELSE "claim"

NewRun(env, left) == Forget([env |-> env, left |-> left], FirstStep(env))

\* A pod failed; Kubernetes starts another one with the same environment.  The
\* hotfixer ends with the first error.
Failed(r) ==
  IF jobs[r].left > 0 THEN NewRun(jobs[r].env, jobs[r].left - 1)
  ELSE Forget(jobs[r], "failed")

\* The registry, the API server or the pod lets the attempt down.
AttemptFails(r) ==
  /\ jobs[r].pc \notin Over
  /\ Spend("faults") /\ Set(r, Failed(r))
  /\ UNCHANGED <<object, world, instance>>

\* Mutant: a backup that never ends keeps the maintenance from running.
InProgress_Stuck(b) == b \in {"running", "stuck"}
InProgress(b) == b = "running"

\* Leftovers are removed first.
WaitForRunningBackups(r) ==
  /\ At(r, "waiting") /\ ~InProgress(backup)
  /\ backup' = IF backup = "leftover" THEN "none" ELSE backup
  /\ Goto(r, AfterBackups(jobs[r]))
  /\ UNCHANGED <<object, config, newest, aged, latest, instance, budget>>

\* Six hours later.
WaitTimesOut(r) ==
  /\ At(r, "waiting") /\ InProgress(backup)
  /\ Set(r, Failed(r))
  /\ UNCHANGED <<object, world, instance, budget>>

\* The hotfixer asks for revisions of any age.  If none is old enough the
\* newest will do.
GetLatestRevision(r) ==
  /\ At(r, "revision")
  /\ Set(r, [jobs[r] EXCEPT !.pc = "claim",
               !.revision = IF r = "hotfix" \/ aged = 0 THEN newest ELSE aged])
  /\ UNCHANGED <<object, world, instance, budget>>

\* Mutant: a revision that is not higher is taken as well.
ShouldSkipRevisionUpdate_Equal(current, target) == current # 0 /\ target = current
ShouldSkipRevisionUpdate(current, target) == current # 0 /\ target <= current

EndOfRelease(r) == IF r = "hotfix" THEN "complete" ELSE AfterRelease(jobs[r])

\* Read the claim and decide what to change.
GetClaim(r) ==
  /\ At(r, "claim")
  /\ LET auto == ~Enabled \/ claim.auto
         skip == ~auto /\ ShouldSkipRevisionUpdate(selector, jobs[r].revision)
     IN Set(r, IF skip THEN Forget(jobs[r], EndOfRelease(r))
               ELSE [jobs[r] EXCEPT !.pc = "update", !.fresh = TRUE, !.claim = claim,
                       !.selector = IF auto THEN 0 ELSE jobs[r].revision])
  /\ UNCHANGED <<object, world, instance, budget>>

\* After a write of the claim no copy is fresh.
Outdated(runs) == [r \in Runs |-> [runs[r] EXCEPT !.fresh = FALSE]]

\* The update carries the resourceVersion of the object that was read.
Conflicts(run) == ~run.fresh

\* The whole object is written back.  An update that changes nothing makes other
\* copies stale here, which adds conflicts the API server would not report.
UpdateClaim(r) ==
  /\ At(r, "update")
  /\ IF Conflicts(jobs[r])
     THEN Set(r, Failed(r)) /\ UNCHANGED object
     ELSE /\ claim' = jobs[r].claim /\ selector' = jobs[r].selector
          /\ jobs' = Outdated([jobs EXCEPT ![r] = Forget(@, EndOfRelease(r))])
  /\ UNCHANGED <<world, instance, budget>>

GetVersions(r) ==
  /\ At(r, "registry")
  /\ Set(r, [jobs[r] EXCEPT !.pc = "release", !.known = latest])
  /\ UNCHANGED <<object, world, instance, budget>>

SemVerPatchesOnly(known, current) == Larger(known, current)

GetRelease(r) ==
  /\ At(r, "release")
  /\ LET target == SemVerPatchesOnly(jobs[r].known, tag)
     IN Set(r, IF tag = 0 THEN Failed(r)
               ELSE IF tag = target THEN Forget(jobs[r], "complete")
               ELSE [jobs[r] EXCEPT !.pc = "patch", !.known = target, !.tag = tag])
  /\ UNCHANGED <<object, world, instance, budget>>

\* A JSON patch that replaces the tag, without a test of the old one.
PatchRelease(r) ==
  /\ At(r, "patch")
  /\ IF pass.running THEN Spend("overlaps") ELSE UNCHANGED budget
  /\ tag' = jobs[r].known /\ Goto(r, "complete")
  /\ UNCHANGED <<object, world, cronEnv, initial, ready, pass>>

RunSteps(r) ==
  \/ WaitForRunningBackups(r) \/ WaitTimesOut(r) \/ GetLatestRevision(r) \/ GetClaim(r)
  \/ UpdateClaim(r) \/ GetVersions(r) \/ GetRelease(r) \/ PatchRelease(r)
-----------------------------------------------------------------------------
(* What starts a run. *)

\* Once a week; what is still under way by then is not modelled.
CronStarts ==
  /\ cronEnv # {} /\ jobs["cron"].pc \in Over
  /\ \E env \in cronEnv : Set("cron", NewRun(env, Retries))
  /\ UNCHANGED <<object, world, instance, budget>>

HotfixStarts ==
  /\ jobs["hotfix"].pc \in Over /\ Spend("hotfixes")
  /\ Set("hotfix", [Idle EXCEPT !.pc = IF Enabled THEN "revision" ELSE "claim"])
  /\ UNCHANGED <<object, world, instance>>
-----------------------------------------------------------------------------
(* The composition function. *)

PassStarts ==
  /\ ~pass.running
  /\ pass' = [running |-> TRUE, claim |-> claim, tag |-> tag, initial |-> initial,
              complete |-> At("initial", "complete")]
  /\ UNCHANGED <<object, world, tag, jobs, cronEnv, initial, ready, budget>>

EnvOf(c) == [pin |-> c.pin, frozen |-> c.frozen]

DesiredTag(c) == [none |-> 0, claim |-> c.version, mirror |-> MirrorTag][source]

\* Mutant: the version of the claim.
SetReleaseVersion_Claim(c, observed) == IF c.pin # 0 THEN c.pin ELSE c.version
SetReleaseVersion(c, observed) ==
  IF c.pin # 0 THEN c.pin
  ELSE IF observed # 0 /\ DesiredTag(c) >= observed THEN DesiredTag(c)
  ELSE Larger(observed, c.version)

\* The job is desired for 30 minutes after it was created.
KeepsInitialJob(s) == s.initial # "past"

\* Mutant: the job is ready as soon as it was created.
InitialJobReady_Created(s) == s.initial = "recent"
\* The CEL query: the condition Complete is true.
InitialJobReady(s) == s.initial = "recent" /\ s.complete

\* The template of a job that exists cannot be changed; a job that is not
\* desired is deleted, also while it runs.
InitialJob(s) ==
  IF ~KeepsInitialJob(s) THEN Idle
  ELSE IF At("initial", "absent") THEN NewRun(EnvOf(s.claim), Retries)
  ELSE jobs["initial"]

PassEnds ==
  /\ pass.running
  /\ tag' = SetReleaseVersion(pass.claim, pass.tag)
  /\ Set("initial", InitialJob(pass))
  /\ cronEnv' = {EnvOf(pass.claim)}
  /\ initial' = IF pass.initial = "never" THEN "recent" ELSE initial
  /\ ready' = (KeepsInitialJob(pass) => InitialJobReady(pass))
  /\ pass' = NoPass
  /\ UNCHANGED <<object, world, budget>>
-----------------------------------------------------------------------------
(* Everything else. *)

\* The user pins or releases the tag, asks for another version, turns releases
\* or the label on or off.
EditClaim ==
  /\ Spend("edits")
  /\ claim' \in Settings \ {claim}
  /\ jobs' = Outdated(jobs)
  /\ UNCHANGED <<selector, world, instance>>

PublishRevision ==
  /\ newest < MaxRevision /\ newest' = newest + 1
  /\ UNCHANGED <<object, config, aged, latest, backup, jobs, instance, budget>>

RevisionAges ==
  /\ aged < newest /\ aged' = aged + 1
  /\ UNCHANGED <<object, config, newest, latest, backup, jobs, instance, budget>>

PublishVersion ==
  /\ latest < MaxVersion /\ latest' = latest + 1
  /\ UNCHANGED <<object, config, newest, aged, backup, jobs, instance, budget>>

BackupStarts ==
  /\ backup = "none" /\ Spend("backups") /\ backup' = "running"
  /\ UNCHANGED <<object, config, newest, aged, latest, jobs, instance>>

BackupEnds ==
  /\ backup = "running" /\ backup' \in {"none", "stuck"}
  /\ UNCHANGED <<object, config, newest, aged, latest, jobs, instance, budget>>

HalfAnHourPasses ==
  /\ initial = "recent" /\ initial' = "past"
  /\ UNCHANGED <<object, world, tag, jobs, cronEnv, ready, pass, budget>>

Init ==
  /\ \E s \in Starts : /\ claim = s.claim /\ disabled = s.disabled
                       /\ source = s.source /\ budget = s.budget
                       /\ newest = s.newest /\ aged = s.aged /\ latest = s.latest
  /\ selector = 0 /\ tag = 0 /\ backup = "leftover"
  /\ jobs = [r \in Runs |-> Idle] /\ cronEnv = {} /\ initial = "never"
  /\ ready = FALSE /\ pass = NoPass

Next ==
  \/ \E r \in Runs : RunSteps(r) \/ AttemptFails(r)
  \/ CronStarts \/ HotfixStarts \/ PassStarts \/ PassEnds
  \/ EditClaim \/ PublishRevision \/ RevisionAges \/ PublishVersion
  \/ BackupStarts \/ BackupEnds \/ HalfAnHourPasses

Spec == Init /\ [][Next]_vars

\* Jobs run, passes follow each other, backups end and revisions get old.  A
\* patch takes an instant, so it falls between two passes again and again.
FairSpec ==
  /\ Spec
  /\ \A r \in {"initial", "cron"} : WF_vars(RunSteps(r)) /\ SF_vars(PatchRelease(r))
  /\ WF_vars(CronStarts) /\ WF_vars(PassStarts) /\ WF_vars(PassEnds)
  /\ WF_vars(RevisionAges) /\ WF_vars(BackupEnds) /\ WF_vars(HalfAnHourPasses)
-----------------------------------------------------------------------------
(* Properties. *)

TypeOK ==
  /\ claim \in Settings /\ selector \in 0..MaxRevision
  /\ disabled \subseteq Switches /\ source \in TagSources
  /\ newest \in Revisions /\ aged \in 0..MaxRevision
  /\ latest \in Versions /\ tag \in 0..MaxVersion /\ backup \in Backups
  /\ jobs \in [Runs -> Run] /\ cronEnv \in SUBSET Env /\ initial \in Initial
  /\ ready \in BOOLEAN /\ pass \in Snapshot /\ budget \in [Bounded -> Nat]

\* A maintenance run and the hotfixer change nothing of the claim but the
\* revision, and never to an older one, although each decides on what it read
\* some steps ago and wants a different revision.
OnlyRaisesTheRevision ==
  [][/\ budget'.edits = budget.edits => claim' = claim
     /\ selector # 0 /\ selector' # 0 => selector' >= selector]_vars

\* The image tag is lowered by a pinned tag, or by one writer that read the
\* Release before another one wrote it: a pass that was under way while a job
\* patched, or a job that patches after a pass or another job did.
LoweredByPinOrStaleRead ==
  [][tag' < tag =>
       \/ pass.running /\ ~pass'.running /\ (pass.claim.pin # 0 \/ pass.tag # tag)
       \/ \E r \in Runs : At(r, "patch") /\ jobs'[r] # jobs[r] /\ jobs[r].tag # tag]_vars

\* Not true: see the disjuncts of LoweredByPinOrStaleRead.
LoweredOnlyByPin ==
  [][tag' < tag => pass.running /\ ~pass'.running /\ pass.claim.pin # 0]_vars

\* Nobody builds on an instance whose first maintenance may still restart it,
\* until half an hour after that was triggered.
ReadyMeansMaintained == ready => At("initial", "complete") \/ initial = "past"

\* Not true: after half an hour the job is dropped, whatever it is doing.
ReadyOnlyIfMaintained == ready => At("initial", "complete")

\* The pinned tag or the newest one, the newest revision if releases are
\* managed, none for an instance that updates itself.
Released ==
  /\ IF claim.pin # 0 THEN tag = claim.pin
     ELSE "service" \in disabled \/ (tag >= latest /\ tag >= claim.version)
  /\ \/ claim.frozen \/ "release" \in disabled
     \/ selector = IF ~Enabled \/ claim.auto THEN 0 ELSE newest

\* Whatever was edited, published or went wrong, the instance gets the version
\* and the revision it should have and keeps them.
EventuallyReleased == <>[]Released
-----------------------------------------------------------------------------
(* The inductive invariant behind OnlyRaisesTheRevision: a copy that will not  *)
(* conflict has the settings of the claim and a higher revision.               *)

FreshInv ==
  \A r \in Runs :
    At(r, "update") /\ jobs[r].fresh =>
      /\ jobs[r].claim = claim
      /\ selector # 0 /\ jobs[r].selector # 0 => jobs[r].selector > selector

IInv == TypeOK /\ FreshInv

(* Behind ReadyMeansMaintained: what a pass was told still holds.  Behind      *)
(* LoweredByPinOrStaleRead: no job is about to patch the tag to a lower one.   *)

PassInv ==
  pass.running => /\ pass.initial = "past" => initial = "past"
                  /\ pass.complete => At("initial", "complete")

PatchInv == \A r \in Runs : At(r, "patch") => jobs[r].known >= jobs[r].tag

ReleaseInv == ReadyMeansMaintained /\ PassInv /\ PatchInv
=============================================================================
