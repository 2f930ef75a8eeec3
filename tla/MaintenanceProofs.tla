------------------------- MODULE MaintenanceProofs -------------------------
(* Machine-checked proofs about Maintenance. *)
EXTENDS Maintenance, TLAPS

USE DEF Runs, Over, Steps

-----------------------------------------------------------------------------
(* What runs are made of. *)

\* A run that forgets what it has read is a run.
LEMMA ForgetType ==
  ASSUME NEW run, NEW step \in Steps, run.env \in Env, run.left \in 0..Retries
  PROVE  Forget(run, step) \in Run /\ Forget(run, step).fresh = FALSE
         /\ Forget(run, step).pc = step
  <1>1. CASE step \in Over
    <2>1. Forget(run, step) =
            [pc |-> step, env |-> NoEnv, left |-> 0, revision |-> 0, claim |-> NoClaim,
             selector |-> 0, fresh |-> FALSE, known |-> 0, tag |-> 0]
      BY <1>1 DEF Forget, Idle
    <2> QED
      BY <2>1, MaintenanceAssumption DEF Run, Env, NoEnv
  <1>2. CASE step \notin Over
    <2>1. Forget(run, step) =
            [pc |-> step, env |-> run.env, left |-> run.left, revision |-> 0,
             claim |-> NoClaim, selector |-> 0, fresh |-> FALSE, known |-> 0, tag |-> 0]
      BY <1>2 DEF Forget, Idle
    <2> QED
      BY <2>1, MaintenanceAssumption DEF Run
  <1> QED
    BY <1>1, <1>2

\* Kubernetes starts runs with an environment it was given.
LEMMA NewRunType ==
  ASSUME NEW env \in Env, NEW left \in 0..Retries
  PROVE  NewRun(env, left) \in Run /\ NewRun(env, left).fresh = FALSE
         /\ NewRun(env, left).pc \in {"complete", "waiting"}
  BY ForgetType DEF NewRun, FirstStep

\* So it does after a failure.
LEMMA FailedType ==
  ASSUME TypeOK, NEW r \in Runs
  PROVE  Failed(r) \in Run /\ Failed(r).fresh = FALSE
  <1>1. jobs[r] \in Run
    BY DEF TypeOK
  <1>2. CASE jobs[r].left > 0
    <2>1. jobs[r].left - 1 \in 0..Retries
      BY <1>1, <1>2, MaintenanceAssumption DEF Run
    <2> QED
      BY <1>1, <1>2, <2>1, NewRunType DEF Failed, Run
  <1>3. CASE ~(jobs[r].left > 0)
    BY <1>1, <1>3, ForgetType DEF Failed, Run
  <1> QED
    BY <1>2, <1>3

\* A step taken without reading anything.
LEMMA GotoType ==
  ASSUME TypeOK, NEW r \in Runs, NEW step \in Steps
  PROVE  Forget(jobs[r], step) \in Run /\ Forget(jobs[r], step).fresh = FALSE
         /\ Forget(jobs[r], step).pc = step
  <1>1. jobs[r] \in Run
    BY DEF TypeOK
  <1>2. jobs[r].env \in Env /\ jobs[r].left \in 0..Retries
    BY <1>1 DEF Run
  <1> QED
    BY <1>2, ForgetType

\* A run that is replaced by one that holds no fresh copy of the claim changes
\* nothing of what the others hold.
LEMMA SetKeeps ==
  ASSUME IInv, NEW r \in Runs, NEW run \in Run, run.fresh = FALSE, Set(r, run),
         UNCHANGED object
  PROVE  jobs' \in [Runs -> Run] /\ FreshInv'
  BY DEF IInv, TypeOK, FreshInv, Set, At, object

\* Nobody holds a fresh copy of a claim that has just been written.
LEMMA OutdatedKeeps ==
  ASSUME NEW runs \in [Runs -> Run], jobs' = Outdated(runs)
  PROVE  jobs' \in [Runs -> Run] /\ FreshInv'
  <1>1. ASSUME NEW r \in Runs
        PROVE  jobs'[r] \in Run /\ jobs'[r].fresh = FALSE
    <2>1. runs[r] \in Run
      OBVIOUS
    <2>2. jobs'[r] = [runs[r] EXCEPT !.fresh = FALSE]
      BY DEF Outdated
    <2> QED
      BY <2>1, <2>2 DEF Run
  <1>2. jobs' = [r \in Runs |-> jobs'[r]]
    BY DEF Outdated
  <1> QED
    BY <1>1, <1>2 DEF FreshInv, At

\* The budget only shrinks.
LEMMA SpendType ==
  ASSUME TypeOK, NEW what \in Bounded, Spend(what)
  PROVE  /\ budget' \in [Bounded -> Nat]
         /\ budget'[what] # budget[what]
  BY DEF TypeOK, Spend

-----------------------------------------------------------------------------
(* The steps of a run. *)

\* The claim moves as OnlyRaisesTheRevision says.
Raises ==
  /\ budget'.edits = budget.edits => claim' = claim
  /\ selector # 0 /\ selector' # 0 => selector' >= selector

\* Steps that leave the claim and everything else but the runs alone.
LEMMA QuietStep ==
  ASSUME IInv, NEW r \in Runs, NEW run \in Run, run.fresh = FALSE, Set(r, run),
         UNCHANGED <<object, world, instance>>, budget' \in [Bounded -> Nat]
  PROVE  IInv' /\ Raises
  <1>1. jobs' \in [Runs -> Run] /\ FreshInv'
    BY SetKeeps
  <1> QED
    BY <1>1 DEF IInv, TypeOK, Raises, object, world, config, instance, Revisions

\* The names of the steps.
LEMMA StepNames ==
  ASSUME TypeOK, NEW r \in Runs
  PROVE  /\ AfterRelease(jobs[r]) \in Steps /\ AfterBackups(jobs[r]) \in Steps
         /\ EndOfRelease(r) \in Steps
  BY DEF AfterRelease, AfterBackups, EndOfRelease

\* An attempt fails, or waits for too long.
LEMMA Fails ==
  ASSUME IInv, NEW r \in Runs, AttemptFails(r) \/ WaitTimesOut(r)
  PROVE  IInv' /\ Raises
  <1>1. Failed(r) \in Run /\ Failed(r).fresh = FALSE /\ Set(r, Failed(r))
    BY FailedType DEF IInv, AttemptFails, WaitTimesOut
  <1>2. budget' \in [Bounded -> Nat]
    BY SpendType DEF IInv, AttemptFails, WaitTimesOut, Bounded, TypeOK
  <1>3. UNCHANGED <<object, world, instance>>
    BY DEF AttemptFails, WaitTimesOut
  <1> QED
    BY <1>1, <1>2, <1>3, QuietStep

\* The wait for backups.
LEMMA Waits ==
  ASSUME IInv, NEW r \in Runs, WaitForRunningBackups(r)
  PROVE  IInv' /\ Raises
  <1>1. jobs' \in [Runs -> Run] /\ FreshInv'
    BY GotoType, StepNames, SetKeeps DEF IInv, WaitForRunningBackups, Goto
  <1> QED
    BY <1>1 DEF IInv, TypeOK, Raises, WaitForRunningBackups, object, config,
                 instance, Backups

\* The list of revisions.
LEMMA Lists ==
  ASSUME IInv, NEW r \in Runs, GetLatestRevision(r)
  PROVE  IInv' /\ Raises
  <1> DEFINE revision == IF r = "hotfix" \/ aged = 0 THEN newest ELSE aged
             run == [jobs[r] EXCEPT !.pc = "claim", !.revision = revision]
  <1>1. jobs[r] \in Run /\ revision \in 0..MaxRevision
    BY DEF IInv, TypeOK, Revisions
  <1>2. Set(r, run) /\ run \in Run /\ run.pc = "claim"
    BY <1>1 DEF GetLatestRevision, Run
  <1> HIDE DEF run
  <1>3. jobs' \in [Runs -> Run] /\ FreshInv'
    BY <1>2 DEF IInv, TypeOK, FreshInv, Set, At, GetLatestRevision, object
  <1> QED
    BY <1>3 DEF IInv, TypeOK, Raises, GetLatestRevision, object, world, config, instance

\* The claim is read: the copy is the claim, with a revision above its own.
LEMMA Gets ==
  ASSUME IInv, NEW r \in Runs, GetClaim(r)
  PROVE  IInv' /\ Raises
  <1> DEFINE auto == ~Enabled \/ claim.auto
             skip == ~auto /\ ShouldSkipRevisionUpdate(selector, jobs[r].revision)
             target == IF auto THEN 0 ELSE jobs[r].revision
             run == [jobs[r] EXCEPT !.pc = "update", !.fresh = TRUE, !.claim = claim,
                                    !.selector = target]
  <1>1. UNCHANGED <<object, world, instance, budget>>
    BY DEF GetClaim
  <1>2. CASE skip
    <2>1. Set(r, Forget(jobs[r], EndOfRelease(r)))
      BY <1>2 DEF GetClaim
    <2> QED
      BY <1>1, <2>1, GotoType, StepNames, QuietStep DEF IInv, TypeOK
  <1>3. CASE ~skip
    <2>1. jobs[r] \in Run /\ jobs[r].revision \in 0..MaxRevision /\ claim \in Settings
          /\ selector \in 0..MaxRevision
      BY DEF IInv, TypeOK, Run
    <2>2. target \in 0..MaxRevision /\ (selector # 0 /\ target # 0 => target > selector)
      BY <1>3, <2>1, MaintenanceAssumption DEF ShouldSkipRevisionUpdate
    <2>3. Set(r, run)
      BY <1>3 DEF GetClaim
    <2> HIDE DEF target
    <2>4. run \in Run /\ run.claim = claim /\ run.selector = target
      BY <2>1, <2>2 DEF Run
    <2> HIDE DEF run
    <2>5. jobs' \in [Runs -> Run] /\ FreshInv'
      BY <1>1, <2>2, <2>3, <2>4 DEF IInv, TypeOK, FreshInv, Set, At, object
    <2> QED
      BY <1>1, <2>5 DEF IInv, TypeOK, Raises, object, world, config, instance
  <1> QED
    BY <1>2, <1>3

\* The claim is written: a stale copy is refused, a fresh one raises the revision.
LEMMA Updates ==
  ASSUME IInv, NEW r \in Runs, UpdateClaim(r)
  PROVE  IInv' /\ Raises
  <1>1. UNCHANGED <<world, instance, budget>>
    BY DEF UpdateClaim
  <1>2. CASE Conflicts(jobs[r])
    <2>1. Set(r, Failed(r)) /\ UNCHANGED object
      BY <1>2 DEF UpdateClaim
    <2> QED
      BY <1>1, <2>1, FailedType, QuietStep DEF IInv, TypeOK
  <1>3. CASE ~Conflicts(jobs[r])
    <2> DEFINE run == Forget(jobs[r], EndOfRelease(r))
               runs == [jobs EXCEPT ![r] = run]
    <2>1. /\ claim' = jobs[r].claim /\ selector' = jobs[r].selector
          /\ jobs' = Outdated(runs)
      BY <1>3 DEF UpdateClaim
    <2>2. /\ jobs[r].claim = claim
          /\ selector # 0 /\ jobs[r].selector # 0 => jobs[r].selector > selector
      BY <1>3 DEF UpdateClaim, Conflicts, IInv, FreshInv
    <2>3. jobs[r].selector \in 0..MaxRevision /\ selector \in 0..MaxRevision
      BY DEF IInv, TypeOK, Run
    <2>4. run \in Run
      BY GotoType, StepNames DEF IInv
    <2> HIDE DEF run
    <2>5. runs \in [Runs -> Run]
      BY <2>4 DEF IInv, TypeOK
    <2> HIDE DEF runs
    <2>6. jobs' \in [Runs -> Run] /\ FreshInv'
      BY <2>1, <2>5, OutdatedKeeps
    <2>7. Raises
      BY <2>1, <2>2, <2>3, MaintenanceAssumption DEF Raises
    <2> QED
      BY <1>1, <2>1, <2>2, <2>3, <2>6, <2>7 DEF IInv, TypeOK, world, config, instance
  <1> QED
    BY <1>2, <1>3

\* The registry and the Release are read.
LEMMA Reads ==
  ASSUME IInv, NEW r \in Runs, GetVersions(r) \/ GetRelease(r)
  PROVE  IInv' /\ Raises
  <1>1. jobs[r] \in Run /\ latest \in 0..MaxVersion /\ tag \in 0..MaxVersion
    BY MaintenanceAssumption DEF IInv, TypeOK, Versions
  <1>2. UNCHANGED <<object, world, instance, budget>>
    BY DEF GetVersions, GetRelease
  <1>3. CASE GetVersions(r)
    <2> DEFINE run == [jobs[r] EXCEPT !.pc = "release", !.known = latest]
    <2>1. Set(r, run) /\ run \in Run /\ run.pc = "release"
      BY <1>1, <1>3 DEF GetVersions, Run
    <2> HIDE DEF run
    <2>2. jobs' \in [Runs -> Run] /\ FreshInv'
      BY <1>2, <2>1 DEF IInv, TypeOK, FreshInv, Set, At, object
    <2> QED
      BY <1>2, <2>2 DEF IInv, TypeOK, Raises, object, world, config, instance
  <1>4. CASE GetRelease(r)
    <2> DEFINE target == SemVerPatchesOnly(jobs[r].known, tag)
               run == [jobs[r] EXCEPT !.pc = "patch", !.known = target, !.tag = tag]
    <2>1. jobs[r].known \in 0..MaxVersion
      BY <1>1 DEF Run
    <2>2. target \in 0..MaxVersion
      BY <1>1, <2>1 DEF SemVerPatchesOnly, Larger
    <2>3. CASE tag = 0
      BY <1>2, <1>4, <2>3, FailedType, QuietStep DEF GetRelease, IInv, TypeOK
    <2>4. CASE tag # 0 /\ tag = target
      <3>1. Set(r, Forget(jobs[r], "complete"))
        BY <1>4, <2>4 DEF GetRelease
      <3> QED
        BY <1>2, <3>1, GotoType, QuietStep DEF IInv, TypeOK
    <2>5. CASE tag # 0 /\ tag # target
      <3>1. Set(r, run)
        BY <1>4, <2>5 DEF GetRelease
      <3> HIDE DEF target
      <3>2. run \in Run /\ run.pc = "patch"
        BY <1>1, <2>2 DEF Run
      <3> HIDE DEF run
      <3>3. jobs' \in [Runs -> Run] /\ FreshInv'
        BY <1>2, <3>1, <3>2 DEF IInv, TypeOK, FreshInv, Set, At, object
      <3> QED
        BY <1>2, <3>3 DEF IInv, TypeOK, Raises, object, world, config, instance
    <2> QED
      BY <2>3, <2>4, <2>5
  <1> QED
    BY <1>3, <1>4

\* The Release is patched.
LEMMA Patches ==
  ASSUME IInv, NEW r \in Runs, PatchRelease(r)
  PROVE  IInv' /\ Raises
  <1>1. jobs' \in [Runs -> Run] /\ FreshInv'
    BY GotoType, SetKeeps DEF IInv, PatchRelease, Goto
  <1>2. budget' \in [Bounded -> Nat]
    BY SpendType DEF IInv, PatchRelease, Bounded, TypeOK
  <1>3. jobs[r] \in Run
    BY DEF IInv, TypeOK
  <1>4. tag' \in 0..MaxVersion
    BY <1>3 DEF PatchRelease, Run
  <1> QED
    BY <1>1, <1>2, <1>4 DEF IInv, TypeOK, Raises, PatchRelease, object, world, config

\* Any step of a run.
LEMMA RunStep ==
  ASSUME IInv, NEW r \in Runs, RunSteps(r) \/ AttemptFails(r)
  PROVE  IInv' /\ Raises
  BY Fails, Waits, Lists, Gets, Updates, Reads, Patches DEF RunSteps
-----------------------------------------------------------------------------
(* Everything else. *)

\* The CronJob or a human starts a run.
LEMMA Starting ==
  ASSUME IInv, CronStarts \/ HotfixStarts
  PROVE  IInv' /\ Raises
  <1>1. CASE CronStarts
    <2>1. PICK env \in cronEnv : Set("cron", NewRun(env, Retries))
      BY <1>1 DEF CronStarts
    <2>2. env \in Env /\ Retries \in 0..Retries
      BY MaintenanceAssumption DEF IInv, TypeOK
    <2> QED
      BY <1>1, <2>1, <2>2, NewRunType, QuietStep DEF CronStarts, IInv, TypeOK
  <1>2. CASE HotfixStarts
    <2> DEFINE step == IF Enabled THEN "revision" ELSE "claim"
               run == [Idle EXCEPT !.pc = step]
    <2>1. Idle \in Run
      BY MaintenanceAssumption DEF Idle, Run, Env, NoEnv
    <2>2. run \in Run /\ run.fresh = FALSE
      BY <2>1 DEF Run, Idle
    <2>3. Set("hotfix", run) /\ UNCHANGED <<object, world, instance>>
      BY <1>2 DEF HotfixStarts
    <2>4. budget' \in [Bounded -> Nat]
      BY <1>2, SpendType DEF HotfixStarts, IInv, Bounded
    <2> HIDE DEF run
    <2> QED
      BY <2>2, <2>3, <2>4, QuietStep
  <1> QED
    BY <1>1, <1>2

\* What a pass works with.
LEMMA ClaimType ==
  ASSUME NEW c \in Settings \cup {NoClaim}
  PROVE  c.version \in 0..MaxVersion /\ c.pin \in 0..MaxVersion /\ c.frozen \in BOOLEAN
  <1>1. CASE c = NoClaim
    BY <1>1, MaintenanceAssumption DEF NoClaim
  <1>2. CASE c \in Settings
    <2>1. c \in [version: 1..MaxVersion, pin: 0..MaxVersion, frozen: BOOLEAN, auto: BOOLEAN]
      BY <1>2, MaintenanceAssumption
    <2>2. c.version \in 1..MaxVersion /\ c.pin \in 0..MaxVersion /\ c.frozen \in BOOLEAN
      BY <2>1
    <2> QED
      BY <2>2, MaintenanceAssumption
  <1> QED
    BY <1>1, <1>2

\* The tag in the values of the chart is a version.
LEMMA DesiredTagType ==
  ASSUME source \in TagSources, NEW c, c.version \in 0..MaxVersion
  PROVE  DesiredTag(c) \in 0..MaxVersion
  <1>1. DesiredTag(c) \in {0, c.version, MirrorTag}
    BY DEF DesiredTag, TagSources
  <1> QED
    BY <1>1, MaintenanceAssumption

\* A pass of the composition function starts or ends.
LEMMA Passes ==
  ASSUME IInv, PassStarts \/ PassEnds
  PROVE  IInv' /\ Raises
  <1>1. CASE PassStarts
    <2>1. pass' \in Snapshot
      BY <1>1 DEF PassStarts, IInv, TypeOK, Snapshot, At
    <2> QED
      BY <1>1, <2>1 DEF PassStarts, IInv, TypeOK, FreshInv, At, Raises, object, world, config
  <1>2. CASE PassEnds
    <2>1. /\ pass.claim \in Settings \cup {NoClaim} /\ pass.tag \in 0..MaxVersion
      BY DEF IInv, TypeOK, Snapshot
    <2>2. EnvOf(pass.claim) \in Env
      BY <2>1, ClaimType DEF EnvOf, Env
    <2>3. tag' \in 0..MaxVersion
      <3>1. DesiredTag(pass.claim) \in 0..MaxVersion
        BY <2>1, ClaimType, DesiredTagType DEF IInv, TypeOK
      <3> QED
        BY <1>2, <2>1, <3>1, ClaimType DEF PassEnds, SetReleaseVersion, Larger
    <2>4. Idle \in Run /\ Idle.fresh = FALSE
      BY MaintenanceAssumption DEF Idle, Run, Env, NoEnv
    <2>5. Retries \in 0..Retries
      BY MaintenanceAssumption
    <2>6. NewRun(EnvOf(pass.claim), Retries) \in Run
          /\ NewRun(EnvOf(pass.claim), Retries).fresh = FALSE
      BY <2>2, <2>5, NewRunType
    <2>7. UNCHANGED object
      BY <1>2 DEF PassEnds
    <2>8. Set("initial", InitialJob(pass))
      BY <1>2 DEF PassEnds
    <2>9. jobs' \in [Runs -> Run] /\ FreshInv'
      <3>1. CASE InitialJob(pass) = jobs["initial"]
        BY <2>7, <2>8, <3>1 DEF Set, IInv, TypeOK, FreshInv, At, object
      <3>2. CASE InitialJob(pass) # jobs["initial"]
        <4>1. InitialJob(pass) \in Run /\ InitialJob(pass).fresh = FALSE
          BY <2>4, <2>6, <3>2 DEF InitialJob
        <4> QED
          BY <2>7, <2>8, <4>1, SetKeeps
      <3> QED
        BY <3>1, <3>2
    <2>10. pass' \in Snapshot
      BY <1>2, MaintenanceAssumption DEF PassEnds, NoPass, Snapshot, Initial
    <2>11. initial' \in Initial /\ ready' \in BOOLEAN /\ cronEnv' \in SUBSET Env
      BY <1>2, <2>2 DEF PassEnds, IInv, TypeOK, Initial
    <2> QED
      BY <1>2, <2>3, <2>7, <2>9, <2>10, <2>11 DEF PassEnds, IInv, TypeOK, Raises, object, world,
                                                   config
  <1> QED
    BY <1>1, <1>2

\* The user edits the claim: every copy becomes stale.
LEMMA Edits ==
  ASSUME IInv, EditClaim
  PROVE  IInv' /\ Raises
  <1>1. budget' \in [Bounded -> Nat] /\ budget'["edits"] # budget["edits"]
    BY SpendType DEF EditClaim, IInv, Bounded
  <1>2. jobs' \in [Runs -> Run] /\ FreshInv'
    BY OutdatedKeeps DEF EditClaim, IInv, TypeOK
  <1>3. selector' = selector /\ selector \in 0..MaxRevision
    BY DEF EditClaim, IInv, TypeOK
  <1>4. Raises
    BY <1>1, <1>3, MaintenanceAssumption DEF Raises
  <1> QED
    BY <1>1, <1>2, <1>4 DEF EditClaim, IInv, TypeOK, world, config, instance

\* Revisions, versions, backups and the clock.
LEMMA World ==
  ASSUME IInv, PublishRevision \/ RevisionAges \/ PublishVersion \/ BackupStarts
               \/ BackupEnds \/ HalfAnHourPasses
  PROVE  IInv' /\ Raises
  <1>1. UNCHANGED <<object, jobs, config, tag, cronEnv, ready, pass>>
    BY DEF PublishRevision, RevisionAges, PublishVersion, BackupStarts, BackupEnds,
           HalfAnHourPasses, world, config, instance
  <1>2. FreshInv' /\ Raises
    BY <1>1 DEF IInv, TypeOK, FreshInv, At, Raises, object
  <1>3. budget' \in [Bounded -> Nat]
    BY SpendType DEF PublishRevision, RevisionAges, PublishVersion, BackupStarts,
                     BackupEnds, HalfAnHourPasses, IInv, TypeOK, Bounded
  <1>4. backup' \in Backups /\ initial' \in Initial
    BY DEF PublishRevision, RevisionAges, PublishVersion, BackupStarts, BackupEnds,
           HalfAnHourPasses, IInv, TypeOK, Backups, Initial, world, config, instance
  <1>5. newest' \in Revisions
    BY MaintenanceAssumption
       DEF PublishRevision, RevisionAges, PublishVersion, BackupStarts, BackupEnds,
           HalfAnHourPasses, IInv, TypeOK, Revisions, world
  <1>6. aged' \in 0..MaxRevision
    BY MaintenanceAssumption
       DEF PublishRevision, RevisionAges, PublishVersion, BackupStarts, BackupEnds,
           HalfAnHourPasses, IInv, TypeOK, Revisions, world
  <1>7. latest' \in Versions
    BY MaintenanceAssumption
       DEF PublishRevision, RevisionAges, PublishVersion, BackupStarts, BackupEnds,
           HalfAnHourPasses, IInv, TypeOK, Versions, world
  <1> QED
    BY <1>1, <1>2, <1>3, <1>4, <1>5, <1>6, <1>7 DEF IInv, TypeOK, object, config
-----------------------------------------------------------------------------
(* The theorems. *)

\* An instance that is not deployed yet.
LEMMA Initially == Init => IInv
  <1> SUFFICES ASSUME Init PROVE IInv
    OBVIOUS
  <1>1. PICK s \in Starts : /\ claim = s.claim /\ disabled = s.disabled
                            /\ source = s.source /\ budget = s.budget
                            /\ newest = s.newest /\ aged = s.aged /\ latest = s.latest
    BY DEF Init
  <1>2. /\ claim \in Settings /\ disabled \subseteq Switches /\ source \in TagSources
        /\ budget \in [Bounded -> Nat]
        /\ newest \in Revisions /\ aged \in 0..MaxRevision /\ latest \in Versions
    BY <1>1, MaintenanceAssumption DEF Revisions, Versions
  <1>3. Idle \in Run /\ Idle.fresh = FALSE
    BY MaintenanceAssumption DEF Idle, Run, Env, NoEnv
  <1>4. jobs \in [Runs -> Run] /\ FreshInv
    BY <1>3 DEF Init, FreshInv, At
  <1>5. NoPass \in Snapshot
    BY MaintenanceAssumption DEF NoPass, Snapshot, Initial
  <1>6. selector \in 0..MaxRevision /\ tag \in 0..MaxVersion
    BY MaintenanceAssumption DEF Init
  <1>7. /\ backup \in Backups /\ cronEnv \in SUBSET Env /\ initial \in Initial
        /\ ready \in BOOLEAN /\ pass \in Snapshot
    BY <1>5 DEF Init, Backups, Initial
  <1> QED
    BY <1>2, <1>4, <1>6, <1>7 DEF IInv, TypeOK

\* Every step keeps the invariant and moves the claim as it may.
LEMMA Step == IInv /\ [Next]_vars => IInv' /\ [Raises]_vars
  <1> SUFFICES ASSUME IInv, [Next]_vars PROVE IInv' /\ [Raises]_vars
    OBVIOUS
  <1>1. CASE UNCHANGED vars
    BY <1>1 DEF vars, IInv, TypeOK, FreshInv, At
  <1>2. CASE Next
    BY <1>2, RunStep, Starting, Passes, Edits, World DEF Next
  <1> QED
    BY <1>1, <1>2

\* Claim, Release, runs and passes keep their shape.
THEOREM TypeCorrect == Spec => []TypeOK
  <1>1. IInv => TypeOK
    BY DEF IInv
  <1> QED
    BY <1>1, Initially, Step, PTL DEF Spec

\* However many runs race with each other and with the user, no edit of the
\* claim is lost and no revision is rolled back.
THEOREM RevisionsOnlyRise == Spec => OnlyRaisesTheRevision
  <1>1. IInv /\ [Next]_vars
        => [/\ budget'.edits = budget.edits => claim' = claim
            /\ selector # 0 /\ selector' # 0 => selector' >= selector]_vars
    BY Step DEF Raises
  <1> QED
    BY <1>1, Initially, Step, PTL DEF Spec, OnlyRaisesTheRevision
-----------------------------------------------------------------------------
(* What passes and jobs know of the Release and of the first maintenance. *)

\* The tag moves as LoweredByPinOrStaleRead says.
Lowers ==
  tag' < tag =>
    \/ pass.running /\ ~pass'.running /\ (pass.claim.pin # 0 \/ pass.tag # tag)
    \/ \E r \in Runs : At(r, "patch") /\ jobs'[r] # jobs[r] /\ jobs[r].tag # tag

\* A run that was started again is at its beginning, or has nothing to do.
LEMMA RestartStep ==
  ASSUME TypeOK, NEW r \in Runs
  PROVE  Failed(r).pc \in {"complete", "waiting", "failed"}
  <1>1. jobs[r] \in Run
    BY DEF TypeOK
  <1>2. CASE jobs[r].left > 0
    <2>1. jobs[r].left - 1 \in 0..Retries /\ jobs[r].env \in Env
      BY <1>1, <1>2, MaintenanceAssumption DEF Run
    <2> QED
      BY <1>2, <2>1, NewRunType DEF Failed
  <1>3. CASE ~(jobs[r].left > 0)
    <2>1. jobs[r].left \in 0..Retries /\ jobs[r].env \in Env
      BY <1>1 DEF Run
    <2> QED
      BY <1>3, <2>1, ForgetType DEF Failed
  <1> QED
    BY <1>2, <1>3

\* A run that is replaced, other than the first one once it has completed, by
\* one that is not about to lower the tag.
LEMMA SetKeepsRelease ==
  ASSUME IInv, ReleaseInv, NEW r \in Runs, NEW run \in Run, Set(r, run),
         run.pc = "patch" => run.known >= run.tag,
         ~(r = "initial" /\ At(r, "complete")),
         UNCHANGED <<initial, ready, pass>>
  PROVE  ReleaseInv'
  <1>1. jobs \in [Runs -> Run] /\ jobs' = [jobs EXCEPT ![r] = run]
    BY DEF IInv, TypeOK, Set
  <1>2. At("initial", "complete") => At("initial", "complete")'
    BY <1>1 DEF At
  <1>3. ASSUME NEW s \in Runs, At(s, "patch")'
        PROVE  jobs'[s].known >= jobs'[s].tag
    BY <1>1, <1>3 DEF At, ReleaseInv, PatchInv
  <1> QED
    BY <1>2, <1>3 DEF ReleaseInv, ReadyMeansMaintained, PassInv, PatchInv

\* Runs that lose their fresh copies of the claim know of the Release what they
\* knew.
LEMMA OutdatedKeepsRelease ==
  ASSUME NEW runs \in [Runs -> Run], jobs' = Outdated(runs)
  PROVE  \A s \in Runs : /\ jobs'[s].pc = runs[s].pc /\ jobs'[s].known = runs[s].known
                         /\ jobs'[s].tag = runs[s].tag
  <1> SUFFICES ASSUME NEW s \in Runs
               PROVE  /\ jobs'[s].pc = runs[s].pc /\ jobs'[s].known = runs[s].known
                      /\ jobs'[s].tag = runs[s].tag
    OBVIOUS
  <1>1. runs[s] \in Run
    OBVIOUS
  <1>2. jobs'[s] = [runs[s] EXCEPT !.fresh = FALSE]
    BY DEF Outdated
  <1> QED
    BY <1>1, <1>2 DEF Run

\* Steps that replace one run and do not write the Release.
LEMMA RunMoves ==
  ASSUME IInv, ReleaseInv, NEW r \in Runs, NEW run \in Run, Set(r, run),
         run.pc = "patch" => run.known >= run.tag,
         ~(r = "initial" /\ At(r, "complete")),
         UNCHANGED <<tag, initial, ready, pass>>
  PROVE  ReleaseInv' /\ Lowers
  <1>1. tag' = tag /\ tag \in 0..MaxVersion
    BY DEF IInv, TypeOK
  <1>2. Lowers
    BY <1>1, MaintenanceAssumption DEF Lowers
  <1> QED
    BY <1>2, SetKeepsRelease

\* A job that is about to patch replaces the tag it read by one that is not lower.
LEMMA KnowsRelease ==
  ASSUME IInv, ReleaseInv, NEW r \in Runs, GetRelease(r)
  PROVE  ReleaseInv' /\ Lowers
  <1> DEFINE target == SemVerPatchesOnly(jobs[r].known, tag)
             run == [jobs[r] EXCEPT !.pc = "patch", !.known = target, !.tag = tag]
  <1>1. /\ jobs[r] \in Run /\ jobs[r].known \in 0..MaxVersion /\ tag \in 0..MaxVersion
        /\ ~At(r, "complete") /\ UNCHANGED <<tag, initial, ready, pass>>
    BY DEF IInv, TypeOK, Run, GetRelease, At, instance
  <1>2. target \in 0..MaxVersion /\ target >= tag
    BY <1>1, MaintenanceAssumption DEF SemVerPatchesOnly, Larger
  <1>3. CASE tag = 0
    <2>1. Set(r, Failed(r))
      BY <1>3 DEF GetRelease
    <2> QED
      BY <1>1, <2>1, FailedType, RestartStep, RunMoves DEF IInv
  <1>4. CASE tag # 0 /\ tag = target
    <2>1. Set(r, Forget(jobs[r], "complete"))
      BY <1>4 DEF GetRelease
    <2> QED
      BY <1>1, <2>1, GotoType, RunMoves DEF IInv
  <1>5. CASE tag # 0 /\ tag # target
    <2>1. Set(r, run)
      BY <1>5 DEF GetRelease
    <2> HIDE DEF target
    <2>2. run \in Run /\ run.known = target /\ run.tag = tag
      BY <1>1, <1>2 DEF Run
    <2> HIDE DEF run
    <2> QED
      BY <1>1, <1>2, <2>1, <2>2, RunMoves
  <1> QED
    BY <1>3, <1>4, <1>5

\* The steps that read something else or fail.
LEMMA OtherMoves ==
  ASSUME IInv, ReleaseInv, NEW r \in Runs,
         \/ AttemptFails(r) \/ WaitTimesOut(r) \/ WaitForRunningBackups(r)
         \/ GetLatestRevision(r) \/ GetVersions(r)
  PROVE  ReleaseInv' /\ Lowers
  <1>1. jobs[r] \in Run /\ newest \in 0..MaxRevision /\ aged \in 0..MaxRevision
        /\ latest \in 0..MaxVersion
    BY MaintenanceAssumption DEF IInv, TypeOK, Revisions, Versions
  <1>2. ~At(r, "complete") /\ UNCHANGED <<tag, initial, ready, pass>>
    BY DEF AttemptFails, WaitTimesOut, WaitForRunningBackups, GetLatestRevision,
           GetVersions, At, instance
  <1>3. CASE AttemptFails(r) \/ WaitTimesOut(r)
    <2>1. Set(r, Failed(r))
      BY <1>3 DEF AttemptFails, WaitTimesOut
    <2> QED
      BY <1>2, <2>1, FailedType, RestartStep, RunMoves DEF IInv
  <1>4. CASE WaitForRunningBackups(r)
    <2>1. Set(r, Forget(jobs[r], AfterBackups(jobs[r])))
      BY <1>4 DEF WaitForRunningBackups, Goto
    <2>2. AfterBackups(jobs[r]) # "patch"
      BY DEF AfterBackups, AfterRelease
    <2> QED
      BY <1>2, <2>1, <2>2, GotoType, StepNames, RunMoves DEF IInv
  <1>5. CASE GetLatestRevision(r)
    <2> DEFINE revision == IF r = "hotfix" \/ aged = 0 THEN newest ELSE aged
               run == [jobs[r] EXCEPT !.pc = "claim", !.revision = revision]
    <2>1. revision \in 0..MaxRevision
      BY <1>1
    <2>2. Set(r, run) /\ run \in Run /\ run.pc = "claim"
      BY <1>1, <1>5, <2>1 DEF GetLatestRevision, Run
    <2> HIDE DEF run
    <2> QED
      BY <1>2, <2>2, RunMoves
  <1>6. CASE GetVersions(r)
    <2> DEFINE run == [jobs[r] EXCEPT !.pc = "release", !.known = latest]
    <2>1. Set(r, run) /\ run \in Run /\ run.pc = "release"
      BY <1>1, <1>6 DEF GetVersions, Run
    <2> HIDE DEF run
    <2> QED
      BY <1>2, <2>1, RunMoves
  <1> QED
    BY <1>3, <1>4, <1>5, <1>6

\* The claim is read, or written.
LEMMA ClaimMoves ==
  ASSUME IInv, ReleaseInv, NEW r \in Runs, GetClaim(r) \/ UpdateClaim(r)
  PROVE  ReleaseInv' /\ Lowers
  <1>1. jobs[r] \in Run /\ jobs[r].revision \in 0..MaxRevision /\ claim \in Settings
    BY DEF IInv, TypeOK, Run
  <1>2. ~At(r, "complete") /\ UNCHANGED <<tag, initial, ready, pass>>
    BY DEF GetClaim, UpdateClaim, At, instance
  <1>3. /\ Forget(jobs[r], EndOfRelease(r)) \in Run
        /\ Forget(jobs[r], EndOfRelease(r)).pc # "patch"
    <2>1. EndOfRelease(r) # "patch"
      BY DEF EndOfRelease, AfterRelease
    <2> QED
      BY <2>1, GotoType, StepNames DEF IInv
  <1>4. CASE GetClaim(r)
    <2> DEFINE auto == ~Enabled \/ claim.auto
               skip == ~auto /\ ShouldSkipRevisionUpdate(selector, jobs[r].revision)
               target == IF auto THEN 0 ELSE jobs[r].revision
               run == [jobs[r] EXCEPT !.pc = "update", !.fresh = TRUE, !.claim = claim,
                                      !.selector = target]
    <2>1. CASE skip
      <3>1. Set(r, Forget(jobs[r], EndOfRelease(r)))
        BY <1>4, <2>1 DEF GetClaim
      <3> QED
        BY <1>2, <1>3, <3>1, RunMoves
    <2>2. CASE ~skip
      <3>1. target \in 0..MaxRevision
        BY <1>1, MaintenanceAssumption
      <3>2. Set(r, run)
        BY <1>4, <2>2 DEF GetClaim
      <3> HIDE DEF target
      <3>3. run \in Run /\ run.pc = "update"
        BY <1>1, <3>1 DEF Run
      <3> HIDE DEF run
      <3> QED
        BY <1>2, <3>2, <3>3, RunMoves
    <2> QED
      BY <2>1, <2>2
  <1>5. CASE UpdateClaim(r)
    <2>1. CASE Conflicts(jobs[r])
      <3>1. Set(r, Failed(r))
        BY <1>5, <2>1 DEF UpdateClaim
      <3> QED
        BY <1>2, <3>1, FailedType, RestartStep, RunMoves DEF IInv
    <2>2. CASE ~Conflicts(jobs[r])
      <3> DEFINE run == Forget(jobs[r], EndOfRelease(r))
                 runs == [jobs EXCEPT ![r] = run]
      <3>1. jobs' = Outdated(runs)
        BY <1>5, <2>2 DEF UpdateClaim
      <3>2. run \in Run /\ run.pc # "patch"
        BY <1>3
      <3> HIDE DEF run
      <3>3. /\ runs \in [Runs -> Run] /\ runs[r] = run
            /\ \A s \in Runs \ {r} : runs[s] = jobs[s]
        BY <3>2 DEF IInv, TypeOK
      <3> HIDE DEF runs
      <3>4. \A s \in Runs : /\ jobs'[s].pc = runs[s].pc /\ jobs'[s].known = runs[s].known
                            /\ jobs'[s].tag = runs[s].tag
        BY <3>1, <3>3, OutdatedKeepsRelease
      <3>5. At("initial", "complete") => At("initial", "complete")'
        BY <1>2, <3>3, <3>4 DEF At
      <3>6. PatchInv'
        BY <3>2, <3>3, <3>4 DEF ReleaseInv, PatchInv, At
      <3>7. Lowers
        BY <1>2, MaintenanceAssumption DEF Lowers, IInv, TypeOK
      <3> QED
        BY <1>2, <3>5, <3>6, <3>7 DEF ReleaseInv, ReadyMeansMaintained, PassInv
    <2> QED
      BY <2>1, <2>2
  <1> QED
    BY <1>4, <1>5

\* The Release is patched: with a lower tag only if it is not the one that was
\* read.
LEMMA PatchMoves ==
  ASSUME IInv, ReleaseInv, NEW r \in Runs, PatchRelease(r)
  PROVE  ReleaseInv' /\ Lowers
  <1>1. /\ jobs \in [Runs -> Run] /\ jobs[r].known \in 0..MaxVersion
        /\ jobs[r].tag \in 0..MaxVersion /\ tag \in 0..MaxVersion
    BY DEF IInv, TypeOK, Run
  <1>2. /\ At(r, "patch") /\ tag' = jobs[r].known /\ Set(r, Forget(jobs[r], "complete"))
        /\ UNCHANGED <<initial, ready, pass>>
    BY DEF PatchRelease, Goto
  <1>3. /\ Forget(jobs[r], "complete") \in Run /\ Forget(jobs[r], "complete").pc = "complete"
    BY GotoType DEF IInv
  <1>4. ReleaseInv'
    BY <1>2, <1>3, SetKeepsRelease DEF At
  <1>5. jobs'[r] # jobs[r]
    BY <1>1, <1>2, <1>3 DEF Set, At
  <1>6. jobs[r].known >= jobs[r].tag
    BY <1>2 DEF ReleaseInv, PatchInv
  <1>7. tag' < tag => jobs[r].tag # tag
    BY <1>1, <1>2, <1>6, MaintenanceAssumption
  <1> QED
    BY <1>2, <1>4, <1>5, <1>7 DEF Lowers

\* The CronJob or a human starts a run.
LEMMA StartMoves ==
  ASSUME IInv, ReleaseInv, CronStarts \/ HotfixStarts
  PROVE  ReleaseInv' /\ Lowers
  <1>1. CASE CronStarts
    <2>1. PICK env \in cronEnv : Set("cron", NewRun(env, Retries))
      BY <1>1 DEF CronStarts
    <2>2. env \in Env /\ Retries \in 0..Retries
      BY MaintenanceAssumption DEF IInv, TypeOK
    <2>3. NewRun(env, Retries) \in Run /\ NewRun(env, Retries).pc # "patch"
      BY <2>2, NewRunType
    <2> QED
      BY <1>1, <2>1, <2>3, RunMoves DEF CronStarts, instance
  <1>2. CASE HotfixStarts
    <2> DEFINE run == [Idle EXCEPT !.pc = IF Enabled THEN "revision" ELSE "claim"]
    <2>1. Idle \in Run
      BY MaintenanceAssumption DEF Idle, Run, Env, NoEnv
    <2>2. run \in Run /\ run.pc # "patch"
      BY <2>1 DEF Run, Idle
    <2>3. Set("hotfix", run)
      BY <1>2 DEF HotfixStarts
    <2> HIDE DEF run
    <2> QED
      BY <1>2, <2>2, <2>3, RunMoves DEF HotfixStarts, instance
  <1> QED
    BY <1>1, <1>2

\* A pass is told how the first maintenance stands, and what tag there is.
LEMMA PassStartMoves ==
  ASSUME IInv, ReleaseInv, PassStarts
  PROVE  ReleaseInv' /\ Lowers
  <1>1. UNCHANGED <<tag, jobs, initial, ready>>
    BY DEF PassStarts
  <1>2. pass'.initial = initial /\ pass'.complete = At("initial", "complete")
    BY DEF PassStarts
  <1>3. PassInv'
    BY <1>1, <1>2 DEF PassInv, At
  <1>4. Lowers
    BY <1>1, MaintenanceAssumption DEF Lowers, IInv, TypeOK
  <1> QED
    BY <1>1, <1>3, <1>4 DEF ReleaseInv, ReadyMeansMaintained, PatchInv, At

\* A pass answers.  It keeps a first run that has completed, and it says that
\* the instance is ready only for a first maintenance that is over.
LEMMA PassEndMoves ==
  ASSUME IInv, ReleaseInv, PassEnds
  PROVE  ReleaseInv' /\ Lowers
  <1>1. /\ pass.running /\ pass.claim \in Settings \cup {NoClaim} /\ pass.tag \in 0..MaxVersion
        /\ jobs \in [Runs -> Run] /\ tag \in 0..MaxVersion /\ pass.initial \in Initial
    BY DEF PassEnds, IInv, TypeOK, Snapshot
  <1>2. jobs' = [jobs EXCEPT !["initial"] = InitialJob(pass)] /\ pass' = NoPass
    BY DEF PassEnds, Set
  <1>3. InitialJob(pass).pc = "patch" => InitialJob(pass) = jobs["initial"]
    <2>1. EnvOf(pass.claim) \in Env /\ Retries \in 0..Retries
      BY <1>1, ClaimType, MaintenanceAssumption DEF EnvOf, Env
    <2>2. NewRun(EnvOf(pass.claim), Retries).pc # "patch"
      BY <2>1, NewRunType
    <2> QED
      BY <2>2 DEF InitialJob, Idle
  <1>4. PatchInv'
    BY <1>1, <1>2, <1>3 DEF ReleaseInv, PatchInv, At
  <1>5. ReadyMeansMaintained'
    <2> SUFFICES ASSUME ready' PROVE At("initial", "complete")' \/ initial' = "past"
      BY DEF ReadyMeansMaintained
    <2>1. CASE pass.initial = "past"
      BY <1>1, <2>1 DEF PassEnds, ReleaseInv, PassInv
    <2>2. CASE pass.initial # "past"
      <3>1. pass.complete
        BY <2>2 DEF PassEnds, KeepsInitialJob, InitialJobReady
      <3>2. At("initial", "complete")
        BY <1>1, <3>1 DEF ReleaseInv, PassInv
      <3>3. InitialJob(pass) = jobs["initial"]
        BY <2>2, <3>2 DEF InitialJob, KeepsInitialJob, At
      <3> QED
        BY <1>1, <1>2, <3>2, <3>3 DEF At
    <2> QED
      BY <2>1, <2>2
  <1>6. PassInv'
    BY <1>2 DEF PassInv, NoPass
  <1>7. Lowers
    <2> SUFFICES ASSUME tag' < tag, pass.claim.pin = 0, pass.tag = tag
                 PROVE  FALSE
      BY <1>1, <1>2 DEF Lowers, NoPass
    <2>1. pass.claim.version \in 0..MaxVersion /\ DesiredTag(pass.claim) \in 0..MaxVersion
      BY <1>1, ClaimType, DesiredTagType DEF IInv, TypeOK
    <2>2. \/ tag' = Larger(tag, pass.claim.version)
          \/ tag' = DesiredTag(pass.claim) /\ DesiredTag(pass.claim) >= tag
      BY <1>1 DEF PassEnds, SetReleaseVersion
    <2> QED
      BY <1>1, <2>1, <2>2, MaintenanceAssumption DEF Larger
  <1> QED
    BY <1>4, <1>5, <1>6, <1>7 DEF ReleaseInv

\* The user, publications, backups and the clock.
LEMMA WorldMoves ==
  ASSUME IInv, ReleaseInv,
         \/ EditClaim \/ PublishRevision \/ RevisionAges \/ PublishVersion
         \/ BackupStarts \/ BackupEnds \/ HalfAnHourPasses
  PROVE  ReleaseInv' /\ Lowers
  <1>1. UNCHANGED <<tag, ready, pass>> /\ initial' \in {initial, "past"}
    BY DEF EditClaim, PublishRevision, RevisionAges, PublishVersion, BackupStarts,
           BackupEnds, HalfAnHourPasses, instance
  <1>2. \A s \in Runs : /\ jobs'[s].pc = jobs[s].pc /\ jobs'[s].known = jobs[s].known
                        /\ jobs'[s].tag = jobs[s].tag
    <2>1. CASE EditClaim
      BY <2>1, OutdatedKeepsRelease DEF EditClaim, IInv, TypeOK
    <2>2. CASE ~EditClaim
      BY <2>2 DEF PublishRevision, RevisionAges, PublishVersion, BackupStarts,
                  BackupEnds, HalfAnHourPasses
    <2> QED
      BY <2>1, <2>2
  <1>3. ReadyMeansMaintained' /\ PassInv'
    BY <1>1, <1>2 DEF ReleaseInv, ReadyMeansMaintained, PassInv, At
  <1>4. PatchInv'
    BY <1>2 DEF ReleaseInv, PatchInv, At
  <1>5. Lowers
    BY <1>1, MaintenanceAssumption DEF Lowers, IInv, TypeOK
  <1> QED
    BY <1>3, <1>4, <1>5 DEF ReleaseInv

\* Before the instance is deployed nothing is ready and nobody patches.
LEMMA InitiallyNothing == Init => ReleaseInv
  BY DEF Init, ReleaseInv, ReadyMeansMaintained, PassInv, PatchInv, NoPass, At, Idle

\* Every step keeps the invariant and moves the tag as it may.
LEMMA ReleaseStep ==
  IInv /\ ReleaseInv /\ [Next]_vars => ReleaseInv' /\ [Lowers]_vars
  <1> SUFFICES ASSUME IInv, ReleaseInv, [Next]_vars PROVE ReleaseInv' /\ [Lowers]_vars
    OBVIOUS
  <1>1. CASE UNCHANGED vars
    BY <1>1 DEF vars, ReleaseInv, ReadyMeansMaintained, PassInv, PatchInv, At
  <1>2. ASSUME NEW r \in Runs, RunSteps(r) \/ AttemptFails(r)
        PROVE  ReleaseInv' /\ Lowers
    BY <1>2, KnowsRelease, OtherMoves, ClaimMoves, PatchMoves DEF RunSteps
  <1>3. CASE Next
    BY <1>2, <1>3, StartMoves, PassStartMoves, PassEndMoves, WorldMoves DEF Next
  <1> QED
    BY <1>1, <1>3

\* A composite that was called ready has had its first maintenance, or half an
\* hour for it, although the pass that said so was told some steps before.
THEOREM ReadyIsMaintained == Spec => []ReadyMeansMaintained
  <1>1. ReleaseInv => ReadyMeansMaintained
    BY DEF ReleaseInv
  <1> QED
    BY <1>1, Initially, Step, InitiallyNothing, ReleaseStep, PTL DEF Spec

\* Of the writers of the Release that overtake each other, only one whose copy
\* is stale, or a pass for a pinned tag, lowers the tag.
THEOREM OnlyStaleReadsLower == Spec => LoweredByPinOrStaleRead
  <1>1. IInv /\ ReleaseInv /\ [Next]_vars
        => [tag' < tag =>
              \/ pass.running /\ ~pass'.running /\ (pass.claim.pin # 0 \/ pass.tag # tag)
              \/ \E r \in Runs : At(r, "patch") /\ jobs'[r] # jobs[r] /\ jobs[r].tag # tag]_vars
    BY ReleaseStep DEF Lowers
  <1> QED
    BY <1>1, Initially, Step, InitiallyNothing, ReleaseStep,
       PTL DEF Spec, LoweredByPinOrStaleRead
============================================================================
