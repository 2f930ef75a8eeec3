----------------------------- MODULE PvcResize -----------------------------
(***************************************************************************)
(* How the volume of a Redis grows.  A StatefulSet cannot change the size  *)
(* of its volumes, so the composition function (vshnredis/pvcresize.go)    *)
(* starts a job (script/recreate.sh) that deletes the StatefulSet and      *)
(* makes provider-helm deploy the chart again, which creates it with the   *)
(* new size; a controller then resizes the volumes.                        *)
(*                                                                         *)
(* Function, job and provider-helm run concurrently and all write to the   *)
(* Release; the function decides from the Release and from what            *)
(* provider-kubernetes last reported of the job and the StatefulSet.       *)
(***************************************************************************)
EXTENDS Naturals

CONSTANTS
  MaxSize,       \* bound: the largest disk size
  BackoffLimit,  \* how many failed pods of a job are replaced (Kubernetes: 6)
  Faults,        \* bound: what goes wrong once, see FaultKinds
  None           \* no object

\* The pods of Redis become unready, the pod of the job is lost, a pass breaks
\* off between two resources.
FaultKinds == {"unready", "lost", "break"}

ASSUME PvcResizeAssumption ==
  /\ MaxSize \in Nat \ {0}
  /\ BackoffLimit \in Nat
  /\ Faults \subseteq FaultKinds

VARIABLES
  disk,      \* the size of the disk: spec.parameters.size.disk or the plan's
  explicit,  \* is spec.parameters.size.disk set?
  release,   \* replica.persistence.size of the Release
  tried,     \* the size provider-helm last tried to deploy
  sts,       \* the StatefulSet
  volume,    \* the size of the volumes
  job,       \* the deletion job: its size and where the script is
  jobSeen,   \* what is reported of the job
  watched,   \* is the StatefulSet reported at all?
  stsSeen,   \* what is reported of the StatefulSet
  pass,      \* what the function was given
  faults,    \* the faults that have happened
  delays     \* history: how provider-helm was too late, see DelayKinds

spec == <<disk, explicit>>
seen == <<jobSeen, watched, stsSeen>>
vars == <<spec, release, tried, sts, volume, job, seen, pass, faults, delays>>

\* It did not see that the Release was broken; it did not deploy in five minutes;
\* it deployed an older size once the job had deleted the StatefulSet.
DelayKinds == {"missed", "late", "behind"}

Sizes == 1..MaxSize
\* "foo" in the script
Invalid == MaxSize + 1
StatefulSet == [size: Sizes, ready: BOOLEAN, label: BOOLEAN]
Steps == {"check", "delete", "break", "poke", "wait", "label", "succeeded", "failed"}
Job == [size: Sizes, pc: Steps, failures: 0..BackoffLimit]
\* The job Object without a manifest, the job without and with a success.
Reports == {"nothing", "running", "succeeded"}
Snapshot == [disk: Sizes, explicit: BOOLEAN, release: Sizes \cup {Invalid, None},
             exists: BOOLEAN, job: Reports, sts: StatefulSet \cup {None}]

ASSUME NoneAssumption == None \notin Sizes \cup {Invalid} \cup Job \cup StatefulSet
-----------------------------------------------------------------------------
(* The function. *)

\* The size in the Release cannot be parsed; nobody looks if the plan sets the size.
Fatal(s) == s.explicit /\ s.release = Invalid

\* A Release that is not there yet is taken from the desired ones.
NeedReleasePatch(s) == s.release # None /\ s.disk > s.release

StsUpdated(s) == s.sts # None /\ s.sts.size = s.disk
NoReadyReplicas(s) == s.sts = None \/ ~s.sts.ready

\* Mutant: a job that was not observed yet is dropped.
KeepsJob_Observed(s) == s.exists /\ s.job = "running"

\* "The job hasn't been observed yet, so we need to keep it in desired, or we
\* will have a recreate loop."
KeepsJob(s) ==
  /\ s.exists
  /\ s.job # "succeeded" \/ (NoReadyReplicas(s) /\ ~StsUpdated(s))

\* Mutant: the job is only there to start the resize.
ResizePVCs_Once(s) == s.explicit /\ NeedReleasePatch(s)

\* Is the deletion job desired?  Not if the plan sets the size, whatever became
\* of a job that is there.
ResizePVCs(s) == s.explicit /\ (NeedReleasePatch(s) \/ KeepsJob(s))

Fault(kind) ==
  /\ kind \in Faults \ faults
  /\ faults' = faults \cup {kind}

RunFunction ==
  /\ pass = None
  /\ pass' = [disk |-> disk, explicit |-> explicit, release |-> release,
              exists |-> job # None, job |-> jobSeen, sts |-> stsSeen]
  /\ UNCHANGED <<spec, release, tried, sts, volume, job, seen, faults, delays>>

\* A size that provider-helm has tried before is only deployed again if it saw
\* the Release broken in between.
WriteRelease(n) ==
  /\ release' = n
  /\ delays' = delays \cup (IF release = Invalid /\ tried = n THEN {"missed"} ELSE {})

\* The template of a job cannot be changed, so an existing one stays as it is.
ApplyJob ==
  IF ResizePVCs(pass)
  THEN /\ job' = IF job = None THEN [size |-> pass.disk, pc |-> "check", failures |-> 0]
                ELSE job
       /\ UNCHANGED jobSeen
  ELSE job' = None /\ jobSeen' = "nothing"

\* The StatefulSet is only observed if size.disk is set.
ApplyObserver ==
  /\ watched' = pass.explicit
  /\ stsSeen' = IF pass.explicit THEN stsSeen ELSE None

Finish ==
  /\ pass # None
  /\ IF Fatal(pass) THEN UNCHANGED <<release, job, seen, delays>>
     ELSE WriteRelease(pass.disk) /\ ApplyJob /\ ApplyObserver
  /\ pass' = None
  /\ UNCHANGED <<spec, tried, sts, volume, faults>>

\* The pass ends early: what is not desired is gone, the Release and the job are
\* applied or not.
BreakOff ==
  /\ pass # None /\ ~Fatal(pass) /\ Fault("break")
  /\ WriteRelease(pass.disk) \/ UNCHANGED <<release, delays>>
  /\ IF ResizePVCs(pass) THEN ApplyJob \/ UNCHANGED <<job, jobSeen>> ELSE ApplyJob
  /\ ApplyObserver
  /\ pass' = None
  /\ UNCHANGED <<spec, tried, sts, volume>>

\* ValidateDiskDownsizing: disks only grow, whether the size is given or the plan's.
Resize(n, e) ==
  /\ n >= disk /\ <<n, e>> # spec
  /\ disk' = n /\ explicit' = e
  /\ UNCHANGED <<release, tried, sts, volume, job, seen, pass, faults, delays>>
-----------------------------------------------------------------------------
(* The job: script/recreate.sh. *)

At(pc) == job # None /\ job.pc = pc
Goto(pc) == job' = [job EXCEPT !.pc = pc]
system == <<spec, tried, volume, seen, pass>>

\* The script compares the sizes as they are written; here a size has one notation.
CheckSize == sts # None /\ sts.size = job.size

Check ==
  /\ At("check")
  /\ Goto(IF CheckSize THEN "succeeded" ELSE "delete")
  /\ UNCHANGED <<release, sts, system, faults, delays>>

\* The pods stay: --cascade=orphan.
DeleteSts ==
  /\ At("delete")
  /\ sts' = None
  /\ Goto("break")
  /\ UNCHANGED <<release, system, faults, delays>>

\* Mutant: the Release is not broken first.
BreakRelease_Keep ==
  /\ At("break")
  /\ Goto("poke")
  /\ UNCHANGED <<release, sts, system, faults, delays>>

\* "We first set it to garbage to ensure that the release is in an invalid state."
BreakRelease ==
  /\ At("break")
  /\ release' = Invalid
  /\ Goto("poke")
  /\ UNCHANGED <<sts, system, faults, delays>>

PokeRelease ==
  /\ At("poke")
  /\ WriteRelease(job.size)
  /\ Goto("wait")
  /\ UNCHANGED <<sts, system, faults>>

WaitForSts ==
  /\ At("wait") /\ sts # None
  /\ Goto("label")
  /\ UNCHANGED <<release, sts, system, faults, delays>>

\* The job replaces a failed pod (restartPolicy Never), up to its backoff limit.
PodFails ==
  job' = IF job.failures = BackoffLimit THEN [job EXCEPT !.pc = "failed"]
         ELSE [job EXCEPT !.pc = "check", !.failures = @ + 1]

\* The five minutes are over; provider-helm may be late.
Retry ==
  /\ At("wait") /\ sts = None
  /\ PodFails
  /\ delays' = delays \cup (IF release # tried THEN {"late"} ELSE {})
  /\ UNCHANGED <<release, sts, system, faults>>

\* The pod of the job is evicted.
LosePod ==
  /\ job # None /\ job.pc \notin {"succeeded", "failed"} /\ Fault("lost")
  /\ PodFails
  /\ UNCHANGED <<release, sts, system, delays>>

LabelSts ==
  /\ At("label") /\ sts # None
  /\ sts' = [sts EXCEPT !.label = TRUE]
  /\ Goto("succeeded")
  /\ UNCHANGED <<release, system, faults, delays>>

Script == Check \/ DeleteSts \/ BreakRelease \/ PokeRelease \/ WaitForSts \/ LabelSts
-----------------------------------------------------------------------------
(* The providers and controllers. *)

Behind == job # None /\ job.pc \notin {"check", "delete"} /\ release < job.size

\* "provider-helm doesn't actually retry failed helm deployments unless the
\* values change."  An upgrade of an existing StatefulSet to another size fails.
HelmDeploy ==
  /\ release # None /\ release # tried
  /\ tried' = release
  /\ IF release # Invalid /\ sts = None
     THEN /\ sts' = [size |-> release, ready |-> FALSE, label |-> FALSE]
          /\ delays' = delays \cup (IF Behind THEN {"behind"} ELSE {})
     ELSE UNCHANGED <<sts, delays>>
  /\ UNCHANGED <<spec, release, volume, job, seen, pass, faults>>

\* The first volumes, or the pods that are still there.
StsReady ==
  /\ sts # None /\ ~sts.ready
  /\ sts' = [sts EXCEPT !.ready = TRUE]
  /\ volume' = IF volume = 0 THEN sts.size ELSE volume
  /\ UNCHANGED <<spec, release, tried, job, seen, pass, faults, delays>>

StsUnready ==
  /\ sts # None /\ sts.ready /\ Fault("unready")
  /\ sts' = [sts EXCEPT !.ready = FALSE]
  /\ UNCHANGED <<spec, release, tried, volume, job, seen, pass, delays>>

\* statefulset-resize-controller
ResizeVolume ==
  /\ sts # None /\ sts.label /\ volume < sts.size
  /\ volume' = sts.size
  /\ UNCHANGED <<spec, release, tried, sts, job, seen, pass, faults, delays>>

\* A StatefulSet that is gone is reported as it last was.
ObserveSts ==
  /\ watched /\ sts # None /\ stsSeen # sts
  /\ stsSeen' = sts
  /\ UNCHANGED <<spec, release, tried, sts, volume, job, jobSeen, watched, pass, faults, delays>>

ObserveJob ==
  /\ job # None
  /\ jobSeen' = IF job.pc = "succeeded" THEN "succeeded" ELSE "running"
  /\ jobSeen' # jobSeen
  /\ UNCHANGED <<spec, release, tried, sts, volume, job, watched, stsSeen, pass, faults, delays>>
-----------------------------------------------------------------------------
Init ==
  /\ disk = 1 /\ explicit \in BOOLEAN
  /\ release = None /\ tried = None /\ sts = None /\ volume = 0
  /\ job = None /\ jobSeen = "nothing" /\ watched = FALSE /\ stsSeen = None /\ pass = None
  /\ faults = {} /\ delays = {}

Next ==
  \/ RunFunction \/ Finish \/ BreakOff
  \/ \E n \in Sizes, e \in BOOLEAN : Resize(n, e)
  \/ Script \/ Retry \/ LosePod
  \/ HelmDeploy \/ StsReady \/ StsUnready \/ ResizeVolume \/ ObserveSts \/ ObserveJob

Spec == Init /\ [][Next]_vars

\* Crossplane, the job and the controllers go on, if not in time.
Fairness ==
  /\ WF_vars(RunFunction) /\ WF_vars(Finish)
  /\ WF_vars(Script) /\ WF_vars(Retry)
  /\ WF_vars(HelmDeploy) /\ WF_vars(StsReady) /\ WF_vars(ResizeVolume)
  /\ WF_vars(ObserveSts) /\ WF_vars(ObserveJob)

FairSpec == Spec /\ Fairness
-----------------------------------------------------------------------------
TypeOK ==
  /\ disk \in Sizes /\ explicit \in BOOLEAN /\ volume \in 0..MaxSize
  /\ release \in Sizes \cup {Invalid, None} /\ tried \in Sizes \cup {Invalid, None}
  /\ sts \in StatefulSet \cup {None} /\ stsSeen \in StatefulSet \cup {None}
  /\ job \in Job \cup {None} /\ jobSeen \in Reports /\ watched \in BOOLEAN
  /\ pass \in Snapshot \cup {None}
  /\ faults \subseteq Faults /\ delays \subseteq DelayKinds

FellBehind == "break" \in faults /\ "behind" \in delays

Resized == volume = disk /\ job = None

\* In the end the volumes have the size that was asked for, and the job is gone.
\* Not true: not when the plan sets the size, nor after a second growth, a
\* failed job, a lost pod or a lost pass.
EventuallyResized == <>[]Resized

\* So it is after one growth of a size that is given, if the job does not fail,
\* also when Redis becomes unready or the Release is repaired before
\* provider-helm sees that it was broken (pvcresize.go, recreate.sh).
ResizedIfNothingLost ==
  []( /\ explicit /\ ~At("failed")
      /\ faults \cap {"lost", "break"} = {} /\ "late" \notin delays ) => <>[]Resized

\* The job is only taken away when there is a StatefulSet, of the size it was for
\* or of a larger one that was asked for meanwhile, or when a plan is to set the
\* size (pvcresize.go, ResizePVCs).  The StatefulSet may be too small if a pass
\* started the job and broke off before it wrote the Release.
JobDoesItsWork ==
  [][job # None /\ job' = None =>
       \/ ~pass.explicit
       \/ sts # None /\ (sts.size >= job.size \/ FellBehind)]_vars

\* A StatefulSet that the job deleted comes back, whichever pod or pass is lost
\* on the way, unless a plan takes the job away or provider-helm is too late so
\* often that the job fails (recreate.sh).
StsComesBack ==
  job # None /\ sts = None ~> sts # None \/ job = None \/ (At("failed") /\ delays # {})
-----------------------------------------------------------------------------
(* The inductive invariant behind JobDoesItsWork. *)

\* No job is for more than what is asked for, and the Release is at that size
\* or above, or broken by the script, unless a pass broke off.
ReleaseInv ==
  /\ job # None => /\ job.size <= disk
                   /\ release = Invalid \/ release >= job.size \/ "break" \in faults
  /\ "behind" \in delays => "break" \in faults

\* A StatefulSet made while the job was at work is large enough, and there is
\* one when the job is done.
StsInv ==
  job # None /\ job.pc \notin {"check", "delete", "failed"} =>
    /\ sts # None => sts.size >= job.size \/ "behind" \in delays
    /\ job.pc \in {"label", "succeeded"} => sts # None

\* Reports and the pass may be late, but only about a job that is not done.
SeenInv ==
  /\ jobSeen = "succeeded" => At("succeeded")
  /\ pass # None =>
       /\ pass.exists <=> job # None
       /\ pass.job = "succeeded" => At("succeeded")
       /\ pass.disk <= disk
       /\ job # None => job.size <= pass.disk

IInv == TypeOK /\ ReleaseInv /\ StsInv /\ SeenInv
============================================================================
