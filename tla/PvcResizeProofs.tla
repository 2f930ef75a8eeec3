-------------------------- MODULE PvcResizeProofs --------------------------
(* Machine-checked proofs about PvcResize. *)
EXTENDS PvcResize, TLAPS

\* What JobDoesItsWork says of a step.
Kept ==
  job # None /\ job' = None =>
    \/ ~pass.explicit
    \/ sts # None /\ (sts.size >= job.size \/ FellBehind)

\* A job and a StatefulSet are records, whatever None is.
LEMMA Records ==
  ASSUME TypeOK
  PROVE  /\ job # None => job \in Job /\ job.size \in Sizes /\ job.pc \in Steps
         /\ sts # None => sts \in StatefulSet /\ sts.size \in Sizes
         /\ pass # None => pass \in Snapshot /\ pass.disk \in Sizes /\ pass.explicit \in BOOLEAN
  BY DEF TypeOK, Job, StatefulSet, Snapshot

\* A job is dropped only for a plan or when it is done, so its StatefulSet is there.
LEMMA DropsDone ==
  ASSUME IInv, pass # None, ~ResizePVCs(pass), job # None
  PROVE  ~pass.explicit \/ (sts # None /\ (sts.size >= job.size \/ FellBehind))
  <1> SUFFICES ASSUME pass.explicit
               PROVE  sts # None /\ (sts.size >= job.size \/ FellBehind)
    OBVIOUS
  <1>1. pass.exists
    BY DEF IInv, SeenInv
  <1>2. pass.job = "succeeded"
    BY <1>1 DEF ResizePVCs, KeepsJob
  <1> QED
    BY <1>2 DEF IInv, SeenInv, StsInv, ReleaseInv, FellBehind, At

\* What a pass does to the job and the reports, if it applies the job at all.
LEMMA Applies ==
  ASSUME IInv, pass # None, pass' = None, ApplyObserver,
         ApplyJob \/ (ResizePVCs(pass) /\ UNCHANGED <<job, jobSeen>>),
         UNCHANGED <<disk, explicit, tried, sts, volume>>,
         faults \subseteq faults', faults' \subseteq Faults,
         delays \subseteq delays', delays' \subseteq DelayKinds,
         "behind" \in delays' => "behind" \in delays,
         release' \in Sizes \cup {Invalid, None},
         release' = pass.disk \/ (release' = release /\ "break" \in faults')
  PROVE  IInv' /\ Kept
  <1>1. /\ pass \in Snapshot /\ pass.disk \in Sizes /\ pass.explicit \in BOOLEAN
        /\ job # None => job \in Job /\ job.size \in Sizes
    BY Records DEF IInv
  <1>2. pass.disk \in Nat /\ pass.disk <= disk /\ pass.disk >= pass.disk
    BY <1>1, PvcResizeAssumption DEF Sizes, IInv, SeenInv
  <1>3. watched' \in BOOLEAN /\ stsSeen' \in StatefulSet \cup {None}
    BY <1>1 DEF ApplyObserver, IInv, TypeOK
  <1>4. "behind" \in delays' => "break" \in faults'
    BY DEF IInv, ReleaseInv
  <1>5. CASE UNCHANGED <<job, jobSeen>>
    <2>1. job # None => release' = Invalid \/ release' >= job.size \/ "break" \in faults'
      <3> SUFFICES ASSUME job # None, release' = pass.disk PROVE release' >= job.size
        OBVIOUS
      <3>1. job.size <= pass.disk /\ job.size \in Nat
        BY <1>1, PvcResizeAssumption DEF IInv, SeenInv, Sizes
      <3> QED
        BY <1>2, <3>1
    <2>2. ReleaseInv'
      BY <1>4, <1>5, <2>1 DEF IInv, ReleaseInv
    <2>3. StsInv'
      BY <1>5 DEF IInv, StsInv
    <2> QED
      BY <1>3, <1>5, <2>2, <2>3 DEF IInv, TypeOK, SeenInv, At, Kept
  <1>6. CASE ApplyJob /\ ResizePVCs(pass) /\ job = None
    <2>1. job' = [size |-> pass.disk, pc |-> "check", failures |-> 0] /\ UNCHANGED jobSeen
      BY <1>6 DEF ApplyJob
    <2>2. jobSeen # "succeeded"
      BY <1>6 DEF IInv, SeenInv, At
    <2>3. TypeOK'
      BY <1>1, <1>3, <2>1, PvcResizeAssumption DEF IInv, TypeOK, Job, Steps
    <2>4. ReleaseInv'
      BY <1>2, <1>4, <2>1 DEF ReleaseInv
    <2> QED
      BY <1>6, <2>1, <2>2, <2>3, <2>4 DEF IInv, StsInv, SeenInv, Kept
  <1>7. CASE ApplyJob /\ ~ResizePVCs(pass)
    <2>1. job' = None /\ jobSeen' = "nothing"
      BY <1>7 DEF ApplyJob
    <2>2. Kept
      BY <1>7, DropsDone DEF Kept
    <2>3. TypeOK'
      BY <1>3, <2>1 DEF IInv, TypeOK, Reports
    <2> QED
      BY <1>4, <2>1, <2>2, <2>3 DEF IInv, ReleaseInv, StsInv, SeenInv
  <1> QED
    BY <1>5, <1>6, <1>7 DEF ApplyJob

\* A size is written to the Release.
LEMMA Writes ==
  ASSUME IInv, NEW n \in Sizes, WriteRelease(n)
  PROVE  /\ release' = n /\ delays \subseteq delays' /\ delays' \subseteq DelayKinds
         /\ "behind" \in delays' => "behind" \in delays
  BY DEF WriteRelease, IInv, TypeOK, DelayKinds

-----------------------------------------------------------------------------
(* The function. *)

\* A pass starts with what the cluster reports.
LEMMA Starts ==
  ASSUME IInv, RunFunction
  PROVE  IInv' /\ Kept
  <1>1. TypeOK'
    BY DEF RunFunction, IInv, TypeOK, Snapshot, seen, spec
  <1>2. disk <= disk
    BY PvcResizeAssumption DEF IInv, TypeOK, Sizes
  <1>3. SeenInv'
    BY <1>2 DEF RunFunction, IInv, SeenInv, ReleaseInv, At, seen, spec
  <1>4. ReleaseInv' /\ StsInv' /\ Kept
    BY DEF RunFunction, IInv, ReleaseInv, StsInv, Kept, seen, spec
  <1> QED
    BY <1>1, <1>3, <1>4 DEF IInv

\* A pass ends: the Release has the size the pass was asked for, and the job is
\* started, left alone or dropped.
LEMMA Finishes ==
  ASSUME IInv, Finish
  PROVE  IInv' /\ Kept
  <1>1. /\ pass # None /\ pass' = None /\ pass.disk \in Sizes
        /\ UNCHANGED <<disk, explicit, tried, sts, volume, faults>>
    BY Records DEF Finish, IInv, spec
  <1>2. CASE Fatal(pass)
    <2>1. UNCHANGED <<release, job, jobSeen, watched, stsSeen, delays>>
      BY <1>2 DEF Finish, seen
    <2> QED
      BY <1>1, <2>1 DEF IInv, TypeOK, ReleaseInv, StsInv, SeenInv, At, Kept
  <1>3. CASE ~Fatal(pass)
    <2>1. WriteRelease(pass.disk) /\ ApplyJob /\ ApplyObserver
      BY <1>3 DEF Finish
    <2> QED
      BY <1>1, <2>1, Writes, Applies DEF IInv, TypeOK
  <1> QED
    BY <1>2, <1>3

\* A pass that breaks off has written the Release or not.
LEMMA Breaks ==
  ASSUME IInv, BreakOff
  PROVE  IInv' /\ Kept
  <1>1. /\ pass # None /\ pass' = None /\ pass.disk \in Sizes
        /\ UNCHANGED <<disk, explicit, tried, sts, volume>> /\ ApplyObserver
        /\ faults \subseteq faults' /\ faults' \subseteq Faults /\ "break" \in faults'
    BY Records DEF BreakOff, Fault, spec, IInv, TypeOK
  <1>2. ApplyJob \/ (ResizePVCs(pass) /\ UNCHANGED <<job, jobSeen>>)
    BY DEF BreakOff
  <1>3. CASE WriteRelease(pass.disk)
    BY <1>1, <1>2, <1>3, Writes, Applies
  <1>4. CASE UNCHANGED <<release, delays>>
    BY <1>1, <1>2, <1>4, Applies DEF IInv, TypeOK
  <1> QED
    BY <1>3, <1>4 DEF BreakOff

\* The user asks for more, or lets the plan decide.
LEMMA Resizes ==
  ASSUME IInv, NEW n \in Sizes, NEW e \in BOOLEAN, Resize(n, e)
  PROVE  IInv' /\ Kept
  <1>1. /\ n >= disk /\ disk' = n /\ explicit' \in BOOLEAN
        /\ UNCHANGED <<release, tried, sts, volume, job, jobSeen, watched, stsSeen, pass,
                       faults, delays>>
    BY DEF Resize, seen
  <1>2. \A k \in Sizes : k <= disk => k <= disk'
    BY <1>1, PvcResizeAssumption DEF IInv, TypeOK, Sizes
  <1>3. /\ job # None => job.size \in Sizes
        /\ pass # None => pass.disk \in Sizes
    BY Records DEF IInv
  <1>4. ReleaseInv' /\ SeenInv'
    BY <1>1, <1>2, <1>3 DEF IInv, ReleaseInv, SeenInv, At
  <1> QED
    BY <1>1, <1>4 DEF IInv, TypeOK, StsInv, Kept
-----------------------------------------------------------------------------
(* The job. *)

\* A job that goes on keeps its size.
LEMMA Moves ==
  ASSUME TypeOK, job # None, NEW pc \in Steps, Goto(pc)
  PROVE  job' \in Job /\ job' # None /\ job'.size = job.size /\ job'.pc = pc
  <1>1. job \in Job
    BY Records
  <1> QED
    BY <1>1, NoneAssumption DEF Goto, Job

\* So does one whose pod failed.
LEMMA Fails ==
  ASSUME TypeOK, job # None, PodFails
  PROVE  job' \in Job /\ job' # None /\ job'.size = job.size /\ job'.pc \in {"check", "failed"}
  <1>1. job \in Job
    BY Records
  <1>2. CASE job.failures = BackoffLimit
    <2>1. job' = [job EXCEPT !.pc = "failed"]
      BY <1>2 DEF PodFails
    <2> QED
      BY <1>1, <2>1, NoneAssumption DEF Job, Steps
  <1>3. CASE job.failures # BackoffLimit
    <2>1. job' = [job EXCEPT !.pc = "check", !.failures = job.failures + 1]
      BY <1>3 DEF PodFails
    <2>2. job.failures + 1 \in 0..BackoffLimit
      BY <1>1, <1>3, PvcResizeAssumption DEF Job
    <2> QED
      BY <1>1, <2>1, <2>2, NoneAssumption DEF Job, Steps
  <1> QED
    BY <1>2, <1>3

\* A job that is at work was not reported as done.
LEMMA NotDone ==
  ASSUME IInv, job # None, job.pc # "succeeded"
  PROVE  jobSeen # "succeeded" /\ (pass # None => pass.exists /\ pass.job # "succeeded")
  BY DEF IInv, SeenInv, At

\* A step of the job, given what it does to the Release and the StatefulSet.
LEMMA JobStep ==
  ASSUME IInv, job # None, job.pc # "succeeded",
         job' \in Job, job' # None, job'.size = job.size,
         UNCHANGED <<disk, explicit, tried, volume, jobSeen, watched, stsSeen, pass>>,
         faults \subseteq faults', faults' \subseteq Faults,
         delays' \subseteq DelayKinds, "behind" \in delays' => "behind" \in delays,
         release' = release \/ release' = Invalid \/ release' = job.size,
         sts' \in StatefulSet \cup {None}, StsInv'
  PROVE  IInv' /\ Kept
  <1>1. job.size \in Sizes
    BY Records DEF IInv
  <1>2. release' \in Sizes \cup {Invalid, None}
    BY <1>1 DEF IInv, TypeOK
  <1>3. TypeOK'
    BY <1>2 DEF IInv, TypeOK
  <1>4. job.size >= job.size
    BY <1>1, PvcResizeAssumption DEF Sizes
  <1>5. ReleaseInv'
    BY <1>4 DEF IInv, ReleaseInv
  <1>6. SeenInv'
    BY NotDone DEF IInv, SeenInv
  <1> QED
    BY <1>3, <1>5, <1>6 DEF IInv, Kept

\* The script and what goes wrong with its pod.
LEMMA Scripts ==
  ASSUME IInv, Script \/ Retry \/ LosePod
  PROVE  IInv' /\ Kept
  <1>1. /\ UNCHANGED <<disk, explicit, tried, volume, jobSeen, watched, stsSeen, pass>>
        /\ job # None
    BY DEF Script, Retry, LosePod, Check, DeleteSts, BreakRelease, PokeRelease, WaitForSts,
           LabelSts, At, system, seen, spec
  <1>2. /\ job \in Job /\ job.size \in Sizes
        /\ sts # None => sts \in StatefulSet /\ sts.size \in Sizes
    BY <1>1, Records DEF IInv
  <1>3. CASE Check
    <2>1. /\ job.pc = "check" /\ Goto(IF CheckSize THEN "succeeded" ELSE "delete")
          /\ UNCHANGED <<release, sts, faults, delays>>
      BY <1>3 DEF Check, At
    <2>2. CASE CheckSize
      <3>1. job' \in Job /\ job' # None /\ job'.size = job.size /\ job'.pc = "succeeded"
        BY <1>1, <2>1, <2>2, Moves DEF IInv, Steps
      <3>2. sts # None /\ sts.size >= job.size
        BY <1>2, <2>2, PvcResizeAssumption DEF CheckSize, Sizes
      <3>3. StsInv'
        BY <2>1, <3>1, <3>2 DEF StsInv
      <3> QED
        BY <1>1, <2>1, <3>1, <3>3, JobStep DEF IInv, TypeOK
    <2>3. CASE ~CheckSize
      <3>1. job' \in Job /\ job' # None /\ job'.size = job.size /\ job'.pc = "delete"
        BY <1>1, <2>1, <2>3, Moves DEF IInv, Steps
      <3>2. StsInv'
        BY <3>1 DEF StsInv
      <3> QED
        BY <1>1, <2>1, <3>1, <3>2, JobStep DEF IInv, TypeOK
    <2> QED
      BY <2>2, <2>3
  <1>4. CASE DeleteSts
    <2>1. job.pc = "delete" /\ Goto("break") /\ sts' = None /\ UNCHANGED <<release, faults, delays>>
      BY <1>4 DEF DeleteSts, At
    <2>2. job' \in Job /\ job' # None /\ job'.size = job.size /\ job'.pc = "break"
      BY <1>1, <2>1, Moves DEF IInv, Steps
    <2>3. StsInv'
      BY <2>1, <2>2 DEF StsInv
    <2> QED
      BY <1>1, <2>1, <2>2, <2>3, JobStep DEF IInv, TypeOK
  <1>5. CASE BreakRelease \/ PokeRelease \/ WaitForSts
    <2>1. PICK pc \in {"poke", "wait", "label"} :
            /\ Goto(pc) /\ job.pc \in {"break", "poke", "wait"} /\ UNCHANGED <<sts, faults>>
            /\ release' = release \/ release' = Invalid \/ release' = job.size
            /\ delays' \subseteq DelayKinds /\ ("behind" \in delays' <=> "behind" \in delays)
            /\ pc = "label" => sts # None
      BY <1>2, <1>5, Writes DEF BreakRelease, PokeRelease, WriteRelease, WaitForSts, At, IInv, TypeOK
    <2>2. job' \in Job /\ job' # None /\ job'.size = job.size /\ job'.pc = pc
      BY <1>1, <2>1, Moves DEF IInv, Steps
    <2>3. StsInv'
      BY <1>1, <2>1, <2>2 DEF IInv, StsInv
    <2> QED
      BY <1>1, <2>1, <2>2, <2>3, JobStep DEF IInv, TypeOK
  <1>6. CASE LabelSts
    <2>1. /\ job.pc = "label" /\ Goto("succeeded") /\ sts # None
          /\ sts' = [sts EXCEPT !.label = TRUE] /\ UNCHANGED <<release, faults, delays>>
      BY <1>6 DEF LabelSts, At
    <2>2. job' \in Job /\ job' # None /\ job'.size = job.size /\ job'.pc = "succeeded"
      BY <1>1, <2>1, Moves DEF IInv, Steps
    <2>3. sts' \in StatefulSet /\ sts'.size = sts.size
      BY <1>2, <2>1 DEF StatefulSet
    <2>4. sts' # None
      BY <2>3, NoneAssumption
    <2>5. StsInv'
      BY <1>1, <2>1, <2>2, <2>3, <2>4 DEF IInv, StsInv
    <2> QED
      BY <1>1, <2>1, <2>2, <2>3, <2>5, JobStep DEF IInv, TypeOK
  <1>7. CASE Retry \/ LosePod
    <2>1. /\ PodFails /\ job.pc # "succeeded" /\ UNCHANGED <<release, sts>>
          /\ faults \subseteq faults' /\ faults' \subseteq Faults
          /\ delays' \subseteq DelayKinds /\ ("behind" \in delays' => "behind" \in delays)
      BY <1>7 DEF Retry, LosePod, At, Fault, IInv, TypeOK, DelayKinds
    <2>2. job' \in Job /\ job' # None /\ job'.size = job.size /\ job'.pc \in {"check", "failed"}
      BY <1>1, <2>1, Fails DEF IInv
    <2>3. StsInv'
      BY <2>2 DEF StsInv
    <2> QED
      BY <1>1, <2>1, <2>2, <2>3, JobStep DEF IInv, TypeOK
  <1> QED
    BY <1>3, <1>4, <1>5, <1>6, <1>7 DEF Script
-----------------------------------------------------------------------------
(* The providers and controllers. *)

\* provider-helm makes a StatefulSet of the size in the Release, which is not too
\* small for a job at work unless a pass broke off.
LEMMA Deploys ==
  ASSUME IInv, HelmDeploy
  PROVE  IInv' /\ Kept
  <1>1. /\ release # None /\ tried' = release
        /\ UNCHANGED <<disk, explicit, release, volume, job, jobSeen, watched, stsSeen, pass,
                       faults>>
    BY DEF HelmDeploy, seen, spec
  <1>2. CASE release # Invalid /\ sts = None
    <2>1. release \in Sizes
      BY <1>1, <1>2 DEF IInv, TypeOK
    <2>2. /\ sts' = [size |-> release, ready |-> FALSE, label |-> FALSE]
          /\ delays' = delays \cup (IF Behind THEN {"behind"} ELSE {})
      BY <1>2 DEF HelmDeploy
    <2>3. sts' \in StatefulSet /\ sts'.size = release
      BY <2>1, <2>2 DEF StatefulSet
    <2>4. sts' # None
      BY <2>3, NoneAssumption
    <2>5. job # None => job.size \in Nat /\ release \in Nat
      BY <2>1, Records, PvcResizeAssumption DEF IInv, Sizes
    <2>6. StsInv'
      BY <1>1, <2>2, <2>3, <2>4, <2>5 DEF IInv, StsInv, Behind
    <2>7. delays' \subseteq DelayKinds /\ ReleaseInv'
      BY <1>1, <1>2, <2>2, <2>5 DEF IInv, TypeOK, DelayKinds, ReleaseInv, Behind
    <2> QED
      BY <1>1, <2>1, <2>3, <2>6, <2>7 DEF IInv, TypeOK, SeenInv, At, Kept
  <1>3. CASE ~(release # Invalid /\ sts = None)
    <2>1. UNCHANGED <<sts, delays>>
      BY <1>3 DEF HelmDeploy
    <2> QED
      BY <1>1, <2>1 DEF IInv, TypeOK, ReleaseInv, StsInv, SeenInv, At, Kept
  <1> QED
    BY <1>2, <1>3

\* Pods come and go, volumes grow, reports arrive.
LEMMA Providers ==
  ASSUME IInv, StsReady \/ StsUnready \/ ResizeVolume \/ ObserveSts \/ ObserveJob
  PROVE  IInv' /\ Kept
  <1>1. /\ UNCHANGED <<disk, explicit, release, tried, job, watched, pass, delays>>
        /\ faults \subseteq faults' /\ faults' \subseteq Faults
        /\ sts # None => sts \in StatefulSet /\ sts.size \in Sizes
    BY Records DEF StsReady, StsUnready, ResizeVolume, ObserveSts, ObserveJob, seen, spec,
                   Fault, IInv, TypeOK
  <1>2. /\ sts' = sts \/ (sts # None /\ sts' \in StatefulSet /\ sts'.size = sts.size)
        /\ volume' \in 0..MaxSize
    <2>1. sts # None => /\ sts.size \in 0..MaxSize
                        /\ \A b \in BOOLEAN : /\ [sts EXCEPT !.ready = b] \in StatefulSet
                                              /\ [sts EXCEPT !.ready = b].size = sts.size
      BY <1>1, PvcResizeAssumption DEF StatefulSet, Sizes
    <2> QED
      BY <2>1 DEF StsReady, StsUnready, ResizeVolume, ObserveSts, ObserveJob, IInv, TypeOK
  <1>3. stsSeen' \in StatefulSet \cup {None}
    BY DEF StsReady, StsUnready, ResizeVolume, ObserveSts, ObserveJob, seen, IInv, TypeOK
  <1>4. /\ jobSeen' \in Reports
        /\ jobSeen' = "succeeded" => jobSeen = "succeeded" \/ (job # None /\ job.pc = "succeeded")
    BY DEF StsReady, StsUnready, ResizeVolume, ObserveSts, ObserveJob, seen, IInv, TypeOK, Reports
  <1>5. TypeOK'
    BY <1>1, <1>2, <1>3, <1>4 DEF IInv, TypeOK
  <1>6. sts # None => sts' # None /\ sts'.size = sts.size
    BY <1>2, NoneAssumption
  <1>7. ReleaseInv' /\ StsInv' /\ SeenInv' /\ Kept
    BY <1>1, <1>2, <1>4, <1>6 DEF IInv, ReleaseInv, StsInv, SeenInv, At, Kept
  <1> QED
    BY <1>5, <1>7 DEF IInv
-----------------------------------------------------------------------------
(* The theorems. *)

\* Nothing is deployed yet.
LEMMA Initially == Init => IInv
  <1> SUFFICES ASSUME Init PROVE IInv
    OBVIOUS
  <1>1. 1 \in Sizes /\ 0 \in 0..MaxSize
    BY PvcResizeAssumption DEF Sizes
  <1>2. TypeOK
    BY <1>1 DEF Init, TypeOK, Reports
  <1> QED
    BY <1>2 DEF Init, IInv, ReleaseInv, StsInv, SeenInv, At

\* Every step keeps the invariant, and the job for as long as it is needed.
LEMMA Step == IInv /\ [Next]_vars => IInv' /\ [Kept]_vars
  <1> SUFFICES ASSUME IInv, [Next]_vars PROVE IInv' /\ [Kept]_vars
    OBVIOUS
  <1>1. CASE UNCHANGED vars
    BY <1>1 DEF vars, seen, spec, IInv, TypeOK, ReleaseInv, StsInv, SeenInv, At
  <1>2. CASE Next
    BY <1>2, Starts, Finishes, Breaks, Resizes, Scripts, Deploys, Providers DEF Next
  <1> QED
    BY <1>1, <1>2

\* Disk, Release, StatefulSet, job and reports keep their shape.
THEOREM TypeCorrect == Spec => []TypeOK
  <1>1. IInv => TypeOK
    BY DEF IInv
  <1> QED
    BY <1>1, Initially, Step, PTL DEF Spec

\* However late the reports are and whatever is lost, the function never takes
\* the job away while Redis has no StatefulSet, unless a plan sets the size, nor
\* while it has one that is too small for the job, unless a pass broke off.
THEOREM JobFinishes == Spec => JobDoesItsWork
  <1>1. IInv /\ [Next]_vars
        => [job # None /\ job' = None =>
              \/ ~pass.explicit
              \/ sts # None /\ (sts.size >= job.size \/ FellBehind)]_vars
    BY Step DEF Kept
  <1> QED
    BY <1>1, Initially, Step, PTL DEF Spec, JobDoesItsWork
============================================================================
