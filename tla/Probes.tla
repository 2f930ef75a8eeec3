------------------------------- MODULE Probes -------------------------------
(***************************************************************************)
(* The SLI exporter (pkg/sliexporter): the reconciler that decides for     *)
(* every service instance whether it is probed, and the probe manager that *)
(* runs one loop per prober and one goroutine per probe.                   *)
(*                                                                         *)
(* The reconciler makes several reads before it calls the manager, and the *)
(* instance may change between any two of them.  A loop learns of its      *)
(* cancellation only when it next looks, and a probe outlives its loop.    *)
(***************************************************************************)
EXTENDS Naturals, FiniteSets

CONSTANTS
  Names,       \* composites of one service: the keys of Manager.probers
  Probers,     \* bound: Prober objects that are not garbage yet
  Flights,     \* bound: goroutines running sendProbe
  None         \* no prober

ASSUME ProbesAssumption == None \notin Probers

VARIABLES
  inst,       \* composites, as the informer cache has them
  nsExists,   \* the instance namespace exists on the service cluster
  creds,      \* what fetching the credentials yields
  queue,      \* requests in the work queue
  timer,      \* requests to be added later (RequeueAfter)
  rec,        \* the call Reconcile is about to make, per instance
  probers,    \* Manager.probers: the prober whose CancelFunc is registered
  prober,     \* the Prober objects and their loops
  flight      \* the goroutines running sendProbe

envVars == <<inst, nsExists, creds>>
recVars == <<queue, timer, rec>>
runVars == <<prober, flight>>
vars == <<envVars, recVars, probers, runVars>>

Instance == [exists: BOOLEAN, deleting: BOOLEAN, secretRef: BOOLEAN,
             suspended: BOOLEAN, started: BOOLEAN]
Absent == [exists |-> FALSE, deleting |-> FALSE, secretRef |-> FALSE,
           suspended |-> FALSE, started |-> FALSE]

\* startFailing is StartProbe with a FailingProbe, after which Reconcile asks
\* to be called again.
Recs == {"idle", "stop", "namespace", "fetch", "start", "startFailing"}

\* loop: "none" (no object), "running", "done" (Close was called).
Prober == [name: Names, failing: BOOLEAN, cancelled: BOOLEAN,
           loop: {"running", "done"}, probeRunning: BOOLEAN]
NoProber == [loop |-> "none", cancelled |-> TRUE]

\* stage: "none", "probing", "failed" (Probe returned an error), and the
\* verdict of sendProbe until it is recorded.  ctxErr is ctx.Err().  late: the
\* prober was cancelled before the probe began.
Verdicts == {"success", "fail-timeout", "fail-unknown", "canceled"}
Flight == [of: Probers, stage: {"probing", "failed"} \cup Verdicts,
           ctxErr: {"nil", "deadline", "canceled"}, late: BOOLEAN]
NoFlight == [of |-> None, stage |-> "none"]
-----------------------------------------------------------------------------
(* The probe manager. *)

InFlight(p) == {f \in Flights : flight[f].of = p}

NewProber(n, failing) ==
  [name |-> n, failing |-> failing, cancelled |-> FALSE, loop |-> "running",
   probeRunning |-> FALSE]

\* A prober whose loop is over is garbage once no probe of it is in flight.
Collected(p, pr, inFlight) ==
  IF pr.loop = "done" /\ inFlight = {} THEN [prober EXCEPT ![p] = NoProber]
  ELSE [prober EXCEPT ![p] = pr]

\* CancelFunc: the context of the loop and of its probes.
CancelledProbers(q) ==
  IF q = None THEN prober ELSE [prober EXCEPT ![q].cancelled = TRUE]
CancelledFlights(q) ==
  [f \in Flights |-> IF q # None /\ f \in InFlight(q) /\ flight[f].ctxErr = "nil"
                     THEN [flight[f] EXCEPT !.ctxErr = "canceled"] ELSE flight[f]]

\* Mutant: the running prober is replaced but not cancelled.
StartProbe_NoCancel(n, failing) ==
  \E p \in Probers :
    /\ prober[p] = NoProber
    /\ prober' = [prober EXCEPT ![p] = NewProber(n, failing)]
    /\ probers' = [probers EXCEPT ![n] = p]
    /\ UNCHANGED flight

\* Mutant: a prober that runs is kept.
StartProbe_KeepOld(n, failing) ==
  IF probers[n] # None THEN UNCHANGED <<probers, runVars>>
  ELSE StartProbe_NoCancel(n, failing)

StartProbe(n, failing) ==
  \E p \in Probers :
    /\ prober[p] = NoProber
    /\ prober' = [CancelledProbers(probers[n]) EXCEPT ![p] = NewProber(n, failing)]
    /\ flight' = CancelledFlights(probers[n])
    /\ probers' = [probers EXCEPT ![n] = p]

StopProbe(n) ==
  /\ prober' = CancelledProbers(probers[n])
  /\ flight' = CancelledFlights(probers[n])
  /\ probers' = [probers EXCEPT ![n] = None]

\* Mutant: a tick spawns a probe whether or not one is running.
MaySpawn_Always(p) == TRUE

\* probeRunning.CompareAndSwap(false, true)
MaySpawn(p) == ~prober[p].probeRunning

\* runProbe takes a tick.  It may do so although the context is done: select
\* chooses among the cases that are ready.
TickLoop(p) ==
  /\ prober[p].loop = "running"
  /\ MaySpawn(p)
  /\ \E f \in Flights :
       /\ flight[f] = NoFlight
       /\ flight' = [flight EXCEPT ![f] =
            [of |-> p, stage |-> "probing", late |-> prober[p].cancelled,
             ctxErr |-> IF prober[p].cancelled THEN "canceled" ELSE "nil"]]
  /\ prober' = [prober EXCEPT ![p].probeRunning = TRUE]
  /\ UNCHANGED <<envVars, recVars, probers>>

\* runProbe sees ctx.Done(): it returns, Close is called.
EndLoop(p) ==
  /\ prober[p].loop = "running" /\ prober[p].cancelled
  /\ prober' = Collected(p, [prober[p] EXCEPT !.loop = "done"], InFlight(p))
  /\ UNCHANGED <<envVars, recVars, probers, flight>>

\* The five seconds of sendProbe are over.
Deadline(f) ==
  /\ flight[f].stage = "probing" /\ flight[f].ctxErr = "nil"
  /\ flight' = [flight EXCEPT ![f].ctxErr = "deadline"]
  /\ UNCHANGED <<envVars, recVars, probers, prober>>

\* Probe returns nil or an error; a FailingProbe always returns an error.  Not
\* every prober looks at its context, so either may happen at any time.
ProbeReturns(f) ==
  /\ flight[f].stage = "probing"
  /\ \/ flight' = [flight EXCEPT ![f].stage = "failed"]
     \/ /\ ~prober[flight[f].of].failing
        /\ flight' = [flight EXCEPT ![f].stage = "success"]
  /\ UNCHANGED <<envVars, recVars, probers, prober>>

\* Mutant: a canceled probe counts as a failure.
Verdict_NoCanceled(ctxErr) ==
  IF ctxErr = "deadline" THEN "fail-timeout" ELSE "fail-unknown"

\* The cases of sendProbe's switch for err # nil (nothing returns ErrTimeout).
Verdict(ctxErr) ==
  CASE ctxErr = "deadline" -> "fail-timeout"
    [] ctxErr = "canceled" -> "canceled"
    [] OTHER               -> "fail-unknown"

Classify(f) ==
  /\ flight[f].stage = "failed"
  /\ flight' = [flight EXCEPT ![f].stage = Verdict(flight[f].ctxErr)]
  /\ UNCHANGED <<envVars, recVars, probers, prober>>

\* Observe (or, for "canceled", a line in the log), and the end of the
\* goroutine: probeRunning.Store(false).
Record(f) ==
  /\ flight[f].stage \in Verdicts
  /\ flight' = [flight EXCEPT ![f] = NoFlight]
  /\ LET p == flight[f].of
     IN prober' = Collected(p, [prober[p] EXCEPT !.probeRunning = FALSE], InFlight(p) \ {f})
  /\ UNCHANGED <<envVars, recVars, probers>>
-----------------------------------------------------------------------------
(* The reconciler. *)

GoTo(n, call) == rec' = [rec EXCEPT ![n] = call]

\* Mutant: a suspended instance is treated like any other.
AfterGet_NoSuspend(i) ==
  IF ~i.exists \/ i.deleting THEN "stop"
  ELSE IF ~i.secretRef THEN "idle"
  ELSE IF ~i.started THEN "idle"
  ELSE "namespace"

\* What Reconcile does with the instance it read.
AfterGet(i) ==
  IF ~i.exists \/ i.deleting THEN "stop"
  ELSE IF ~i.secretRef THEN "idle"
  ELSE IF i.suspended THEN "stop"
  ELSE IF ~i.started THEN "idle"
  ELSE "namespace"

\* Reconcile asks to be called when the startup grace period is over.
WaitsForStart(i) ==
  i.exists /\ ~i.deleting /\ i.secretRef /\ ~i.suspended /\ ~i.started

Get(n) ==
  /\ rec[n] = "idle" /\ n \in queue
  /\ queue' = queue \ {n}
  /\ GoTo(n, AfterGet(inst[n]))
  /\ timer' = IF WaitsForStart(inst[n]) THEN timer \cup {n} ELSE timer
  /\ UNCHANGED <<envVars, probers, runVars>>

Stop(n) ==
  /\ rec[n] = "stop"
  /\ StopProbe(n)
  /\ GoTo(n, "idle")
  /\ UNCHANGED <<envVars, queue, timer>>

\* No namespace: nothing is done, and nothing is scheduled.
CheckNamespace(n) ==
  /\ rec[n] = "namespace"
  /\ GoTo(n, IF nsExists[n] THEN "fetch" ELSE "idle")
  /\ UNCHANGED <<envVars, queue, timer, probers, runVars>>

FetchProber(n) ==
  /\ rec[n] = "fetch"
  /\ GoTo(n, IF creds[n] = "found" THEN "start" ELSE "startFailing")
  /\ UNCHANGED <<envVars, queue, timer, probers, runVars>>

\* Mutant: no second look after a failing probe.
RetryFailing_Never(n) == timer

RetryFailing(n) == timer \cup {n}

Start(n) ==
  /\ rec[n] \in {"start", "startFailing"}
  /\ StartProbe(n, rec[n] = "startFailing")
  /\ timer' = IF rec[n] = "startFailing" THEN RetryFailing(n) ELSE timer
  /\ GoTo(n, "idle")
  /\ UNCHANGED <<envVars, queue>>

\* A read fails: the error is returned and the request comes back.
ReadFails(n) ==
  /\ rec[n] \in {"namespace", "fetch"}
  /\ GoTo(n, "idle")
  /\ queue' = queue \cup {n}
  /\ UNCHANGED <<envVars, timer, probers, runVars>>

\* A timer runs out.
Requeue(n) ==
  /\ n \in timer
  /\ timer' = timer \ {n} /\ queue' = queue \cup {n}
  /\ UNCHANGED <<envVars, rec, probers, runVars>>

\* The informer's periodic resync.
Resync(n) ==
  /\ inst[n].exists
  /\ queue' = queue \cup {n}
  /\ UNCHANGED <<envVars, timer, rec, probers, runVars>>
-----------------------------------------------------------------------------
(* The cluster. *)

\* A change of the composite, which the informer reports.
Change(n, i) ==
  /\ inst' = [inst EXCEPT ![n] = i]
  /\ queue' = queue \cup {n}
  /\ UNCHANGED <<nsExists, creds, timer, rec, probers, runVars>>

Create(n) ==
  /\ ~inst[n].exists
  /\ Change(n, [Absent EXCEPT !.exists = TRUE])
SetSecretRef(n) ==
  /\ inst[n].exists
  /\ \E b \in BOOLEAN \ {inst[n].secretRef} : Change(n, [inst[n] EXCEPT !.secretRef = b])
Suspend(n) ==
  /\ inst[n].exists
  /\ \E b \in BOOLEAN \ {inst[n].suspended} : Change(n, [inst[n] EXCEPT !.suspended = b])
MarkDeleted(n) ==
  /\ inst[n].exists /\ ~inst[n].deleting
  /\ Change(n, [inst[n] EXCEPT !.deleting = TRUE])
Remove(n) ==
  /\ inst[n].deleting
  /\ Change(n, Absent)

\* The startup grace period passes: nobody is told.
GracePasses(n) ==
  /\ inst[n].exists /\ ~inst[n].started
  /\ inst' = [inst EXCEPT ![n].started = TRUE]
  /\ UNCHANGED <<nsExists, creds, recVars, probers, runVars>>

\* The namespace and the credentials come and go: nobody is told.
SetNamespace(n) ==
  /\ nsExists' = [nsExists EXCEPT ![n] = ~@]
  /\ UNCHANGED <<inst, creds, recVars, probers, runVars>>
SetCreds(n) ==
  /\ creds' = [creds EXCEPT ![n] = IF @ = "found" THEN "missing" ELSE "found"]
  /\ UNCHANGED <<inst, nsExists, recVars, probers, runVars>>
-----------------------------------------------------------------------------
Init ==
  /\ inst = [n \in Names |-> Absent]
  /\ nsExists = [n \in Names |-> FALSE]
  /\ creds = [n \in Names |-> "missing"]
  /\ queue = {} /\ timer = {}
  /\ rec = [n \in Names |-> "idle"]
  /\ probers = [n \in Names |-> None]
  /\ prober = [p \in Probers |-> NoProber]
  /\ flight = [f \in Flights |-> NoFlight]

Reconcile(n) ==
  Get(n) \/ Stop(n) \/ CheckNamespace(n) \/ FetchProber(n) \/ Start(n)
Cluster(n) ==
  \/ Create(n) \/ SetSecretRef(n) \/ Suspend(n) \/ MarkDeleted(n) \/ Remove(n)
  \/ SetNamespace(n) \/ SetCreds(n)
Probing(f) == ProbeReturns(f) \/ Classify(f) \/ Record(f)

Next ==
  \/ \E n \in Names : \/ Reconcile(n) \/ ReadFails(n) \/ Requeue(n) \/ Resync(n)
                      \/ Cluster(n) \/ GracePasses(n)
  \/ \E p \in Probers : TickLoop(p) \/ EndLoop(p)
  \/ \E f \in Flights : Deadline(f) \/ Probing(f)

Spec == Init /\ [][Next]_vars

\* Goroutines run, probes return, timers run out, the informer resyncs, and a
\* read that is tried again and again succeeds in the end.
FairSpec ==
  /\ Spec
  /\ \A n \in Names : /\ WF_vars(Get(n)) /\ WF_vars(Stop(n)) /\ WF_vars(Requeue(n))
                      /\ WF_vars(Start(n))
                      /\ SF_vars(CheckNamespace(n)) /\ SF_vars(FetchProber(n))
                      /\ WF_vars(Resync(n)) /\ WF_vars(GracePasses(n))
  /\ \A p \in Probers : WF_vars(EndLoop(p))
  /\ \A f \in Flights : WF_vars(Probing(f))
-----------------------------------------------------------------------------
(* Properties. *)

TypeOK ==
  /\ inst \in [Names -> Instance]
  /\ nsExists \in [Names -> BOOLEAN] /\ creds \in [Names -> {"found", "missing"}]
  /\ queue \in SUBSET Names /\ timer \in SUBSET Names
  /\ rec \in [Names -> Recs]
  /\ probers \in [Names -> Probers \cup {None}]
  /\ prober \in [Probers -> Prober \cup {NoProber}]
  /\ flight \in [Flights -> Flight \cup {NoFlight}]

\* No loop is lost: a prober that is not cancelled is the one registered for
\* its instance, so StopProbe and StartProbe can still reach it.
NoLostLoop ==
  \A p \in Probers : ~prober[p].cancelled => /\ prober[p].loop = "running"
                                             /\ probers[prober[p].name] = p

\* A loop has at most one probe in flight (the guard probeRunning), and a
\* prober in use is never taken for another.
OneProbePerLoop ==
  \A p \in Probers : /\ Cardinality(InFlight(p)) <= 1
                     /\ InFlight(p) # {} <=> prober[p] # NoProber /\ prober[p].probeRunning

\* A probe that began after its prober was stopped is never recorded as a
\* failure of the service.
StoppedNeverFails ==
  \A f \in Flights : flight[f].stage \in {"fail-timeout", "fail-unknown"} => ~flight[f].late

\* An instance that is not to be probed.
Ended(i) == ~i.exists \/ i.deleting \/ (i.secretRef /\ i.suspended)

\* Nothing is scheduled for instance n.
Quiet(n) == n \notin queue /\ n \notin timer /\ rec[n] = "idle"

\* An instance that is gone, deleted or suspended is not probed once the
\* reconciler has nothing more to do, whatever it was doing meanwhile.
QuietMeansStopped ==
  \A n \in Names : Quiet(n) /\ Ended(inst[n]) => probers[n] = None

\* A failing probe stands in for missing credentials until they are there:
\* it is never left behind without another look at them, unless the instance
\* lost its namespace or its reference to the credentials.
FailingIsRetried ==
  [][\A n \in Names :
       /\ ~Quiet(n) /\ Quiet(n)'
       /\ probers'[n] # None /\ prober'[probers'[n]].failing
       => ~inst[n].secretRef \/ ~nsExists[n]]_vars

\* Everything an instance needs to be probed is there.
Ready(n) ==
  /\ inst[n].exists /\ ~inst[n].deleting /\ inst[n].secretRef
  /\ ~inst[n].suspended /\ nsExists[n] /\ creds[n] = "found"

Probed(n) == probers[n] # None /\ ~prober[probers[n]].failing

\* An instance that stays ready is probed with its credentials in the end.
ReadyIsProbed == \A n \in Names : Ready(n) ~> (Probed(n) \/ ~Ready(n))

\* "This caps in-flight probes to 1 per instance at all times."
OneProbePerInstance ==
  \A f, g \in Flights : /\ flight[f] # NoFlight /\ flight[g] # NoFlight
                        /\ prober[flight[f].of].name = prober[flight[g].of].name
                        => f = g

\* "pa is stopped; its tick should be ignored"
StoppedTickIgnored == \A f \in Flights : flight[f] # NoFlight => ~flight[f].late
-----------------------------------------------------------------------------
(* The inductive invariant behind the safety properties. *)

\* Whoever is registered runs, for the instance it is registered for.
RegisteredRuns ==
  \A n \in Names : probers[n] # None =>
    ~prober[probers[n]].cancelled /\ prober[probers[n]].name = n

\* A prober is busy exactly as long as one probe of it is in flight.
BusyInv ==
  /\ \A f \in Flights : flight[f].of \in Probers =>
       prober[flight[f].of] # NoProber /\ prober[flight[f].of].probeRunning
  /\ \A p \in Probers : prober[p] # NoProber /\ prober[p].probeRunning =>
       \E f \in Flights : flight[f].of = p
  /\ \A f, g \in Flights : flight[f].of \in Probers /\ flight[f].of = flight[g].of => f = g

\* The context of a late probe was done before anything else could happen to it.
LateInv ==
  \A f \in Flights : flight[f].of \in Probers /\ flight[f].late =>
    flight[f].ctxErr = "canceled" /\ flight[f].stage \notin {"fail-timeout", "fail-unknown"}

\* An instance that is to be stopped is stopped already, or will be looked at.
EndedInv ==
  \A n \in Names : Ended(inst[n]) =>
    n \in queue \/ rec[n] = "stop" \/ (rec[n] = "idle" /\ probers[n] = None)

IInv == TypeOK /\ NoLostLoop /\ RegisteredRuns /\ BusyInv /\ LateInv /\ EndedInv
=============================================================================
