# AppCat in TLA+

AppCat is a set of Kubernetes programs that provision and operate managed services (databases, object stores,
applications). It has little state in memory and much of it in the API server, so its difficult parts are of one
kind: a controller, a webhook or a function reads something, decides, and acts a little later, while other
controllers, users and the clock go on. This project models seven such parts, checks them with TLC on small instances
and proves facts about all of them with TLAPS for instances of any size.

Contents: [inventory](#inventory) · [modules](#the-modules-and-the-code) · [runs](#runs) · [fairness](#fairness) ·
[proofs](#proofs) · [disagreements with the code's own words](#disagreements-between-the-code-and-its-own-words) ·
[what is not modelled](#what-is-not-modelled) · [plan](#plan)

`PROJECT.json` lists components, runs, mutants, findings, hazards and theorems, and maps every definition to the
source lines it stands for. Definitions marked `external` there model Crossplane, the providers, the API server or
users, from the way the code here relies on them.

## Inventory

| Component | State | Operations | Talks to | What is hard |
|---|---|---|---|---|
| Billing controller (`pkg/controller/billing`, `pkg/odoo`) | the queue of events in `BillingService.status`; the work queue; a local copy during `Reconcile` | enqueue create, scale and delete events, prune, resend, deliver one per pass, mark it sent, drop the finalizer | API server, informer cache, Odoo | two systems without a transaction; conflicts, stale reads, crashes, lost answers |
| Billing composition (`functions/common/billing_service.go`) | none | writes the spec of the `BillingService` | provider-kubernetes | changes the spec while events are under way |
| SLI exporter, reconciler (`pkg/sliexporter/sli_reconciler`) and six service controllers | work queue, timers | start, replace or stop the prober of an instance | informer, service cluster, probe manager | several reads before one decision; nothing watches namespaces and secrets |
| SLI exporter, probe manager (`pkg/sliexporter/probes`) | a map of cancel functions, one loop per prober, one goroutine per probe | `StartProbe`, `StopProbe`, ticks, verdicts | the probed services | goroutines that outlive their cancellation |
| SLI exporter, maintenance flag (`maintenance_controller`) | one atomic flag | computed from all UpgradeJobs | read when a probe is recorded | deletion and failed lists |
| TCP gateway webhook (`pkg/controller/webhooks/tcpgateway`) | Leases, one per port | choose a gateway and a port when an XListenerSet is created | API server, its cache | concurrent requests, leases of requests that failed |
| TCP route composition (`functions/common/tcproute`) | none | writes the XListenerSet, reads port and gateway back | provider-kubernetes | desired state computed from a late observation |
| Composition runtime (`comp-functions/runtime`) | none: observed in, desired out | desired resources, Usages, readiness, unwrapping of old Objects | Crossplane | what is not desired is deleted |
| User management (MariaDB, PostgreSQL) | none | users, databases, grants, one after the other | runtime, provider-sql | gates on readiness |
| Composition functions of the services, common helpers | none, but the status of the composite | what is desired, as a function of what was observed | runtime, deletion protection | a step that ends early leaves resources out |
| Growing of Redis volumes (`vshnredis/pvcresize.go`, `script/recreate.sh`) | a Release, a job, a StatefulSet | start a job that deletes the StatefulSet and has it deployed again | provider-helm, provider-kubernetes | function, job and provider write to one Release |
| Deletion protection webhooks | none | allow or deny a deletion | control plane and service cluster | a denied deletion ends the pass |
| Admission webhooks of the services | none | allow or deny a change | quotas, API server | transitions of one object |
| Maintenance job and hotfixer (`pkg/maintenance`, `cmd/maintenance.go`, `cmd/hotfixreleaser.go`, `functions/common/maintenance`) | progress of one job; `status.initialMaintenance` | wait for backups, choose and set the composition revision, choose and patch the version | API server, registries, the composition function | claim and Release have several writers; retries, timeouts, a job that is dropped |
| Garage bucket cleanup, event forwarder, metrics | none | empty a bucket; copy events; count | S3, API server | order of deletions |
| API server, SLA reports, generated code, commands | none | read only or batch | | |

The parts meet in the API server: the composition writes a `BillingService` or an XListenerSet through
provider-kubernetes, a controller or webhook completes it, and the composition reads the result in a later pass. Each
module therefore contains the neighbour that makes its component hard, and none shares variables with another one.

What makes each modelled component correct:

* **Billing.** What the status calls delivered was delivered; nothing undelivered is ever dropped; at rest Odoo bills
  what the spec says and has been told of every end; the controller comes to rest and a deleted resource goes away.
* **Probes.** No loop runs that nobody can stop; one probe per loop; a stopped prober never records a failure; at rest
  exactly the instances that should be probed are; an instance that stays ready gets its probe.
* **TCP gateway.** No two services share a port; a stored XListenerSet keeps its lease; it is never moved.
* **Composition.** A pass never deletes what is asked for; "ready" means everything asked for was ready; a Usage in
  force survives its migration; everything asked for comes to exist.
* **Services.** Data and keys are never deleted; no change of settings and no outage locks a deployed instance; "ready"
  means deployed, ready and reachable; nothing is deployed before what it builds on; every instance settles.
* **Maintenance.** No edit of the claim is lost, no revision is rolled back, no version is lowered except by a pin or a
  late writer; nobody builds on an instance before its first maintenance; every instance gets its revision and version.
* **Growing of volumes.** The StatefulSet comes back whatever is lost; the volumes get the size that was asked for.

## The modules and the code

### `Billing.tla`

`srv` is the stored `BillingService`, `cache` the informer's copy, `obj` the copy `Reconcile` works on. `fresh` and
`cacheFresh` say whether these carry the current resource version, which is all an update compares. `pc` is the next
call that leaves the process; everything `Reconcile` computes between two calls happens in one step (the `Enter...`
operators follow its early returns and loops to the next call). So `SetSalesOrder`, `AddFinalizer`, `HandleResend`,
`DropAnnotation`, `CreateItem`, `ScaleItem`, `RemoveItem`, `DeleteItem`, `SendEvent`, `PersistSent`, `SaveFailed`,
`FailStatus`, `RemoveFinalizer` and `UpdateStatus` are each one write or request; `WriteFails`, `PersistConflict`,
`PersistNotFound`, `SendFails` and `Crash` are their failures.

* Events are a set of records; `seq` stands for the position in the list (newest first). Timestamps are whole seconds
  because that is how the API server stores `metav1.Time`; `Pauses` are the seconds that may pass when one is enqueued,
  0 included where two events may share a second.
* `Starts` gives the resource its first items and bounds the edits and faults of the run. Items are added, dropped, listed
  again and given new values (`Rescales`) at any time.
* Three variables are history, which only properties read: `dropped`, the items that the spec ever dropped; `past`, which
  value of an item came before which; `early`, the instances that were at some time not listed while none of their events
  was a size marked as sent or a delete (`Untold`). The latter is what `delete.go:41` and `remove.go:20` go by: an instance
  without a sent size is passed over, because its create is still to be delivered (or sent again), or because pruning with a
  `MaxEvents` of 1 removed the last sent size.
* The informer may skip versions. Status writes do not pass the watch predicates (`Wakes`), so a pass that leaves work
  behind must requeue itself (`NeedsRequeue`).
* The state `superseded` exists in the API type but nothing sets it. `RetryCount`, `LastAttemptTime` and
  `ObservedGeneration` influence nothing and are left out, and so is the `AddFinalizer` call of `handleDeletion`, which
  cannot change an object under deletion. Items are visited in any order (the code iterates over lists and maps).
* A lookup of the sales order is one call that may fail. A write that changes nothing still makes other copies stale,
  which adds conflicts the API server would not report and removes none.
* Odoo is the set of messages it received; it is taken to order what it bills by their timestamps.

### `Probes.tla`

`inst` is the informer's view of the composites, `rec` the next call of `Reconcile` per instance (controller-runtime
never runs two for one key), `probers` the manager's map, `prober` the Prober objects with their loops, `flight` the
goroutines in `sendProbe`. `TickLoop` may be taken although the context is done, since `select` chooses among ready
cases. `Deadline`, `ProbeReturns`, `Classify` and `Record` separate the moments at which the context error, the
result and the verdict are fixed. Not every prober looks at its context (the MinIO one does not), so a probe may
return at any time with or without an error; nothing in the repository returns `ErrTimeout`.
`Probers` and `Flights` bound the objects alive at a time; a step that needs one waits.

### `TcpGateway.tla`

A request goes through `list` (`Handle`: list, `SelectGateway`, scan), `lease`, `get`, `holder`, `delete`, `again`
and `persist`; each is one API call. `Fail` ends it anywhere: denied, timed out, refused by another webhook, or a dry run.
XListenerSets are unstructured and read live, Leases come from the cache, so `GetLease` may find nothing. The check of
the holder and of the age is one step. `Compose` and `ReadBack` are `AddTCPRoute`, which sees only what `Observe` last
reported; `Apply` is provider-kubernetes, which updates when the manifest differs from the last applied one.
An XListenerSet has one listener, as the composition writes it, and every configured gateway is allowed.
UIDs come from a pool and are reused only when nobody remembers them. The clock bounds a request (`MaxRequest`) below
the grace period (`Grace`, 30 s): the webhook sets no timeout, so the API server waits the default 10 s for it.

### `PortAllocation.tla`: what the TCP gateway promises

The abstract specification knows only `place`, the port and the gateway of every exposed service: `Allocate` takes a port
nobody has, `Release` gives it back, and nothing else ever changes. `TcpGateway!Allocation` is the refinement mapping:
the place of a service is that of its stored XListenerSet (the port of the annotation, else that of the listener),
so `Persist` implements `Allocate`, `DeleteXls` implements `Release`, and every step of a request, of the leases, of
the readback and of provider-kubernetes is a stutter. `ImplementsAllocation` is this claim.

### `Composition.tla`

`RunFunction` takes a snapshot and computes the answer; the function is pure, so this is one step. `Finish` or
`BreakOff` ends the pass: what is observed and not desired is deleted, then the rest is applied, and with `BreakOff`
only some of it. A denied deletion ends the pass. `AddsDatabase`, `AddsGrants` and `UserManagement` are the step of
MariaDB; `Usages` and `UnwrapUsage` are `UsageOfBy`, `addUsages` and `unwrapUsage`; `CheckReadiness` is
`checkReadiness`. A Usage is `new` until Crossplane gave it a finalizer and its owner (`owned`); the webhook of
Crossplane then denies the deletion of the credentials. `Init` has every access list with everything it asks for,
from an older version that wrapped Usages into Objects or from one that does not.
Passwords, connection secrets and provider configs are left out: no gate depends on them here. The deletion of the
composite itself is not modelled; functions are not run then.

### `Pipelines.tla` and `Services.tla`

`Pipelines` has no state: `Respond` is the pure function from a request (`Snapshot`) to an answer (`Answer`) of the
pipelines of ten services (StackGres, CloudNativePG, Keycloak, Nextcloud, Redis, MariaDB, Forgejo, MinIO, OpenBao,
Garage), one operator for each step whose answer depends on what it observes. A step that returns a warning keeps what
it desired so far, and the following steps run all the same; a fatal result has no answer, and none of the modelled
conditions leads to one. Resources that every pass desires are left out; "profile", "credentials" or "pg" stand for
groups that are desired together. `render` says how the main resource looks where a property asks for it.

`Services` is the life of one composite: `RunFunction` takes the snapshot and computes the answer; later `Finish`
deletes what is not desired, applies the rest and writes status and condition. If a webhook denies a deletion
(`Denied`: no allow-deletion label, or the retention of a bucket is not over) Crossplane stops there (`FinishDenied`),
having deleted some of the others; `BreakOff` applies any part of the answer and no status. The providers make
resources ready (`BecomeReady`, in the order given by `Needs`), bare (ready without connection details, `BecomeBare`) or
unready; the endpoint outside the cluster becomes known and covered by the certificate; the user toggles backups and
changes the number of instances. Encryption and restores are fixed when the instance is created, as in the API.

* The label on a bucket records *that* backups are disabled; `Expire` ends the retention at any later time. Function and
  webhook agree on that time, which is so with `KeepDaily` 6; see below for other values.
* MariaDB and StackGres are not in `Breaking`. A MariaDB pass that ends between ProxySQL and the status locks the instance,
  see below. A StackGres pass that ends between the pod monitor and the certificate leaves an instance that is not deployed
  yet; if backups are enabled then, it is locked before it ever was, so that `EventuallySettled` fails.
* External access starts unknown (`waiting`) for Redis and MariaDB; both ways of exposing them behave the same here.

### `PvcResize.tla`

One action per call of `script/recreate.sh`, `RunFunction` and `Finish` for the step `ResizePVCs`, and the providers:
`HelmDeploy` deploys only when the values differ from the last ones it tried, and an upgrade that would change the size of
an existing StatefulSet fails. The function sees the job and the StatefulSet as last reported (`ObserveJob`,
`ObserveSts`); the template of an existing job does not change. `disk` is the size in effect and `explicit` says whether
`size.disk` sets it: if not, the plan does, and `ResizePVCs` returns at once (`pvcresize.go:34`), so that neither job nor
observer is desired. `Resize` is what `ValidateDiskDownsizing` lets through, from a given size to a plan and back. A failed
pod (`Retry` after five minutes, `LosePod`) is replaced `BackoffLimit` times, as Kubernetes does; the job of the code sets no limit,
so it is 6 there. Then the job has `failed` and stays. `Faults` are a pod of the job that is lost anywhere
(`LosePod`), a pass that ends between any of its writes (`BreakOff`) and unready pods of Redis, once each. provider-helm may be
late as often as it likes; the history `delays` says how it was. Sizes are ranks with one notation each (`recreate.sh:36` compares
strings); sizes that cannot be parsed only occur as the "foo" of the script (`Invalid`).

### `Maintenance.tla`

One action per call of a run: `WaitForRunningBackups`, `GetLatestRevision`, `GetClaim`, `UpdateClaim`, `GetVersions`,
`GetRelease`, `PatchRelease`. There are three runs: the job of a new instance, the weekly job (whatever started in an
earlier week is taken to be over) and the hotfixer, which takes the newest revision of any age and does not wait for
backups. A failed attempt is started again `Retries` times with the environment of the job (the backoff limits are 1 and
6; one bound stands for both); the hotfixer ends at its first error. The claim is updated as a whole with the
resourceVersion that was read (`fresh` says that it is still the current one); the Release is patched without. Between
`PassStarts` and `PassEnds` the composition function has its snapshot of claim, Release and job: it answers with a tag
(`SetReleaseVersion`), the environment of the jobs, the job of the new instance until 30 minutes after it was
*triggered* (`KeepsInitialJob`), and its readiness. `source` says what tag the values of the chart hold before that
(`DesiredTag`): none, the version of the claim (Redis, Forgejo), or the fixed tag of an image mirror (Redis,
`redis_deploy.go:325`); that tag wins unless the observed one is higher. Revisions and versions are numbers, 0 is "not set".

* The tag of the mirror is not below the versions that are asked for. If it were, a claim edited to a higher version would
  stay at it (`maintenance.go:612` compares with the observed tag only) until a maintenance job patches the Release.
* An update that changes nothing makes other copies stale here; the API server would not report these conflicts.
* Left out: a schedule that is not populated yet, a job that cannot be created, a maintenance config that cannot be read
  (`cmd/maintenance.go:138` goes on with the defaults), the waiters of StackGres and CloudNativePG, services
  without an image tag in a Helm release, how tags are parsed. A claim and a composite without one behave alike.

## Runs

All passing runs explore the complete state space of their instance. Each property is paired with a mutant of the
code it depends on, defined next to the definition it replaces, which violates it.

| Run | Shows | Instance |
|---|---|---|
| `billing_values` | whatever is sent was delivered (`SentWasDelivered`, `SentEventWasDelivered`), no undelivered event is lost (`BacklogNeverDropped`), at rest everything is delivered and billed at the value of the spec (`QuietMeansSynced`, `QuietMeansBilled`) | one item, three values that only grow, events in one second or in two, all resend modes, deletion with a grace period, two attempts to persist, three edits, one fault |
| `billing_items` | items are dropped, and listed again, before or after they were delivered: dropped instances are ended at Odoo (`QuietMeansEnded`) and those never dropped are not (`EndedWasDropped`), a resource that is gone was ended (`GoneMeansDeleted`); the controller comes to rest (`EventuallyQuiet`), a deleted resource goes away (`DeletedGoesAway`) | two items, one value, all events in one second, a grace period, two edits, one fault if the second item is added later, `FairSpec` |
| `billing_rescale` | *violation*: a value that returns is not billed | values v1, v2 and back |
| `probes_loops` | `NoLostLoop`, `OneProbePerLoop`, `StoppedNeverFails`, `QuietMeansStopped`, `FailingIsRetried` | one instance, two probers, two probes in flight |
| `probes_live` | an instance that stays ready is probed with its credentials (`ReadyIsProbed`) | one instance, two probers, probes in flight left out |
| `tcpgateway_ports` | `PortIsLeased` and `NeverMoved`; the webhook implements `PortAllocation` (`ImplementsAllocation`), so ports are unique | two services, two requests, two ports, two gateways of one listener each |
| `composition` | `ReadyMeansComplete`, `KeepsWanted`, `UsageSurvives`, `EventuallyComplete` | two users of one database, Usages wrapped or not, one edit, one fault |
| `services` | `LockedOnlyIfKnown`, `DataSurvives`, `ReadyMeansReachable`, `ReadyMeansServing`, `DeployedInOrder`, `InitOnce`, `EventuallySettled` | ten services, encrypted or not, restored or not, with or without backups and external access, one or two instances, one edit, one fault |
| `services_encrypted` | *violation*: an encrypted cluster is created on unencrypted storage | StackGres, no fault, no edit |
| `services_backups` | *violation*: enabling backups locks a deployed instance | CloudNativePG, no fault, one edit |
| `resize` | `JobDoesItsWork`, `ResizedIfNothingLost`, `StsComesBack` | one growth, given or by a plan, one fault of each kind, a pod that is replaced once |
| `maintenance` | `OnlyRaisesTheRevision`, `LoweredByPinOrStaleRead`, `ReadyMeansMaintained`, `EventuallyReleased` | ten starts (`Scenarios`): the claim pinned, frozen, updating itself or plain, releases or versions or the management turned off, the image tag of the chart unset, the claim's or a mirror's, with an edit, a hotfix, a backup, a failing attempt or a patch during a pass |

Why the bounds suffice for what they are meant to show:

* *Billing.* `MaxEvents` 2 makes pruning happen with three events (with the default limit it takes many more);
  three edits allow a scale after the pruning and a deletion after that; one fault places a crash, conflict or lost
  answer at every call of every pass; conflicts and misses due to a stale cache need no fault and are unbounded.
  `MaxSeq` is above what the edits can enqueue. In `billing_values` values do not return, because of
  `billing_rescale`. Two edits drop an item and list it again, or drop it and delete the resource.
* *Probes.* Instances share nothing but the map, whose keys differ, so one is enough. Two probers are the old and the
  new one of a replacement; two probes are those of two loops. Everything else is unbounded, cycles included.
* *TCP gateway.* A takeover needs a holder that is gone, two requests that race for its lease and a port each of them
  could take instead. Two UIDs are what such a race is about: the lease that was read and the one created in its place
  (a step that needs a third one waits). Two gateways of capacity 1 make the webhook move the second service.
* *Composition.* A shared database takes two users, one of whom leaves or comes. One fault makes a resource unready or
  breaks a pass off anywhere.
* *Services.* One edit toggles backups or scales at any time, also between a snapshot and its answer; one fault makes any
  resource unready, loses the output of the initialisation or breaks a pass off at any subset. Cycles of passes,
  readiness and retention are unbounded.
* *Growing of volumes.* Two sizes are one growth, also before the first deployment; edits between plan and given size, delays
  of provider-helm and their combinations with the faults are unbounded. With `BackoffLimit` 1 two failures make the job
  fail; a lost pod alone does not, as with the limit of 6.
* *Maintenance.* Two revisions, one of them older than the minimum age or not, and three versions; what may happen is
  given per start, so that each start keeps apart what does not interact: revisions move the claim, versions the Release.
  A patch during a pass is bounded by `overlaps`, as each can put the old tag back for a week.

Deadlock is checked except for Billing, where the resource being gone, or everything delivered, is the end.

## Fairness

* `Billing!FairSpec`: a started pass goes on (goroutines are scheduled, calls return), the informer catches up, the
  clock runs, provider-kubernetes applies the creation time. Faults are finite: with an Odoo that refuses one event for
  ever the controller retries for ever, by design.
* `Probes!FairSpec`: goroutines run, probes return, timers fire, the informer resyncs (every 10 hours by default). Strong
  fairness only for the two reads of `Reconcile`, which may fail and are tried again: a read that is tried for ever
  succeeds at some time. No fairness for the cluster or the ticks.
* `Composition!FairSpec`: Crossplane reconciles composites periodically, and the providers and the Usage controller do
  not stop all together. `BreakOff` and `BecomeUnready` are bounded by `MaxFaults`; nothing is fair about the user.
* `Services!FairSpec`: passes start and end, and something that can become ready does (`Progress`); nothing is fair about
  the end of a retention, which no property waits for.
* `PvcResize!FairSpec`: the function, the job, the controllers and the reports go on. Nothing is assumed about their speed:
  provider-helm may miss the broken Release, or the five minutes of the job, in every try.
* `Maintenance!FairSpec`: the two jobs, the passes, the clock and backups go on, the CronJob fires every week. Strong fairness for
  `PatchRelease`, an instant between two calls, which falls between two passes again and again. Nothing is fair
  about users, the hotfixer or publications; faults, backups and overlaps are finite.

## Proofs

`PortAllocationProofs.tla` proves, for any sets of services, ports and gateways, `PortsAreUnique` (no two exposed
services have one port) and `PlacesStay` (a service keeps its place until it is gone) of the abstract allocation. The
invariant is inductive as it stands: a port that is allocated is not among the taken ones, and the places of all other
services do not change.

`TcpGatewayProofs.tla` proves, for all sets of services, requests and UIDs and any range, gateways, capacity and grace
period, from `TcpGatewayAssumption` (the numbers are positive, a request is given up before the grace period is over,
there are finitely many services) and `NoneAssumption` (`None` is not an object):

* `TypeCorrect`, `LeaseIsHeld` (`[]PortIsLeased`), `PortsAreUnique` (`[]UniquePorts`) and `NothingMoves` (`NeverMoved`);
* `Refinement`: `Spec => ImplementsAllocation`, so what is proved of `PortAllocation` holds of the listeners.

None of these is inductive: that a stored object keeps its lease depends on what the requests in progress have read, and
that nothing moves on what was read back earlier. The inductive invariant `IInv` (in `TcpGateway.tla`; TLC checks it
on the instance of the run) has a part for each of the three. `RequestInv`: a lease with the UID a
request has read is the one it has read; once it was found stale no stored object has its port; a request about to be
stored holds a lease as old as itself, hence too young for anybody to delete (here `MaxRequest < Grace` is used).
`StoredInv`: a stored object has the lease of its port, and what was read back of it is what is stored. `MissingInv`:
nothing was read back of what is not stored, so it is asked for with the defaults. `OnlyRequest` covers the steps
that only move a request, each other action has a lemma. `StoredSteps` says what any step does to the stored objects,
from which `NothingMoves` and `PlacesNext` (a step is an `Allocate`, a `Release` or a stutter of the places) follow.

`BillingProofs.tla` proves, for all sets of instances and values and all limits, from `BillingAssumption` only
(limits are naturals, `Unlisted` is not a value, edits and modes are among the known ones):

* `TypeCorrect`: `Spec => []TypeOK`;
* `SentOnlyIfDelivered`: `Spec => []SentWasDelivered`;
* `UndeliveredIsKept`: `Spec => BacklogNeverDropped`;
* `QuietIsSynced` and `QuietIsEnded`: `Spec => []QuietMeansSynced`, `Spec => []QuietMeansEnded`;
* `EndedIsDropped`: `Spec => []EndedWasDropped`;
* `GoneIsEnded`: `Spec => []GoneMeansDeleted`;
* `SentEventIsDelivered`: `Spec => []SentEventWasDelivered`;
* `QuietIsBilled`: `Spec => []QuietMeansBilled`.

None of them has a hypothesis: items may be dropped and listed again, events may share a second, values may return. Where
the code fails, the properties name the instances for which it does, from the history: `dropped` items may be ended though
listed again, `early` ones may stay open once the resource is gone, an older event of the same second excuses a mark, and
a value that `Returned` may not be billed. Everything else is asserted in the presence of these cases.

`SentWasDelivered` speaks of the stored object only, and is not inductive: `PersistSent` stores a copy read from the
cache, the other writes store the copy of `Reconcile`, and both may be old. The inductive invariant `IInv` (defined in
`Billing.tla`) says that *each* of the three copies is `Sane`: well-formed, with sequence numbers below `next`, and
every event it calls sent has a message at Odoo. Because messages are never lost, a copy stays sane however old it
gets. `SendInv` adds what links the steps of a delivery: at `send` and `persist` there is something to send, at
`persist` an attempt is left, and Odoo has a message with the key of the event that `persistEventSent` is about to
mark. The lemmas show that the operators on events keep a copy sane (enqueue and prune, mark for resend, mark sent, change
a state), that `Newest` and `Oldest` choose from the set they are given and that the `Enter...` operators lead to a
state in which `SendInv` holds; then the actions are taken in groups of like steps, one proof step for each.

The others rest on `KeepInv`. A write succeeds only with the current resourceVersion, so what matters is a copy that is
fresh: `CopyInv` says that it *is* the stored one, but for the event that was just found to have failed. `Guarded`: a copy
has no events without the finalizer, and nothing to deliver once it is gone. `HistoryInv`: every instance Odoo was told of,
and every one a copy knows, still has an event in the stored status, as pruning leaves the last one. `OnCourse` goes through
the calls of `Reconcile` and says what each may leave undone because a later one will do it: which instances the loops have
yet to visit, and that a pass ends without another one queued only if nothing is left (`Settled`). `QuietMeansSynced` and
`QuietMeansEnded` are what this says at `idle`. `OpenInv`, for `EndedWasDropped`, says that until the resource itself is
deleted every delete event, in any copy or at Odoo, is about an instance that was dropped; it needs what the loops are
visiting (`VisitsItems`). `GoneInv`, for `GoneMeansDeleted`, says of every instance with an event that was never `early` that
a copy which knows of the deletion lists it or has a sent size of it, or that its end is known (`EndKnown`: a delete event is
in the status or was received); in the branch for deletion it is known or a loop has yet to come to it. Pruning may remove a
delete event, but only one that was received. When the finalizer goes nothing is left to deliver, so what is known was
received.

`SentInv`, for `SentEventWasDelivered`: a delivery may start from an old copy, and `persistEventSent` looks for its event by
instance, type and second in another one. `Marks(e)` says that the newest event with the key of `e`, which would be marked,
tells what `e` does, or an older one with this key is still to be delivered; it holds of everything undelivered in any copy.
It survives a new event of the same second because what is undelivered in an older copy is still so in the copy that the
event is added to (`Follows`), so the new one is the newer of two.

`QuietIsBilled` compares events of different copies, delivered or not, by what they tell Odoo. `Told` is the set of all
messages that the stored object, the cache or the local copy holds or Odoo has, and the lemmas on the steps (`Tells`) sort
every step into one of three: it tells nothing new, it tells the size of an item the spec lists with the value listed, or
it tells an end. `ClockInv`: what is told lies in the past. A create event takes the creation time instead of the clock (time
0 in the model); `LoopInv` shows that this happens only before Odoo could be told of the instance. `ChainInv`: the sizes told
of an item that was never dropped follow each other as the owner gave its values, and the spec has the last one (`past` is
this order; `PastInv` says that it leads to the present value). `ChargeInv`: nothing is left to enqueue for a listed item but
what the loops have yet to visit, unless a backlog defers it. At rest some event that was sent has the value listed
(`scale.go:16` asks for no more than that). If Odoo was told another value at a later second, the present value came before
that one, so it returned.

The invariants were checked by TLC first, with two instances, three values, edits, a deletion, events in one second and one
fault.

`ProbesProofs.tla` proves, for any sets of instances, probers and goroutines, from `ProbesAssumption` (`None` is not a
prober), all six safety properties of `Probes`: `TypeCorrect`, `LoopsAreReachable` (`NoLostLoop`), `OneProbeEach`
(`OneProbePerLoop`), `StoppedProbesNeverFail` (`StoppedNeverFails`), `EndedMeansStopped` (`QuietMeansStopped`) and
`FailingLooksAgain` (`FailingIsRetried`). `NoLostLoop` needs its converse (`RegisteredRuns`: whoever is registered runs for
that instance), as `StartProbe` and `StopProbe` cancel what they find registered. `BusyInv` ties the flag `probeRunning` to
exactly one goroutine in flight, `LateInv` keeps the context of a late probe canceled, and `EndedInv` says of every call
`Reconcile` may be at that an instance that ended meanwhile is in the queue again.

`CompositionProofs.tla` proves, for any users and databases, `TypeCorrect`, `WantedIsKept` (`KeepsWanted`), `ReadyIsMeant`
(`ReadyMeansComplete`) and `UsagesSurvive` (`UsageSurvives`). The properties are about the answer to a snapshot, carried
out when the cluster has moved on: `PassInv` says that a pass carries out the answer to its snapshot and that nothing came
to exist since, `RefsInv` that the composite refers to no Usage without its user. What is left are
facts about the function alone: what exists and is wanted stays desired whatever is not ready (`KeepsExisting`), and if all
that is desired is ready then nothing that is wanted is missing (`ReadyIsComplete`).

`MaintenanceProofs.tla` proves, for any revisions, versions, mirror, settings, starts and retries, all safety properties of
`Maintenance`: `TypeCorrect`, `RevisionsOnlyRise` (`OnlyRaisesTheRevision`), `OnlyStaleReadsLower` (`LoweredByPinOrStaleRead`)
and `ReadyIsMaintained` (`ReadyMeansMaintained`). `FreshInv`: a copy about to be written that will not conflict has the
settings of the claim and a higher revision than the one selected (or none). Every write of the claim makes all copies stale,
so it survives them. `PatchInv`: no job is about to patch a tag below the one it has read. `PassInv`: if a pass was told
that the first job is complete, or past its time, it still is when the pass ends.

`PvcResizeProofs.tla` proves `TypeCorrect` and `JobFinishes` (`JobDoesItsWork`) for any number of sizes and faults and any `BackoffLimit`.
`ReleaseInv`: the Release is at the size of the job or above, unless the script broke it or a pass broke off. `StsInv`: past the deletion a
StatefulSet is of that size or above, and at the end there is one. `SeenInv`: a report that the job succeeded, and a pass
that saw it, are about the job that exists now, and that job has succeeded.

`ServicesProofs.tla` proves, for any subset of the ten services and any numbers of edits and faults, from
`ServicesAssumption` (known services, zero to two instances, `None` is not a pass), all safety properties of
`Services`: `TypeCorrect`, `DataIsKept` (`DataSurvives`), `InitialisedOnce` (`InitOnce`),
`ReadyOnlyIfReachable` (`ReadyMeansReachable`), `ReadyOnlyIfServing` (`ReadyMeansServing`), `BuiltInOrder`
(`DeployedInOrder`) and `LockoutsAreKnown` (`LockedOnlyIfKnown`, if MariaDB is not in `Breaking`; StackGres may be). The first half is about the functions alone: `Is` describes an answer by its sets, one lemma for
each step and pipeline says what it is (`StackGresIs`, `CnpgIs`, ...), and `AnswersAreGood` draws from it what the
properties need of an answer to *any* snapshot in which only what exists is ready or has reported something. The second
half is about the composite: `PassInv` says what of a snapshot still holds when its pass ends, `OpenInv` that of what
is precious only the key of CloudNativePG is ever opened for deletion, and `KeyInv` that it exists only while the release
has been seen, so that every pass desires it again. `OnlyPasses` and `PassesEnd` say that resources come and go at the
end of passes only; what is deleted there was not denied, so it is no precious one (`PreciousGarbage`).

`LockedOnlyIfKnown` compares the answer to what is there now with what all earlier answers left behind. `LockInv` says
what that can be: `Built`, which resource does not exist (or was not seen) without which other one, service by service;
`RemovableInv`, what is opened for deletion; `ProxyInv`, that a ProxySQL which cannot be deleted is still in the status.
`Built` survives a pass that breaks off anywhere, as it holds of any mixture of what existed and what the answer applies
(`Sound`, with one lemma for each service, `CnpgLasts`, `NextcloudLasts`, ...): a step applies nothing whose gate it has
not seen. `LocksAreKnown` then draws from `LockInv` that what a pipeline forgets is unprotected, `Stranded` or `Waiting`.

The type invariants of all seven parts are proved, so the runs do not check them again.

Every safety property of the passing runs is stated by a theorem. Only model-checked: liveness (`EventuallyQuiet`, `DeletedGoesAway` and the other
properties under `FairSpec`) and everything with ENABLED, which the proof system does not handle.

## Disagreements between the code and its own words

Three have a run that shows them (`findings` in `PROJECT.json`):

* `billing_rescale`: `scale.go:16` skips an item if *any* scale event with the new value exists, also one sent long
  ago; the comment at `scale.go:10` speaks of the last sent value. After v1, v2, v1, v2 Odoo stays at v1.
* `services_encrypted`: `AddPvcSecret` (`vshnpostgres/encrypted_pvc.go:51`) sets the storage class after the keys are
  ready, and `DelayClusterDeployment` does not wait for the keys, so the first SGCluster is created without it.
* `services_backups`: enabling backups of a deployed CloudNativePG instance makes `SetupBackup` fail as the bucket has no
  connection details yet (`vshnpostgrescnpg/deploy.go:198`). The release is not desired, its deletion is denied, the
  pass ends before the bucket is created, and so does every following one.

Others were met while modelling. They can be reproduced with the definitions of the modules and the constants given
here, and are not kept as runs:

* An instance whose create event is still pending and which the spec no longer lists is created at Odoo in the last
  pass and never ended (`delete.go:41`, against `delete.go:12`): `GoneMeansDeleted` without `early`, with `Keep = 0`.
* Only listeners with port 0 are given a lease (`handler.go:131`); an XListenerSet that is deleted out of band returns with
  the port in its manifest, which another service may have been given: `UniquePorts` under `LossySpec`.
* Two events of one instance and type in the same second are not told apart by `persistEventSent` (`delivery.go:82`),
  although `delivery.go:47` speaks of "the event at idx": `SentEventWasDelivered` without its second disjunct. The newer one
  is marked for the older one, which is sent again and again from then on: `EventuallyQuiet` with the values of `billing_values`.
* An item that is dropped and listed again gets no second create event (`create.go:17`), so Odoo's last word on it is its end:
  `EndedWasDropped` with `d.id \notin Listed(srv)` in place of `d.id \in dropped`.
* `manager.go:145` says "This caps in-flight probes to 1 per instance at all times"; a replaced prober's probe is still
  in flight when that of the new one starts (`manager.go:118`): `OneProbePerInstance` in `probes_loops`.
* `manager_test.go:116` says that the tick of a stopped prober "should be ignored"; `select` may take it
  (`StoppedTickIgnored`). `StoppedNeverFails` shows that it is never recorded as a failure.
* Two concurrent requests both take the last place of a gateway (`sharding.go:35`; `sharding.go:16` calls the capacity
  a maximum): `CapacityRespected` with two requests, two gateways, capacity 1.
* A create that is retried after a failure leaves the first lease behind; its holder exists, so it is never reclaimed
  (`allocator.go:129`), and the range is called "in use" (`allocator.go:106`) too early: `ExhaustedMeansUsed`.
* A MariaDB that is suspended keeps its ProxySQL (`proxysql.go:64` says "suspended, no ProxySQL needed"): a count of zero
  is omitted from the status, so the older one stays (`dbaas_vshn_mariadb.go:183`). `SuspendedHasNoProxy` with
  instances 0 and 2.
* An encrypted StackGres cluster that is scaled down, or suspended, no longer desires the keys of the instances that went,
  which are protected: it is locked until it is scaled up again (`Stranded`).
* While a resource that other steps wait for is unready, Nextcloud and StackGres leave out protected resources and are
  locked until it is back (`Waiting`): Collabora (`collabora.go`), the backup storage, whose wait names a main resource
  that does not exist (`createSgObjectStorage`), and the keys (`function_mgr.go:1170`). `LockedOnlyIfKnown` says that
  there are no other reasons.
* Keycloak counts as ready without its release while its database is ready and has no connection details
  (`function_mgr.go:1205` marks a resource that is not desired): `ReadyMeansServing` leaves it out. Before the release
  exists, a database that becomes unready makes the function forget the credentials.
* Nextcloud drops the warning that its database is not ready (`deploy.go`, `configureDatabase`) and renders the release
  without it, as `DeployNextcloud` does; the next passes repair that.
* The recovery of CloudNativePG is never seen as complete: `handleRestore` asks for a resource that is named after the
  chart (`RecoveryComplete`), so a restored instance keeps its recovery values for ever.
* A pass of MariaDB that ends after ProxySQL was applied and before the status was written is forgotten; scaling to one
  instance then locks it: `LockedOnlyIfKnown` with MariaDB in `Breaking`.
* Once the bucket of a disabled backup has the label that allows its deletion, the webhook counts its default of 6 days
  (`getRetentionDays`), the function `KeepDaily`: with fewer days passes are denied in between.
* The schedule of the backups does not wait for the bucket ("credential secret not found, skipping schedule",
  `backup.go:246` and `:450`): `GetBucketCredentials` returns no details and no error, so the first pass desires a
  schedule that names no bucket. `AddK8upBackup` does the same; later passes fill it in.
* A growth of a Redis volume by the plan starts no job, and a change from a given size to a plan takes a running job away
  (`pvcresize.go:34`; "as long as it hasn't finished we need to make sure it exists", `pvcresize.go:111`), also
  between the deletion of the StatefulSet and the Release: Redis is left without one. `JobDoesItsWork` and `StsComesBack` name
  the case; without `~pass.explicit` and `job = None` they fail.
* If provider-helm is late in seven tries (a Release that is mended before it looked, or five minutes without it), the job
  has failed, is kept for ever (`pvcresize.go:112` waits for a success), and there is no StatefulSet: `StsComesBack` without
  its last disjunct. A StatefulSet that comes after the last second of a try but before the next one is not labelled
  ("Sizes match, nothing to do"), so its volumes do not grow: `ResizedIfNothingLost` without `"late"`.
* A job that starts before the Release was ever deployed, in a pass that does not write the Release, ends with a StatefulSet
  of the old size and is dropped: `JobDoesItsWork` without `FellBehind`.
* A second growth of a Redis volume is lost: the job of the first one cannot be changed, it ends for the smaller size and
  is dropped, and no new one is started as the Release has the new size already (`pvcresize.go:112`):
  `EventuallyResized` with `MaxSize` 3.
* The job of a new instance is dropped 30 minutes after it was triggered, not "until 30 minutes after completion"
  (`maintenance.go:165`): a job that waits for backups (up to six hours) is deleted while it runs, and the composite
  becomes ready without its first maintenance: `ReadyOnlyIfMaintained`.
* A pass that is under way while a job patches the Release puts the old tag back, although only a pin is meant to lower
  it (`maintenance.go:566`, `common_types.go:121`): `LoweredOnlyByPin`. The next weekly job repairs that.
* The hotfixer ends its loop over all instances at the first error, a conflict with a user included; the remaining
  instances keep their revision (`hotfixreleaser.go`).
* A growth of a Redis volume is not resumed when the pass ends between the Release and the job, nor when the pod is lost
  between the new StatefulSet and its label ("Sizes match, nothing to do"): `EventuallyResized` with faults.

## What is not modelled

* *Read-only or batch programs*: API server, metrics, SLA reports. *Generated code*: OpenAPI, deep copies, clients.
  *Wiring*: commands.
* *Pure output*: the manifests themselves, and the steps of the pipelines whose answer does not depend on what is
  observed (namespaces, policies, alerts, ingresses, maintenance schedules, plans). `Pipelines` has the others.
* *The deletion of a composite* and what the webhooks say of unmanaged objects, claims and namespaces: planned.
* *Size*: about 50000 of the 87000 lines of Go are generated (deep copies, protobuf, OpenAPI, types of StackGres) or declare
  API types, and most of the rest builds manifests; the lines that carry state and decisions are a small share.
* *String processing*: image tags, versions, quantities, names. Unit tests of the repository cover these.
* *The maintenance flag* of the SLI exporter and the cleanup of Garage buckets: planned, see below.

## Plan

Order of the project, the most important behaviour first:

1. `Billing` and `BillingProofs`, `Probes`, `TcpGateway`, `PortAllocation`, `Composition`, `Pipelines`, `Services`,
   `PvcResize`, `Maintenance`: done as described above.
2. Theorems: all safety properties of all parts (done). With a `NeedsScale` that compares with the last sent value only,
   `QuietMeansBilled` would not have to except values that return.
3. The deletion of a composite in `Services`: the claim, the namespace and the instance on two clusters.
4. The maintenance flag, composed with the recording of probes in `Probes`: TRUE only while a job is active, and FALSE
   afterwards (`maintenance_controller/controller.go:40` and `:50` are the places to look at).
5. The maintenance of PostgreSQL (UpgradeJobs of StackGres, images of CloudNativePG) and of MinIO.
6. The rotation of passwords and keys that are generated again while a secret is not observed (`common/password.go`).
7. An abstract specification of billing: a log per instance from which Odoo's bill is derived.
