------------------------------ MODULE Billing ------------------------------
(***************************************************************************)
(* The BillingService controller (pkg/controller/billing): one custom      *)
(* resource, the reconciler that turns its spec into a queue of billing    *)
(* events kept in the resource's status, and Odoo, which receives them.    *)
(*                                                                         *)
(* Every step of the reconciler is one call that leaves the process: a     *)
(* write to the API server (checked against the resource version), a read  *)
(* of the informer cache, or a request to Odoo.  Between two of them the   *)
(* spec may change, the cache may lag or catch up and the process may die. *)
(***************************************************************************)
EXTENDS Integers, FiniteSets

CONSTANTS
  Instances,    \* instanceIDs of billable items
  Values,       \* item values (sizes)
  Unlisted,     \* not a value: the item is absent from spec.odoo.items
  MaxEvents,    \* maxEvents: events kept per instance before pruning
  Keep,         \* spec.keepAfterDeletion, in clock ticks
  Attempts,     \* attempts of retry.DefaultRetry
  Rescales,     \* value changes <<from, to>> the spec's owner may make
  MayDelete,    \* may the resource be deleted?
  ResendModes,  \* modes the resend annotation may be given
  Pauses,       \* seconds that may pass when an event is enqueued
  Starts,       \* bound: what the resource is created with, how many changes its owner
                \* makes, how often the process, the API server or Odoo fails
  MaxTime,      \* bound: seconds that pass for no reason
  MaxSeq        \* bound: events ever enqueued

ASSUME BillingAssumption ==
  /\ Unlisted \notin Values
  /\ MaxEvents \in Nat \ {0}
  /\ Keep \in Nat
  /\ Attempts \in Nat \ {0}
  /\ MaxTime \in Nat \ {0} /\ MaxSeq \in Nat
  /\ Rescales \subseteq Values \X Values
  /\ MayDelete \in BOOLEAN
  /\ Pauses \subseteq Nat
  /\ Starts \subseteq [listed: SUBSET Instances, order: BOOLEAN, stamped: BOOLEAN,
                       edits: Nat, faults: Nat]
  /\ ResendModes \subseteq {"all", "not-sent", "failed"}

VARIABLES
  srv,         \* the BillingService as the API server stores it
  cache,       \* the informer's copy of it
  cacheFresh,  \* does the cache hold the current resource version?
  notify,      \* a change that passes the watch predicates is still to be seen
  queued,      \* the work queue holds (or will hold) a request for it
  pc,          \* the call Reconcile is about to make
  obj,         \* Reconcile's local copy
  fresh,       \* does obj carry the current resource version?
  todo,        \* items the loop at pc has still to visit
  branch,      \* the branch Reconcile took: "delete", or items "initial" or "later"
  sent,        \* processQueue's result
  tries,       \* attempts left to persist a delivery
  delivered,   \* messages Odoo has received
  now,         \* wall clock, in seconds
  edits,       \* changes the spec's owner may still make
  faults,      \* faults that may still happen
  \* History, which only properties read:
  dropped,     \* items that were ever dropped from the spec
  early,       \* instances that were ever Untold
  past         \* <<i, u, v>>: the spec gave item i the value u before it gave it v

apiVars   == <<srv, cache, cacheFresh, notify, early>>
localVars == <<pc, obj, fresh, todo, branch, sent, tries>>
history   == <<dropped, past>>
envVars   == <<now, edits, history>>
vars == <<apiVars, localVars, delivered, envVars, queued, faults>>

EventTypes  == {"create", "scale", "delete"}
EventStates == {"pending", "sent", "failed", "superseded", "resend"}

Event == [seq: Nat, id: Instances, type: EventTypes, value: Values,
          ts: Nat, state: EventStates]
Message == [id: Instances, type: EventTypes, value: Values, ts: Nat]
Item == [id: Instances, value: Values]
\* The list of events is newest first; seq numbers stand for its order.
Object == [exists: BOOLEAN, order: BOOLEAN, stamped: BOOLEAN,
           finalizer: BOOLEAN, deleting: BOOLEAN, deletedAt: Nat,
           resend: {"none", "all", "not-sent", "failed"},
           items: [Instances -> Values \cup {Unlisted}],
           events: SUBSET Event, next: Nat,
           ready: BOOLEAN, synced: BOOLEAN]

PCs == {"idle", "order", "finalizer", "resend", "annotation", "items", "scale",
        "removed", "delete", "deleteSent", "send", "persist", "saveFailed",
        "failStatus", "finalize", "status", "statusKeep"}
-----------------------------------------------------------------------------
(* Reading the list of events. *)

Listed(o) == {i \in Instances : o.items[i] # Unlisted}

SpecItems(o) == {[id |-> i, value |-> o.items[i]] : i \in Listed(o)}

Newest(evs) == CHOOSE e \in evs : \A f \in evs : f.seq <= e.seq
Oldest(evs) == CHOOSE e \in evs : \A f \in evs : e.seq <= f.seq

HasEvent(o, type, i) == \E e \in o.events : e.type = type /\ e.id = i

HasEventWithValue(o, type, i, v) ==
  \E e \in o.events : e.type = type /\ e.id = i /\ e.value = v

SentSizes(o, i) == {e \in o.events : /\ e.state = "sent" /\ e.id = i
                                     /\ e.type \in {"create", "scale"}}

LastObservedValue(o, it) ==
  IF SentSizes(o, it.id) = {} THEN it.value ELSE Newest(SentSizes(o, it.id)).value

IsUndelivered(e) == e.state \notin {"sent", "superseded"}

HasBacklog(o) == \E e \in o.events : IsUndelivered(e)

InstancesOf(o) == {e.id : e \in o.events}

\* Instances that are not listed and of whose events none is for their end or a size
\* that is marked as sent.
Untold(o) == {i \in InstancesOf(o) \ Listed(o) :
                SentSizes(o, i) = {} /\ ~HasEvent(o, "delete", i)}

\* The last sent create or scale of every instance.
LastSent(o) == {[id |-> i, value |-> Newest(SentSizes(o, i)).value] :
                  i \in {j \in Instances : SentSizes(o, j) # {}}}
-----------------------------------------------------------------------------
(* Enqueueing and pruning. *)

Excess(evs, i) == Cardinality({e \in evs : e.id = i}) - MaxEvents

\* Mutant: the oldest events go, delivered or not.
IsPruned_AnyState(evs, e) ==
  Cardinality({f \in evs : f.id = e.id /\ f.seq <= e.seq}) <= Excess(evs, e.id)

\* The oldest sent events of an instance go first, undelivered ones never.
IsPruned(evs, e) ==
  /\ e.state = "sent"
  /\ Cardinality({f \in evs : f.id = e.id /\ f.state = "sent" /\ f.seq <= e.seq})
       <= Excess(evs, e.id)

PruneEvents(evs) == {e \in evs : ~IsPruned(evs, e)}

NewEvent(o, type, i, v, ts) ==
  [seq |-> o.next, id |-> i, type |-> type, value |-> v, ts |-> ts,
   state |-> "pending"]

EnqueueEvent(o, type, i, v, ts) ==
  [o EXCEPT !.events = PruneEvents(@ \cup {NewEvent(o, type, i, v, ts)}),
            !.next = @ + 1]

\* Environment: metav1.Now() reads a clock of whole seconds (that is how the
\* API server stores it); two events may be enqueued in one second.  MaxSeq bounds
\* the run.
MayEnqueue(o) ==
  /\ o.next < MaxSeq
  /\ \E pause \in Pauses : now' = now + pause
-----------------------------------------------------------------------------
(* Choosing what to deliver. *)

InState(o, s) == {e \in o.events : e.state = s}
PendingDeletes(o) == {e \in InState(o, "pending") : e.type = "delete"}

Undelivered(o) == InState(o, "resend") \cup InState(o, "failed")
                    \cup InState(o, "pending")

\* resend, then failed, then pending deletes, then any pending: oldest first.
NextToSend(o) ==
  Oldest(IF InState(o, "resend") # {} THEN InState(o, "resend")
         ELSE IF InState(o, "failed") # {} THEN InState(o, "failed")
         ELSE IF PendingDeletes(o) # {} THEN PendingDeletes(o)
         ELSE InState(o, "pending"))

SetState(o, e, s) ==
  [o EXCEPT !.events = (@ \ {e}) \cup {[e EXCEPT !.state = s]}]

\* What persistEventSent compares (and what a message tells of its event).
Key(e) == <<e.id, e.type, e.ts>>

\* Mutant: matching on the instance alone.
Matching_ByInstance(o, e) == {f \in o.events : f.id = e.id}

\* The entries persistEventSent takes for the delivered event e.
Matching(o, e) == {f \in o.events : Key(f) = Key(e)}

MarkSent(o, e) == SetState(o, Newest(Matching(o, e)), "sent")

\* The states an event must be in for the resend annotation to pick it.
ResendStates(mode) ==
  CASE mode = "all"      -> EventStates \ {"superseded"}
    [] mode = "not-sent" -> EventStates \ {"superseded", "sent"}
    [] mode = "failed"   -> {"failed"}
    [] OTHER             -> {}

MarkResend(o) ==
  [o EXCEPT !.events =
     {IF e.state \in ResendStates(o.resend) THEN [e EXCEPT !.state = "resend"]
      ELSE e : e \in @}]

ToResend(o) == {e \in o.events : e.state \in ResendStates(o.resend)}

SetConditions(o) == [o EXCEPT !.ready = ~o.deleting, !.synced = ~HasBacklog(o)]

KeepElapsed(o) == Keep = 0 \/ now >= o.deletedAt + Keep
-----------------------------------------------------------------------------
(* The stages of Reconcile.  Enter...(o) moves to the next call there is   *)
(* to make, given the local copy o.                                        *)

\* What follows processQueue, in the branch for deletion or not.
\* "statusKeep" is updateStatus with requeueAfter set.
AfterQueue(o, deletion) ==
  IF ~deletion THEN "status"
  ELSE IF ~KeepElapsed(o) THEN "statusKeep"
  ELSE IF ~HasBacklog(o) /\ o.finalizer THEN "finalize" ELSE "status"

EnterQueue(o) ==
  /\ todo' = {}
  /\ pc' = IF Undelivered(o) # {} THEN "send" ELSE AfterQueue(o, o.deleting)

EnterRemoved(o, its) ==
  IF its = {} THEN EnterQueue(o) ELSE pc' = "removed" /\ todo' = its

\* Mutant: the items of the spec are not spared.
Leftovers_All(o) == LastSent(o)

Leftovers(o) == {it \in LastSent(o) : it.id \notin Listed(o)}

EnterItems(o, its) ==
  IF its = {} THEN EnterRemoved(o, Leftovers(o)) ELSE pc' = "items" /\ todo' = its

EnterDeleteSent(o, its) ==
  IF its = {} THEN EnterQueue(o) ELSE pc' = "deleteSent" /\ todo' = its

\* Mutant: what the spec has dropped is not ended.
EnterDelete_ListedOnly(o, its) ==
  IF its = {} THEN EnterQueue(o) ELSE pc' = "delete" /\ todo' = its

EnterDelete(o, its) ==
  IF its = {} THEN EnterDeleteSent(o, LastSent(o)) ELSE pc' = "delete" /\ todo' = its

EnterBranch(o) ==
  /\ branch' = IF o.deleting THEN "delete" ELSE IF o.events = {} THEN "initial" ELSE "later"
  /\ IF o.deleting THEN EnterDelete(o, SpecItems(o)) ELSE EnterItems(o, SpecItems(o))

EnterResend(o) ==
  IF o.resend = "none" THEN EnterBranch(o)
  ELSE /\ pc' = IF ToResend(o) # {} THEN "resend" ELSE "annotation"
       /\ UNCHANGED <<todo, branch>>

EnterFinalizer(o) ==
  IF ~o.deleting /\ ~o.finalizer THEN pc' = "finalizer" /\ UNCHANGED <<todo, branch>>
  ELSE EnterResend(o)

EnterOrder(o) ==
  IF ~o.order THEN pc' = "order" /\ UNCHANGED <<todo, branch>> ELSE EnterFinalizer(o)
-----------------------------------------------------------------------------
(* Calls to the API server. *)

\* Mutants: a predicate forgets the resend annotation, or the generation.
Wakes_NoResend(old, new) ==
  \/ old.items # new.items \/ old.order # new.order \/ old.deleting # new.deleting
  \/ old.exists # new.exists
Wakes_NoGeneration(old, new) ==
  \/ old.deleting # new.deleting \/ old.resend # new.resend \/ old.exists # new.exists

\* What the watch predicates let through.
Wakes(old, new) ==
  \/ old.items # new.items \/ old.order # new.order       \* generation
  \/ old.deleting # new.deleting \/ old.resend # new.resend
  \/ old.exists # new.exists

\* The API server stores o, whichever copy its writer based it on.
Stored(o) ==
  /\ srv' = o
  /\ cacheFresh' = FALSE
  /\ notify' = (notify \/ Wakes(srv, o))
  /\ early' = early \cup Untold(o)
  /\ UNCHANGED cache

\* Update or Status().Update of a copy with the current resource version.
Update(o) ==
  /\ fresh
  /\ Stored(o)
  /\ obj' = o
  /\ fresh' = o.exists

EndReconcile(requeue) ==
  /\ pc' = "idle"
  /\ queued' = (queued \/ requeue)
  /\ obj' = cache
  /\ fresh' = FALSE /\ todo' = {} /\ branch' = "none" /\ sent' = FALSE /\ tries' = 0

unchangedByWrite == <<delivered, edits, history, queued, faults, sent, tries>>
-----------------------------------------------------------------------------
(* Reconcile. *)

\* Get: the request is taken from the queue and the cache is read.
StartReconcile ==
  /\ pc = "idle" /\ queued
  /\ queued' = FALSE
  /\ IF cache.exists
     THEN /\ obj' = cache /\ fresh' = cacheFresh
          /\ EnterOrder(cache)
     ELSE UNCHANGED <<pc, obj, fresh, todo, branch>>
  /\ UNCHANGED <<apiVars, delivered, envVars, faults, sent, tries>>

SetSalesOrder ==
  /\ pc = "order"
  /\ LET o == [obj EXCEPT !.order = TRUE]
     IN Update(o) /\ EnterFinalizer(o)
  /\ UNCHANGED <<unchangedByWrite, now>>

AddFinalizer ==
  /\ pc = "finalizer"
  /\ LET o == [obj EXCEPT !.finalizer = TRUE]
     IN Update(o) /\ EnterResend(o)
  /\ UNCHANGED <<unchangedByWrite, now>>

HandleResend ==
  /\ pc = "resend"
  /\ Update(MarkResend(obj))
  /\ pc' = "annotation"
  /\ UNCHANGED <<unchangedByWrite, now, todo, branch>>

DropAnnotation ==
  /\ pc = "annotation"
  /\ LET o == [obj EXCEPT !.resend = "none"]
     IN Update(o) /\ EnterBranch(o)
  /\ UNCHANGED <<unchangedByWrite, now>>

NeedsScale(o, it) ==
  /\ SentSizes(o, it.id) # {}
  /\ Newest(SentSizes(o, it.id)).value # it.value
  /\ ~HasEventWithValue(o, "scale", it.id, it.value)

\* The instance was created before its BillingService: time 0.
CreationTime == IF branch = "initial" THEN 0 ELSE now

MustWaitForStamp(it) ==
  branch = "initial" /\ ~obj.stamped /\ ~HasEvent(obj, "create", it.id)

EnqueueCreate(it) ==
  EnqueueEvent(obj, "create", it.id, it.value, CreationTime)

\* handleItemCreation of an item without a create event; handleItemScaling of
\* the same item comes next.
CreateItem ==
  /\ pc = "items"
  /\ \E it \in todo :
       /\ ~HasEvent(obj, "create", it.id) /\ ~MustWaitForStamp(it)
       /\ MayEnqueue(obj)
       /\ Update(EnqueueCreate(it))
       /\ IF NeedsScale(EnqueueCreate(it), it)
          THEN pc' = "scale" /\ UNCHANGED todo
          ELSE EnterItems(EnqueueCreate(it), todo \ {it})
  /\ UNCHANGED <<unchangedByWrite, branch>>

\* The item being visited at pc "scale": the one just created.
JustCreated == CHOOSE it \in todo : it.id = Newest(obj.events).id

ScaleTo(it) == EnqueueEvent(obj, "scale", it.id, it.value, now)

\* handleItemScaling.
ScaleItem ==
  /\ pc \in {"items", "scale"}
  /\ \E it \in todo :
       /\ IF pc = "scale" THEN it = JustCreated ELSE HasEvent(obj, "create", it.id)
       /\ NeedsScale(obj, it)
       /\ MayEnqueue(obj)
       /\ Update(ScaleTo(it))
       /\ EnterItems(ScaleTo(it), todo \ {it})
  /\ UNCHANGED <<unchangedByWrite, branch>>

\* An item that needs neither event: no call is made.
SkipItem ==
  /\ pc = "items"
  /\ \E it \in todo :
       /\ HasEvent(obj, "create", it.id) /\ ~NeedsScale(obj, it)
       /\ EnterItems(obj, todo \ {it})
  /\ UNCHANGED <<apiVars, delivered, envVars, queued, faults, obj, fresh, branch,
                 sent, tries>>

\* handleItemCreation refuses to guess the creation time.
WaitForStamp ==
  /\ pc = "items"
  /\ \E it \in todo : MustWaitForStamp(it)
  /\ EndReconcile(TRUE)
  /\ UNCHANGED <<apiVars, delivered, envVars, faults>>

RemoveLeftover(it) == EnqueueEvent(obj, "delete", it.id, it.value, now)

\* handleRemovedItems: one sent instance that the spec no longer lists.
RemoveItem ==
  /\ pc = "removed"
  /\ \E it \in todo :
       IF HasEvent(obj, "delete", it.id)
       THEN /\ EnterRemoved(obj, todo \ {it})
            /\ UNCHANGED <<apiVars, obj, fresh, now>>
       ELSE /\ MayEnqueue(obj)
            /\ Update(RemoveLeftover(it))
            /\ EnterRemoved(RemoveLeftover(it), todo \ {it})
  /\ UNCHANGED <<unchangedByWrite, branch>>

EnqueueDelete(it) ==
  EnqueueEvent(obj, "delete", it.id, LastObservedValue(obj, it), obj.deletedAt)

\* handleDeletion: spec items first, then instances with a sent event.  An
\* instance in `seen` has a pending delete event, so HasEvent covers it.
DeleteItem ==
  /\ pc \in {"delete", "deleteSent"}
  /\ \E it \in todo :
       LET Enter(o) == IF pc = "delete" THEN EnterDelete(o, todo \ {it})
                       ELSE EnterDeleteSent(o, todo \ {it})
       IN IF HasEvent(obj, "delete", it.id)
          THEN Enter(obj) /\ UNCHANGED <<apiVars, obj, fresh, now>>
          ELSE /\ MayEnqueue(obj)
               /\ Update(EnqueueDelete(it))
               /\ Enter(EnqueueDelete(it))
  /\ UNCHANGED <<unchangedByWrite, branch>>
-----------------------------------------------------------------------------
(* processQueue. *)

AsMessage(e) == [id |-> e.id, type |-> e.type, value |-> e.value, ts |-> e.ts]

Received(e) == delivered' = delivered \cup {AsMessage(e)}

SendEvent ==
  /\ pc = "send"
  /\ Received(NextToSend(obj))
  /\ pc' = "persist" /\ tries' = Attempts
  /\ UNCHANGED <<apiVars, envVars, queued, faults, obj, fresh, todo, branch, sent>>

\* The request fails, or it arrives and its answer is lost.
SendFails ==
  /\ pc = "send" /\ faults > 0
  /\ faults' = faults - 1
  /\ Received(NextToSend(obj)) \/ UNCHANGED delivered
  /\ obj' = SetState(obj, NextToSend(obj), "failed")
  /\ pc' = "saveFailed"
  /\ UNCHANGED <<apiVars, envVars, queued, fresh, todo, branch, sent, tries>>

SaveFailed ==
  /\ pc = "saveFailed"
  /\ Update(obj)
  /\ pc' = "failStatus"
  /\ UNCHANGED <<unchangedByWrite, now, todo, branch>>

\* persistEventSent: the cache is read again, and what it holds is written.
PersistSent ==
  /\ pc = "persist"
  /\ cache.exists /\ Matching(cache, NextToSend(obj)) # {}
  /\ cacheFresh
  /\ LET o == MarkSent(cache, NextToSend(obj))
     IN /\ Stored(o)
        /\ obj' = o /\ fresh' = TRUE
        /\ pc' = AfterQueue(o, branch = "delete")
  /\ sent' = TRUE /\ tries' = 0
  /\ UNCHANGED <<delivered, envVars, queued, faults, todo, branch>>

\* retry.OnError with n attempts left, this one included.
GivesUp(n) == n = 1

PersistConflict ==
  /\ pc = "persist"
  /\ cache.exists /\ Matching(cache, NextToSend(obj)) # {}
  /\ \/ ~cacheFresh /\ UNCHANGED faults
     \/ faults > 0 /\ faults' = faults - 1
  /\ tries' = tries - 1
  /\ pc' = IF GivesUp(tries) THEN "failStatus" ELSE "persist"
  /\ UNCHANGED <<apiVars, delivered, envVars, queued, obj, fresh, todo, branch, sent>>

\* The event is not in the copy that was read: not an error worth a retry.
PersistNotFound ==
  /\ pc = "persist"
  /\ ~(cache.exists /\ Matching(cache, NextToSend(obj)) # {})
  /\ pc' = "failStatus" /\ tries' = 0
  /\ UNCHANGED <<apiVars, delivered, envVars, queued, faults, obj, fresh, todo,
                 branch, sent>>

\* processQueue returned an error: updateStatus, then the error is returned.
FailStatus ==
  /\ pc = "failStatus"
  /\ fresh
  /\ Stored(SetConditions(obj))
  /\ EndReconcile(TRUE)
  /\ UNCHANGED <<delivered, envVars, faults>>
-----------------------------------------------------------------------------
(* The end of Reconcile. *)

RemoveFinalizer ==
  /\ pc = "finalize"
  /\ Update([obj EXCEPT !.finalizer = FALSE, !.exists = FALSE])
  /\ pc' = "status"
  /\ UNCHANGED <<unchangedByWrite, now, todo, branch>>

\* Mutants: what the result of Reconcile may forget, or repeat.
NeedsRequeue_NotAfterSend == HasBacklog(obj) \/ pc = "statusKeep"
NeedsRequeue_NotForKeep == sent \/ HasBacklog(obj)
NeedsRequeue_Always == TRUE

NeedsRequeue == sent \/ HasBacklog(obj) \/ pc = "statusKeep"

UpdateStatus ==
  /\ pc \in {"status", "statusKeep"}
  /\ fresh
  /\ Stored(SetConditions(obj))
  /\ EndReconcile(NeedsRequeue)
  /\ UNCHANGED <<delivered, envVars, faults>>

\* Is the call at pc a write carrying obj's resource version?
AtWrite ==
  \/ pc \in {"order", "finalizer", "resend", "annotation", "scale", "saveFailed",
             "failStatus", "finalize", "status", "statusKeep"}
  \/ pc = "items" /\ \E it \in todo : /\ ~MustWaitForStamp(it)
                                      /\ \/ ~HasEvent(obj, "create", it.id)
                                         \/ NeedsScale(obj, it)
  \/ /\ pc \in {"removed", "delete", "deleteSent"}
     /\ \E it \in todo : ~HasEvent(obj, "delete", it.id)

\* A write is refused: the copy is stale (a conflict, or the object is gone),
\* or the API server (or the lookup of the sales order) fails.
WriteFails ==
  /\ AtWrite
  /\ \/ ~fresh /\ UNCHANGED faults
     \/ faults > 0 /\ faults' = faults - 1
  /\ IF pc = "saveFailed"
     THEN pc' = "failStatus" /\ UNCHANGED <<queued, obj, fresh, todo, branch, sent, tries>>
     ELSE EndReconcile(TRUE)
  /\ UNCHANGED <<apiVars, delivered, envVars>>

\* The process dies and a new one starts: its first list enqueues the object.
Crash ==
  /\ faults > 0 /\ pc # "idle"
  /\ faults' = faults - 1
  /\ EndReconcile(TRUE)
  /\ UNCHANGED <<apiVars, delivered, envVars>>
-----------------------------------------------------------------------------
(* The informer, the clock and the owner of the spec. *)

Refresh ==
  /\ ~cacheFresh
  /\ cache' = srv /\ cacheFresh' = TRUE
  /\ queued' = (queued \/ notify) /\ notify' = FALSE
  /\ obj' = IF pc = "idle" THEN srv ELSE obj
  /\ UNCHANGED <<srv, early, pc, fresh, todo, branch, sent, tries, delivered, envVars, faults>>

\* Time passes freely up to MaxTime, and as far as a grace period needs.
Tick ==
  /\ now < MaxTime \/ (srv.deleting /\ ~KeepElapsed(srv))
  /\ now' = now + 1
  /\ UNCHANGED <<apiVars, localVars, delivered, queued, faults, edits, history>>

\* Another client's write.
Edit(o) ==
  /\ srv.exists /\ edits > 0
  /\ edits' = edits - 1
  /\ Stored(o) /\ fresh' = FALSE
  /\ UNCHANGED <<pc, obj, todo, branch, sent, tries, delivered, now, queued, faults>>

\* What item i had before the spec gives it the next value after v, v included.
Before(i, v) == {v} \cup {u \in Values : <<i, u, v>> \in past}

SetValue ==
  /\ \E i \in Listed(srv), v \in Values :
       /\ <<srv.items[i], v>> \in Rescales
       /\ Edit([srv EXCEPT !.items[i] = v])
       /\ past' = past \cup {<<i, u, v>> : u \in Before(i, srv.items[i])}
  /\ UNCHANGED dropped

AddItem ==
  /\ \E i \in Instances \ Listed(srv), v \in Values : Edit([srv EXCEPT !.items[i] = v])
  /\ UNCHANGED history

\* spec.odoo.items has at least one item.
DropItem ==
  /\ \E i \in Listed(srv) :
       /\ Listed(srv) # {i}
       /\ Edit([srv EXCEPT !.items[i] = Unlisted])
       /\ dropped' = dropped \cup {i}
  /\ UNCHANGED past

Annotate ==
  /\ \E mode \in ResendModes : /\ srv.resend # mode
                               /\ Edit([srv EXCEPT !.resend = mode])
  /\ UNCHANGED history

\* The deletion timestamp is set; without a finalizer the object is gone.
Delete ==
  /\ MayDelete /\ ~srv.deleting
  /\ Edit([srv EXCEPT !.deleting = TRUE, !.deletedAt = now, !.exists = srv.finalizer])
  /\ UNCHANGED history

\* The annotation with the creation time lands in a second apply.
Stamp ==
  /\ srv.exists /\ ~srv.stamped
  /\ Stored([srv EXCEPT !.stamped = TRUE]) /\ fresh' = FALSE
  /\ UNCHANGED <<pc, obj, todo, branch, sent, tries, delivered, envVars, queued, faults>>
-----------------------------------------------------------------------------
NewObject(its, order, stamped) ==
  [exists |-> TRUE, order |-> order, stamped |-> stamped, finalizer |-> FALSE,
   deleting |-> FALSE, deletedAt |-> 0, resend |-> "none", items |-> its,
   events |-> {}, next |-> 0, ready |-> FALSE, synced |-> FALSE]

Init ==
  /\ \E start \in Starts, its \in [Instances -> Values \cup {Unlisted}] :
       /\ srv = NewObject(its, start.order, start.stamped)
       /\ Listed(srv) = start.listed /\ edits = start.edits /\ faults = start.faults
  /\ cache = srv /\ cacheFresh = TRUE /\ notify = FALSE /\ queued = TRUE
  /\ pc = "idle" /\ obj = srv /\ fresh = FALSE /\ todo = {} /\ branch = "none"
  /\ sent = FALSE /\ tries = 0
  /\ delivered = {}
  /\ now = 1 /\ dropped = {} /\ early = {} /\ past = {}

Reconcile ==
  \/ StartReconcile \/ SetSalesOrder \/ AddFinalizer \/ HandleResend
  \/ DropAnnotation \/ CreateItem \/ ScaleItem \/ SkipItem \/ WaitForStamp
  \/ RemoveItem \/ DeleteItem \/ SendEvent \/ SaveFailed \/ PersistSent
  \/ PersistNotFound \/ FailStatus \/ RemoveFinalizer \/ UpdateStatus

Refused == WriteFails \/ PersistConflict
Owner == SetValue \/ AddItem \/ DropItem \/ Annotate \/ Delete

Next == Reconcile \/ Refused \/ SendFails \/ Crash \/ Refresh \/ Tick \/ Owner \/ Stamp

Spec == Init /\ [][Next]_vars

\* Odoo answers, the API server answers, the informer catches up, the clock
\* runs and provider-kubernetes applies the annotation in the end.
FairSpec ==
  /\ Spec
  /\ WF_vars(Reconcile \/ Refused)
  /\ WF_vars(Refresh) /\ WF_vars(Tick) /\ WF_vars(Stamp)
-----------------------------------------------------------------------------
(* Properties. *)

TypeOK ==
  /\ srv \in Object /\ cache \in Object /\ obj \in Object
  /\ cacheFresh \in BOOLEAN /\ notify \in BOOLEAN /\ queued \in BOOLEAN
  /\ fresh \in BOOLEAN /\ sent \in BOOLEAN
  /\ pc \in PCs /\ branch \in {"none", "delete", "initial", "later"}
  /\ todo \in SUBSET Item
  /\ tries \in 0..Attempts
  /\ delivered \in SUBSET Message
  /\ now \in Nat /\ edits \in Nat /\ faults \in Nat
  /\ dropped \in SUBSET Instances /\ early \in SUBSET Instances
  /\ past \in SUBSET (Instances \X Values \X Values)

\* Whatever crashes, conflicts and stale reads happen, an event whose status
\* says "sent" was delivered: Odoo has a message for its instance, type and
\* timestamp (delivery.go, persistEventSent).
SentWasDelivered ==
  \A e \in srv.events : e.state = "sent" => \E m \in delivered : Key(m) = Key(e)

\* The same, value included: the very event that says "sent" was delivered.  Only
\* the newest of several events with one key can say so by mistake, as long as an
\* older one is still to be delivered, after which the newest is marked.
SentEventWasDelivered ==
  \A e \in srv.events : e.state = "sent" =>
    \/ AsMessage(e) \in delivered
    \/ \E f \in srv.events : Key(f) = Key(e) /\ f.seq < e.seq /\ IsUndelivered(f)

\* No step loses an event that is not delivered yet: no pruning, no overwrite
\* with an older copy, no removal of the finalizer (events.go, delete.go).
BacklogNeverDropped ==
  [][\A e \in srv.events : e.state \notin {"sent", "superseded"} =>
        srv'.exists /\ \E f \in srv'.events : AsMessage(f) = AsMessage(e)]_vars

\* Odoo was told of the end of instance i.
EndTold(i) == \E d \in delivered : d.type = "delete" /\ d.id = i

\* Once the resource is gone, Odoo was told of the end of every instance it
\* was ever told of (delete.go, handleDeletion), except those that the spec did not
\* list while all of their sizes were still to be sent, or sent again: the last
\* delivery may be of such a size, and nothing comes after it.
GoneMeansDeleted ==
  ~srv.exists => \A m \in delivered : EndTold(m.id) \/ m.id \in early

Quiet == pc = "idle" /\ ~queued /\ ~notify /\ cacheFresh

\* When nothing is scheduled any more, nothing is left to do: every event is
\* delivered and the conditions say so (no wake-up is lost).
QuietMeansSynced ==
  Quiet /\ srv.exists =>
    /\ Undelivered(srv) = {} /\ srv.resend = "none"
    /\ srv.synced /\ srv.ready = ~srv.deleting

\* The values of the latest create or scale messages about instance i, in
\* the order of their timestamps: what Odoo bills.
Billed(i) ==
  LET sizes == {m \in delivered : m.id = i /\ m.type # "delete"}
  IN {m.value : m \in {m \in sizes : \A n \in sizes : n.ts <= m.ts}}

\* The spec had left the value of item i for another one, and came back to it.
Returned(i) == <<i, srv.items[i], srv.items[i]>> \in past

\* ... and Odoo bills every item that was listed all along at the value of the
\* spec, unless that value returned; sizes of one second are billed together
\* (scale.go, handleItemScaling; create.go, handleItemCreation).
QuietMeansBilled ==
  Quiet /\ srv.exists /\ ~srv.deleting =>
    \A i \in Listed(srv) \ dropped : Returned(i) \/ srv.items[i] \in Billed(i)

\* Not true: the scale event of an earlier time is taken for that of the present.
ReturnMeansBilled ==
  Quiet /\ srv.exists /\ ~srv.deleting =>
    \A i \in Listed(srv) \ dropped : srv.items[i] \in Billed(i)

\* ... and Odoo was told of the end of every instance the spec dropped
\* (remove.go, handleRemovedItems).
QuietMeansEnded ==
  Quiet /\ srv.exists =>
    \A m \in delivered : m.id \in Listed(srv) \/ EndTold(m.id)

\* Until the resource is deleted, Odoo is never told of the end of an instance
\* that was listed all along, whatever copy of the spec the controller works on
\* (remove.go, handleRemovedItems).
EndedWasDropped ==
  ~srv.deleting => \A d \in delivered : d.type = "delete" => d.id \in dropped

\* The queue drains and the controller comes to rest.
EventuallyQuiet == <>[]Quiet

\* A deleted resource goes away once its grace period is over.
DeletedGoesAway == srv.deleting ~> ~srv.exists
-----------------------------------------------------------------------------
(* The inductive invariant behind TypeOK and SentWasDelivered. *)

\* A copy of the object is well-formed, and what it calls sent is among the
\* messages in d.
Sane(o, d) ==
  /\ o \in Object
  /\ \A e \in o.events : e.seq < o.next
  /\ \A e \in o.events : e.state = "sent" => \E m \in d : Key(m) = Key(e)

\* There is something to send at "send", and it was sent at "persist", where
\* an attempt is left.
SendInv ==
  /\ pc \in {"send", "persist"} => Undelivered(obj) # {}
  /\ pc = "persist" => tries > 0 /\ \E m \in delivered : Key(m) = Key(NextToSend(obj))

IInv ==
  /\ TypeOK
  /\ Sane(srv, delivered) /\ Sane(cache, delivered) /\ Sane(obj, delivered)
  /\ SendInv
-----------------------------------------------------------------------------
(* The inductive invariant behind BacklogNeverDropped, QuietMeansSynced and *)
(* QuietMeansEnded, on top of IInv.                                         *)

\* A copy of the object: no event without the finalizer, none to deliver once
\* it is gone, none superseded.
Guarded(o) ==
  /\ o.exists => o.finalizer \/ (o.events = {} /\ ~o.deleting)
  /\ HasBacklog(o) => o.exists
  /\ IsFiniteSet(o.events)
  /\ \A e \in o.events : e.state # "superseded"

\* A copy with the current resource version is the stored object, but for the
\* event that was just found to have failed.
CopyInv ==
  /\ cacheFresh => cache = srv
  /\ fresh => /\ srv.exists
              /\ \/ obj = srv
                 \/ /\ pc \in {"saveFailed", "failStatus"}
                    /\ \E e \in srv.events :
                         IsUndelivered(e) /\ obj = SetState(srv, e, "failed")

\* Neither the resource comes back nor does an instance lose all its events.
HistoryInv ==
  /\ srv.exists => cache.exists
  /\ InstancesOf(cache) \cup InstancesOf(obj) \subseteq InstancesOf(srv)
  /\ \A m \in delivered : m.id \in InstancesOf(srv)

\* Every instance Odoo was told of is listed, or ended by an event of o, or
\* among the items its; an undelivered event means another reconcile.
Ended(o, its) ==
  HasBacklog(o) \/ \A i \in Instances : SentSizes(o, i) # {} =>
    \/ i \in Listed(o) \/ HasEvent(o, "delete", i) \/ \E it \in its : it.id = i

\* What Reconcile knows of its copy o at the call p, with the items its to
\* visit; s tells whether processQueue has persisted a delivery.
OnCourse(o, p, its, s) ==
  /\ p \notin {"idle", "status"} => o.exists
  /\ p \notin {"idle", "status", "order", "finalizer"} => o.finalizer
  /\ p = "finalize" => ~HasBacklog(o)
  /\ p \notin {"idle", "order", "finalizer", "resend", "annotation"} =>
       s \/ o.resend = "none"
  /\ p \in {"removed", "deleteSent"} => s \/ Ended(o, its)
  /\ p \in {"finalize", "status", "statusKeep"} => s \/ Ended(o, {})

\* A reconcile that asks for no other one leaves nothing to do.
Settled(o) ==
  /\ ~HasBacklog(o) /\ Ended(o, {}) /\ o.resend = "none"
  /\ o.synced /\ o.ready = ~o.deleting

KeepInv ==
  /\ Guarded(srv) /\ Guarded(cache) /\ Guarded(obj)
  /\ CopyInv /\ HistoryInv
  /\ OnCourse(obj, pc, todo, sent)
  /\ pc = "idle" /\ ~queued /\ ~notify /\ srv.exists => Settled(srv)

\* What the loop at the call p visits, given the copy o: listed items, dropped
\* ones, or any at all once the resource is deleted.
VisitsItems(o, p, its) ==
  /\ p \in {"items", "scale", "delete"} => \A it \in its : it.id \in Listed(o)
  /\ p = "removed" => \A it \in its : it.id \in InstancesOf(o) \ Listed(o)
  /\ p = "deleteSent" => \A it \in its : it.id \in InstancesOf(o)
  /\ p \in {"delete", "deleteSent"} => o.deleting

\* Until the resource is deleted, every delete among S is about an instance
\* that the spec has dropped.
EndsDropped(S) ==
  srv.deleting \/ \A d \in S : d.type = "delete" => d.id \in dropped

\* The invariant behind EndedWasDropped.
OpenInv ==
  /\ InstancesOf(srv) \subseteq Listed(srv) \cup dropped
  /\ VisitsItems(obj, pc, todo)
  /\ EndsDropped(srv.events) /\ EndsDropped(cache.events) /\ EndsDropped(obj.events)
  /\ EndsDropped(delivered)

\* Odoo was told of the end of instance i, or is going to be.
EndKnown(i) == HasEvent(srv, "delete", i) \/ EndTold(i)

\* Does the deletion that works on obj still come to instance i?
ToVisit(i) ==
  /\ pc \in {"delete", "deleteSent"}
  /\ \/ \E it \in todo : it.id = i
     \/ pc = "delete" /\ i \notin Listed(obj) /\ SentSizes(obj, i) # {}

\* The branch that Reconcile takes goes by its copy.
BranchInv ==
  /\ branch = "delete" => obj.deleting
  /\ pc \in {"idle", "order", "finalizer", "resend", "annotation"} => branch = "none"
  /\ pc \in {"delete", "deleteSent", "finalize"} => branch = "delete"
  /\ pc \in {"items", "scale", "removed"} => ~obj.deleting

\* The instances whose end must be told once the resource is gone.
Charges == InstancesOf(srv) \ early

\* A deletion that works on the copy o comes across all of them.
Covers(o) == \A i \in Charges : i \in Listed(o) \/ SentSizes(o, i) # {} \/ EndKnown(i)

\* The deletions that a copy of the resource knows of.
DeletionInv(o) ==
  /\ o.deleting => srv.deleting /\ Covers(o)
  /\ \A e \in o.events : e.type = "delete" => EndKnown(e.id)

\* The invariant behind GoneMeansDeleted.
GoneInv ==
  /\ BranchInv /\ Untold(srv) \subseteq early
  /\ DeletionInv(cache) /\ DeletionInv(obj)
  /\ branch = "delete" => \A i \in Charges : EndKnown(i) \/ ToVisit(i)
  /\ ~srv.exists => \A i \in Charges : EndTold(i)
-----------------------------------------------------------------------------
(* The invariant behind SentEventWasDelivered.                              *)

\* No two events of a copy have the same number.
Numbered(o) == \A e, f \in o.events : e.seq = f.seq => e = f

\* The calls that come before processQueue.
BeforeQueue == {"order", "finalizer", "resend", "annotation", "items", "scale", "removed",
                "delete", "deleteSent"}

\* What is still to be delivered in copy p is so in copy o, maybe in another state.
Follows(o, p) ==
  \A e \in p.events : IsUndelivered(e) =>
    \E f \in o.events : f.seq = e.seq /\ AsMessage(f) = AsMessage(e) /\ IsUndelivered(f)

\* The newest event that e would mark as sent tells the same as e, or an older one
\* is still to be delivered.
Marks(e) ==
  \A g \in Matching(srv, e) :
    \/ AsMessage(g) = AsMessage(e)
    \/ \E f \in Matching(srv, e) : g.seq < f.seq
    \/ \E f \in Matching(srv, e) : f.seq < g.seq /\ IsUndelivered(f)

MarksInv(o) == \A e \in o.events : IsUndelivered(e) => Marks(e)

\* What is about to be recorded was delivered.
SentInv ==
  /\ Numbered(srv) /\ Numbered(cache) /\ Numbered(obj)
  /\ MarksInv(cache) /\ MarksInv(obj)
  /\ pc \in BeforeQueue /\ fresh => Follows(obj, cache)
  /\ pc = "persist" => AsMessage(NextToSend(obj)) \in delivered
  /\ SentEventWasDelivered
-----------------------------------------------------------------------------
(* The invariants behind QuietMeansBilled.                                  *)

Messages(o) == {AsMessage(e) : e \in o.events}

\* What Odoo was told, and what any copy of the resource might tell it.
Told == Messages(srv) \cup Messages(cache) \cup Messages(obj) \cup delivered
Sizes == {m \in Told : m.type # "delete"}

\* The loops go by the copy they work on; those that use the creation time are
\* the first to enqueue anything.
Looping(o, p, its) ==
  /\ p \in {"items", "scale"} => ~o.deleting /\ its \subseteq SpecItems(o)
  /\ p \in {"delete", "deleteSent"} => o.deleting

LoopInv ==
  /\ Looping(obj, pc, todo)
  /\ pc \in {"items", "scale"} /\ branch = "initial" /\ fresh =>
       delivered = {} /\ \A e \in obj.events : e.type = "create" /\ e.state = "pending"

ClockInv == srv.deletedAt <= now /\ \A m \in Told : m.ts <= now

\* The spec gave item i the value u, and later v; or they are the same.
AtMost(i, u, v) == u = v \/ <<i, u, v>> \in past

\* What came before a value that an item had is before its present value, unless
\* the item was dropped.
PastInv ==
  \A p \in past : \/ p[1] \in dropped
                  \/ /\ p[1] \in Listed(srv)
                     /\ <<p[1], p[2], srv.items[p[1]]>> \in past
                     /\ AtMost(p[1], p[3], srv.items[p[1]])

\* The sizes of an item that was never dropped follow each other as its values did.
ChainInv ==
  /\ PastInv
  /\ \A m \in Sizes : m.id \in dropped \/ AtMost(m.id, m.value, srv.items[m.id])
  /\ \A m, n \in Sizes :
       m.id = n.id /\ m.ts < n.ts => m.id \in dropped \/ AtMost(m.id, m.value, n.value)

\* Nothing is left to enqueue for instance i, apart from the items its.
Charged(o, i) ==
  HasEvent(o, "create", i) /\ ~NeedsScale(o, [id |-> i, value |-> o.items[i]])

ChargedBut(o, its) ==
  HasBacklog(o) \/ \A i \in Listed(o) : Charged(o, i) \/ \E it \in its : it.id = i

\* The same at the call p, with the items its to visit and s as in OnCourse.
Charging(o, p, its, s) ==
  /\ p = "items" => ChargedBut(o, its)
  /\ p = "removed" => ChargedBut(o, {})
  /\ p = "scale" => HasBacklog(o)
  /\ p = "status" /\ ~s /\ o.exists /\ ~o.deleting => ChargedBut(o, {})

ChargeInv ==
  /\ Charging(obj, pc, todo, sent)
  /\ pc = "idle" /\ ~queued /\ ~notify /\ srv.exists /\ ~srv.deleting =>
       \A i \in Listed(srv) : Charged(srv, i)
============================================================================
