--------------------------- MODULE BillingProofs ---------------------------
(***************************************************************************)
(* Proofs about the BillingService controller of module Billing, for every *)
(* number of instances, values, faults and edits.                          *)
(***************************************************************************)
EXTENDS Billing, WellFoundedInduction, FiniteSetTheorems, TLAPS

\* Every non-empty set of naturals has a least element.
LEMMA LeastNat ==
  ASSUME NEW T \in SUBSET Nat, T # {}
  PROVE  \E x \in T : \A y \in T : x <= y
<1>1. \E x \in T : \A y \in T : ~ (<<y, x>> \in OpToRel(<, Nat))
  BY NatLessThanWellFounded, WFMin
<1>2. PICK x \in T : \A y \in T : ~ (<<y, x>> \in OpToRel(<, Nat))
  BY <1>1
<1>3. \A y \in T : ~(y < x)
  BY <1>2 DEF OpToRel
<1> QED  BY <1>3

\* Every non-empty set of naturals below a bound has a greatest element.
LEMMA GreatestNat ==
  ASSUME NEW T \in SUBSET Nat, T # {}, NEW n \in Nat, \A t \in T : t < n
  PROVE  \E x \in T : \A y \in T : y <= x
<1> DEFINE U == {k \in Nat : \A t \in T : t <= k}
<1>1. n \in U
  OBVIOUS
<1>2. PICK k \in U : \A j \in U : k <= j
  BY <1>1, LeastNat
<1>3. CASE k \in T
  BY <1>3
<1>4. CASE k \notin T
  <2>1. \A t \in T : t < k
    BY <1>4
  <2>2. PICK t \in T : t < k
    BY <2>1
  <2>3. k - 1 \in U
    BY <2>1, <2>2
  <2> QED  BY <1>2, <2>3
<1> QED  BY <1>3, <1>4
-----------------------------------------------------------------------------
(* Finding events in the list. *)

\* The newest event of a non-empty list is one of its events.
LEMMA NewestIn ==
  ASSUME NEW o, NEW d, Sane(o, d), NEW S, S \subseteq o.events, S # {}
  PROVE  Newest(S) \in S
<1> DEFINE T == {e.seq : e \in S}
<1>1. S \subseteq Event /\ o.next \in Nat
  BY DEF Sane, Object
<1>2. T \in SUBSET Nat /\ T # {} /\ \A t \in T : t < o.next
  BY <1>1 DEF Sane, Event
<1>3. PICK x \in T : \A y \in T : y <= x
  BY <1>1, <1>2, GreatestNat
<1>4. \E e \in S : \A f \in S : f.seq <= e.seq
  BY <1>3
<1> QED  BY <1>4 DEF Newest

\* The oldest event of a non-empty list is one of its events.
LEMMA OldestIn ==
  ASSUME NEW o \in Object, NEW S, S \subseteq o.events, S # {}
  PROVE  Oldest(S) \in S
<1> DEFINE T == {e.seq : e \in S}
<1>1. S \subseteq Event
  BY DEF Object
<1>2. T \in SUBSET Nat /\ T # {}
  BY <1>1 DEF Event
<1>3. PICK x \in T : \A y \in T : x <= y
  BY <1>2, LeastNat
<1>4. \E e \in S : \A f \in S : e.seq <= f.seq
  BY <1>3
<1> QED  BY <1>4 DEF Oldest

\* processQueue picks an undelivered event when there is one.
LEMMA NextToSendIn ==
  ASSUME NEW o \in Object, Undelivered(o) # {}
  PROVE  NextToSend(o) \in o.events /\ IsUndelivered(NextToSend(o))
<1> DEFINE S == IF InState(o, "resend") # {} THEN InState(o, "resend")
                ELSE IF InState(o, "failed") # {} THEN InState(o, "failed")
                ELSE IF PendingDeletes(o) # {} THEN PendingDeletes(o)
                ELSE InState(o, "pending")
<1>1. S # {} /\ S \subseteq o.events /\ \A e \in S : IsUndelivered(e)
  BY DEF Undelivered, InState, PendingDeletes, IsUndelivered
<1>2. Oldest(S) \in S
  BY <1>1, OldestIn
<1> QED  BY <1>1, <1>2 DEF NextToSend

\* The items the loops of Reconcile range over are items.
LEMMA ItemsType ==
  ASSUME NEW o, NEW d, Sane(o, d)
  PROVE  /\ SpecItems(o) \subseteq Item
         /\ LastSent(o) \subseteq Item
         /\ Leftovers(o) \subseteq Item
<1>1. o \in Object
  BY DEF Sane
<1>2. SpecItems(o) \subseteq Item
  BY <1>1 DEF SpecItems, Listed, Object, Item
<1>3. ASSUME NEW i \in Instances, SentSizes(o, i) # {}
      PROVE  Newest(SentSizes(o, i)).value \in Values
  <2>1. Newest(SentSizes(o, i)) \in SentSizes(o, i)
    BY <1>3, NewestIn DEF SentSizes
  <2> QED  BY <1>1, <2>1 DEF SentSizes, Object, Event
<1>4. LastSent(o) \subseteq Item
  BY <1>3 DEF LastSent, Item
<1> QED  BY <1>2, <1>4 DEF Leftovers

\* The value of a delete event is a value.
LEMMA LastObservedValueType ==
  ASSUME NEW o, NEW d, Sane(o, d), NEW it \in Item
  PROVE  LastObservedValue(o, it) \in Values
<1>1. CASE SentSizes(o, it.id) = {}
  BY <1>1 DEF LastObservedValue, Item
<1>2. CASE SentSizes(o, it.id) # {}
  <2>1. Newest(SentSizes(o, it.id)) \in SentSizes(o, it.id)
    BY <1>2, NewestIn DEF SentSizes
  <2> QED  BY <1>2, <2>1 DEF LastObservedValue, SentSizes, Sane, Object, Event
<1> QED  BY <1>1, <1>2
-----------------------------------------------------------------------------
(* What the operations on a copy preserve. *)

\* More messages at Odoo do no harm.
LEMMA SaneMono ==
  ASSUME NEW o, NEW d, NEW d2, Sane(o, d), d \subseteq d2
  PROVE  Sane(o, d2)
BY DEF Sane

\* Changes that leave the list of events alone.
LEMMA SaneSameEvents ==
  ASSUME NEW o, NEW d, Sane(o, d), NEW p \in Object,
         p.events = o.events, p.next = o.next
  PROVE  Sane(p, d)
BY DEF Sane

\* enqueueEvent, pruning included.
LEMMA SaneEnqueue ==
  ASSUME NEW o, NEW d, Sane(o, d), NEW type \in EventTypes,
         NEW i \in Instances, NEW v \in Values, NEW ts \in Nat
  PROVE  Sane(EnqueueEvent(o, type, i, v, ts), d)
<1> DEFINE n == NewEvent(o, type, i, v, ts)
           p == EnqueueEvent(o, type, i, v, ts)
<1>1. o \in Object /\ o.events \subseteq Event /\ o.next \in Nat
  BY DEF Sane, Object
<1>2. n \in Event /\ n.seq = o.next /\ n.state = "pending"
  BY <1>1 DEF NewEvent, Event, EventStates
<1>3. PruneEvents(o.events \cup {n}) \subseteq o.events \cup {n}
  BY DEF PruneEvents
<1>4. p \in Object /\ p.next = o.next + 1 /\ p.events = PruneEvents(o.events \cup {n})
  <2> DEFINE evs == PruneEvents(o.events \cup {n})
  <2>1. evs \in SUBSET Event /\ o.next + 1 \in Nat
    <3> HIDE DEF n
    <3>1. evs \subseteq Event
      BY <1>1, <1>2, <1>3
    <3> QED  BY <1>1, <3>1
  <2>2. p = [o EXCEPT !.events = evs, !.next = o.next + 1]
    BY <1>1 DEF EnqueueEvent, Object
  <2> HIDE DEF evs, n, p
  <2>3. p \in Object /\ p.next = o.next + 1 /\ p.events = evs
    BY <1>1, <2>1, <2>2 DEF Object
  <2> QED  BY <2>3 DEF evs
<1>5. \A e \in p.events : e \in o.events \/ e = n
  BY <1>3, <1>4
<1>6. ASSUME NEW e \in p.events
      PROVE  e.seq < p.next
  <2>1. CASE e \in o.events
    BY <1>1, <1>4, <2>1 DEF Sane, Event
  <2>2. CASE e = n
    BY <1>1, <1>2, <1>4, <2>2
  <2> QED  BY <1>5, <2>1, <2>2
<1>7. ASSUME NEW e \in p.events, e.state = "sent"
      PROVE  \E m \in d : Key(m) = Key(e)
  BY <1>2, <1>5, <1>7 DEF Sane
<1> QED  BY <1>4, <1>6, <1>7 DEF Sane

\* Changing the state of one event; it may become sent once Odoo has it.
LEMMA SaneSetState ==
  ASSUME NEW o, NEW d, Sane(o, d), NEW e \in o.events, NEW s \in EventStates,
         s = "sent" => \E m \in d : Key(m) = Key(e)
  PROVE  Sane(SetState(o, e, s), d)
<1> DEFINE f == [e EXCEPT !.state = s]
           p == SetState(o, e, s)
<1>1. o \in Object /\ o.events \subseteq Event /\ o.next \in Nat
  BY DEF Sane, Object
<1>2. f \in Event /\ f.seq = e.seq /\ f.state = s /\ Key(f) = Key(e)
  BY <1>1 DEF Event, Key
<1>3. p \in Object /\ p.next = o.next /\ p.events = (o.events \ {e}) \cup {f}
  BY <1>1, <1>2 DEF SetState, Object
<1>4. \A g \in p.events : g.seq < p.next
  BY <1>2, <1>3 DEF Sane
<1>5. \A g \in p.events : g.state = "sent" => \E m \in d : Key(m) = Key(g)
  BY <1>2, <1>3 DEF Sane
<1> QED  BY <1>3, <1>4, <1>5 DEF Sane

\* handleResendAnnotation.
LEMMA SaneMarkResend ==
  ASSUME NEW o, NEW d, Sane(o, d)
  PROVE  Sane(MarkResend(o), d)
<1> DEFINE Mark(e) == IF e.state \in ResendStates(o.resend)
                      THEN [e EXCEPT !.state = "resend"] ELSE e
           p == MarkResend(o)
<1>1. o \in Object /\ o.events \subseteq Event
  BY DEF Sane, Object
<1>2. \A e \in o.events : /\ Mark(e) \in Event /\ Mark(e).seq = e.seq
                          /\ Mark(e).state = "sent" => Mark(e) = e
  BY <1>1 DEF Event, EventStates
<1>3. p \in Object /\ p.next = o.next /\ p.events = {Mark(e) : e \in o.events}
  BY <1>1, <1>2 DEF MarkResend, Object
<1>4. \A g \in p.events : \E e \in o.events : g = Mark(e)
  BY <1>3
<1>5. \A g \in p.events : g.seq < p.next
  BY <1>2, <1>3, <1>4 DEF Sane
<1>6. \A g \in p.events : g.state = "sent" => \E m \in d : Key(m) = Key(g)
  BY <1>2, <1>4 DEF Sane
<1> QED  BY <1>3, <1>5, <1>6 DEF Sane
-----------------------------------------------------------------------------
(* Where the stages of Reconcile lead. *)

\* Moving to the next call with the copy o leaves the local state well-formed.
Entered(o) ==
  /\ pc' \in PCs \ {"persist"}
  /\ todo' \in SUBSET Item
  /\ pc' = "send" => Undelivered(o) # {}

Branches == {"none", "delete", "initial", "later"}

\* What follows the loops.
LEMMA EnterQueueOK ==
  ASSUME NEW o, EnterQueue(o)
  PROVE  Entered(o)
BY DEF EnterQueue, Entered, AfterQueue, PCs

\* The loop over removed items.
LEMMA EnterRemovedOK ==
  ASSUME NEW o, NEW its \in SUBSET Item, EnterRemoved(o, its)
  PROVE  Entered(o)
<1>1. CASE its = {}
  BY <1>1, EnterQueueOK DEF EnterRemoved
<1>2. CASE its # {}
  BY <1>2 DEF EnterRemoved, Entered, PCs
<1> QED  BY <1>1, <1>2

\* The loop over the items of the spec.
LEMMA EnterItemsOK ==
  ASSUME NEW o, NEW d, Sane(o, d), NEW its \in SUBSET Item, EnterItems(o, its)
  PROVE  Entered(o)
<1>1. CASE its = {}
  BY <1>1, ItemsType, EnterRemovedOK DEF EnterItems
<1>2. CASE its # {}
  BY <1>2 DEF EnterItems, Entered, PCs
<1> QED  BY <1>1, <1>2

\* The loop over the sent instances of a deleted resource.
LEMMA EnterDeleteSentOK ==
  ASSUME NEW o, NEW its \in SUBSET Item, EnterDeleteSent(o, its)
  PROVE  Entered(o)
<1>1. CASE its = {}
  BY <1>1, EnterQueueOK DEF EnterDeleteSent
<1>2. CASE its # {}
  BY <1>2 DEF EnterDeleteSent, Entered, PCs
<1> QED  BY <1>1, <1>2

\* The loop over the items of a deleted resource.
LEMMA EnterDeleteOK ==
  ASSUME NEW o, NEW d, Sane(o, d), NEW its \in SUBSET Item, EnterDelete(o, its)
  PROVE  Entered(o)
<1>1. CASE its = {}
  BY <1>1, ItemsType, EnterDeleteSentOK DEF EnterDelete
<1>2. CASE its # {}
  BY <1>2 DEF EnterDelete, Entered, PCs
<1> QED  BY <1>1, <1>2

\* The branch for deletion, or the other one.
LEMMA EnterBranchOK ==
  ASSUME NEW o, NEW d, Sane(o, d), EnterBranch(o)
  PROVE  Entered(o) /\ branch' \in Branches
<1>1. branch' \in Branches
  BY DEF EnterBranch, Branches
<1>2. CASE o.deleting
  BY <1>1, <1>2, ItemsType, EnterDeleteOK DEF EnterBranch
<1>3. CASE ~o.deleting
  BY <1>1, <1>3, ItemsType, EnterItemsOK DEF EnterBranch
<1> QED  BY <1>1, <1>2, <1>3

\* handleResendAnnotation, or what follows it.
LEMMA EnterResendOK ==
  ASSUME NEW o, NEW d, Sane(o, d), todo \in SUBSET Item, branch \in Branches,
         EnterResend(o)
  PROVE  Entered(o) /\ branch' \in Branches
<1>1. CASE o.resend = "none"
  BY <1>1, EnterBranchOK DEF EnterResend
<1>2. CASE o.resend # "none"
  BY <1>2 DEF EnterResend, Entered, PCs
<1> QED  BY <1>1, <1>2

\* Adding the finalizer, or what follows it.
LEMMA EnterFinalizerOK ==
  ASSUME NEW o, NEW d, Sane(o, d), todo \in SUBSET Item, branch \in Branches,
         EnterFinalizer(o)
  PROVE  Entered(o) /\ branch' \in Branches
<1>1. CASE ~o.deleting /\ ~o.finalizer
  BY <1>1 DEF EnterFinalizer, Entered, PCs
<1>2. CASE ~(~o.deleting /\ ~o.finalizer)
  BY <1>2, EnterResendOK DEF EnterFinalizer
<1> QED  BY <1>1, <1>2

\* Setting the sales order, or what follows it.
LEMMA EnterOrderOK ==
  ASSUME NEW o, NEW d, Sane(o, d), todo \in SUBSET Item, branch \in Branches,
         EnterOrder(o)
  PROVE  Entered(o) /\ branch' \in Branches
<1>1. CASE ~o.order
  BY <1>1 DEF EnterOrder, Entered, PCs
<1>2. CASE o.order
  BY <1>2, EnterFinalizerOK DEF EnterOrder
<1> QED  BY <1>1, <1>2
-----------------------------------------------------------------------------
(* Steps. *)

\* What the API server stores is well-formed if what is written is.
LEMMA StoredOK ==
  ASSUME NEW o, Stored(o), Sane(cache, delivered), Sane(o, delivered),
         early \in SUBSET Instances, UNCHANGED delivered
  PROVE  /\ Sane(srv, delivered)' /\ Sane(cache, delivered)'
         /\ cacheFresh' \in BOOLEAN /\ notify' \in BOOLEAN /\ early' \in SUBSET Instances
<1>1. Untold(o) \subseteq Instances
  BY DEF Sane, Untold, InstancesOf, Object, Event
<1> QED  BY <1>1 DEF Stored

\* A write by the reconciler also replaces its local copy.
LEMMA UpdateOK ==
  ASSUME NEW o, Update(o), Sane(cache, delivered), Sane(o, delivered),
         early \in SUBSET Instances, UNCHANGED delivered
  PROVE  /\ Sane(srv, delivered)' /\ Sane(cache, delivered)' /\ Sane(obj, delivered)'
         /\ cacheFresh' \in BOOLEAN /\ notify' \in BOOLEAN /\ fresh' \in BOOLEAN
         /\ early' \in SUBSET Instances /\ obj' = o
<1>1. o.exists \in BOOLEAN
  BY DEF Sane, Object
<1> QED  BY <1>1, StoredOK DEF Update

\* The end of a reconcile leaves nothing behind.
LEMMA EndReconcileOK ==
  ASSUME NEW b \in BOOLEAN, EndReconcile(b),
         Sane(cache, delivered), UNCHANGED delivered, queued \in BOOLEAN
  PROVE  /\ Sane(obj, delivered)' /\ pc' = "idle"
         /\ queued' \in BOOLEAN /\ fresh' \in BOOLEAN /\ sent' \in BOOLEAN
         /\ todo' \in SUBSET Item /\ branch' \in Branches /\ tries' \in 0..Attempts
<1>1. 0 \in 0..Attempts
  BY BillingAssumption
<1> QED  BY <1>1 DEF EndReconcile, Branches

\* What the properties need to know of the past.
HistoryOK ==
  /\ dropped \in SUBSET Instances
  /\ past \in SUBSET (Instances \X Values \X Values)

\* The invariant holds again if every part of it does; Object is part of Sane.
LEMMA IInvFromParts ==
  ASSUME Sane(srv, delivered)', Sane(cache, delivered)', Sane(obj, delivered)',
         cacheFresh' \in BOOLEAN, notify' \in BOOLEAN, queued' \in BOOLEAN,
         fresh' \in BOOLEAN, sent' \in BOOLEAN,
         pc' \in PCs, branch' \in Branches, todo' \in SUBSET Item,
         tries' \in 0..Attempts, delivered' \in SUBSET Message,
         now' \in Nat, edits' \in Nat, faults' \in Nat,
         early' \in SUBSET Instances, HistoryOK', SendInv'
  PROVE  IInv'
BY DEF IInv, TypeOK, HistoryOK, Sane, Branches

\* A write by the reconciler that moves on to the next call.
LEMMA UpdateStep ==
  ASSUME IInv, NEW o, Sane(o, delivered), Update(o), Entered(o),
         branch' \in Branches, now' \in Nat, UNCHANGED unchangedByWrite
  PROVE  IInv'
<1>1. Sane(cache, delivered) /\ early \in SUBSET Instances
  BY DEF IInv, TypeOK
<1>2. /\ Sane(srv, delivered)' /\ Sane(cache, delivered)' /\ Sane(obj, delivered)'
      /\ cacheFresh' \in BOOLEAN /\ notify' \in BOOLEAN /\ fresh' \in BOOLEAN
      /\ early' \in SUBSET Instances /\ obj' = o
  BY <1>1, UpdateOK DEF unchangedByWrite
<1>3. HistoryOK'
  BY DEF IInv, TypeOK, HistoryOK, unchangedByWrite, history
<1>4. SendInv'
  BY <1>2 DEF Entered, SendInv, Undelivered, InState
<1> QED
  BY <1>2, <1>3, <1>4, IInvFromParts DEF IInv, TypeOK, Entered, unchangedByWrite

\* A step of the reconciler that makes no call.
LEMMA SkipStep ==
  ASSUME IInv, Entered(obj), UNCHANGED <<unchangedByWrite, apiVars, obj, fresh, branch, now>>
  PROVE  IInv'
<1>1. SendInv'
  BY DEF Entered, SendInv, Undelivered, InState
<1> QED
  BY <1>1 DEF IInv, TypeOK, Entered, unchangedByWrite, history, apiVars, Sane, Branches

\* A step that ends the reconcile without a write.
LEMMA EndStep ==
  ASSUME IInv, NEW b \in BOOLEAN, EndReconcile(b), faults' \in Nat,
         UNCHANGED <<apiVars, delivered, envVars>>
  PROVE  IInv'
<1>1. /\ Sane(srv, delivered)' /\ Sane(cache, delivered)'
      /\ cacheFresh' \in BOOLEAN /\ notify' \in BOOLEAN
      /\ delivered' \in SUBSET Message /\ now' \in Nat
      /\ edits' \in Nat /\ HistoryOK' /\ early' \in SUBSET Instances
  BY DEF IInv, TypeOK, apiVars, envVars, history, HistoryOK
<1>2. Sane(cache, delivered) /\ queued \in BOOLEAN
  BY DEF IInv, TypeOK
<1>3. /\ Sane(obj, delivered)' /\ pc' = "idle"
      /\ queued' \in BOOLEAN /\ fresh' \in BOOLEAN /\ sent' \in BOOLEAN
      /\ todo' \in SUBSET Item /\ branch' \in Branches /\ tries' \in 0..Attempts
  BY <1>2, EndReconcileOK
<1>4. SendInv' /\ pc' \in PCs
  BY <1>3 DEF SendInv, PCs
<1> QED  BY <1>1, <1>3, <1>4, IInvFromParts

\* updateStatus, then the end of the reconcile.
LEMMA StatusStep ==
  ASSUME IInv, NEW b \in BOOLEAN, Stored(SetConditions(obj)), EndReconcile(b),
         UNCHANGED <<delivered, envVars, faults>>
  PROVE  IInv'
<1>1. /\ Sane(obj, delivered) /\ Sane(cache, delivered) /\ queued \in BOOLEAN
      /\ early \in SUBSET Instances
  BY DEF IInv, TypeOK
<1>2. Sane(SetConditions(obj), delivered)
  <2>1. HasBacklog(obj) \in BOOLEAN
    BY DEF HasBacklog, IsUndelivered
  <2>2. obj \in Object
    BY <1>1 DEF Sane
  <2>3. /\ SetConditions(obj) \in Object
        /\ SetConditions(obj).events = obj.events /\ SetConditions(obj).next = obj.next
    BY <2>1, <2>2 DEF SetConditions, Object
  <2> QED  BY <1>1, <2>3, SaneSameEvents
<1>3. /\ Sane(srv, delivered)' /\ Sane(cache, delivered)'
      /\ cacheFresh' \in BOOLEAN /\ notify' \in BOOLEAN /\ early' \in SUBSET Instances
  BY <1>1, <1>2, StoredOK
<1>4. /\ Sane(obj, delivered)' /\ pc' = "idle"
      /\ queued' \in BOOLEAN /\ fresh' \in BOOLEAN /\ sent' \in BOOLEAN
      /\ todo' \in SUBSET Item /\ branch' \in Branches /\ tries' \in 0..Attempts
  BY <1>1, EndReconcileOK
<1>5. SendInv' /\ pc' \in PCs
  BY <1>4 DEF SendInv, PCs
<1>6. /\ delivered' \in SUBSET Message /\ now' \in Nat /\ faults' \in Nat
      /\ edits' \in Nat /\ HistoryOK'
  BY DEF IInv, TypeOK, envVars, history, HistoryOK
<1> QED  BY <1>3, <1>4, <1>5, <1>6, IInvFromParts

\* A write by another client: the reconciler's copy stays as it is.
LEMMA ForeignStep ==
  ASSUME IInv, NEW o, o \in Object, o.events = srv.events, o.next = srv.next,
         Stored(o), fresh' = FALSE, edits' \in Nat, HistoryOK',
         UNCHANGED <<pc, obj, todo, branch, sent, tries, delivered, now, queued, faults>>
  PROVE  IInv'
<1>1. Sane(srv, delivered) /\ Sane(cache, delivered) /\ early \in SUBSET Instances
  BY DEF IInv, TypeOK
<1>2. Sane(o, delivered)
  BY <1>1, SaneSameEvents
<1>3. /\ Sane(srv, delivered)' /\ Sane(cache, delivered)'
      /\ cacheFresh' \in BOOLEAN /\ notify' \in BOOLEAN /\ early' \in SUBSET Instances
  BY <1>1, <1>2, StoredOK
<1>4. SendInv'
  BY DEF IInv, SendInv, Undelivered, InState, NextToSend, PendingDeletes
<1>5. Sane(obj, delivered)'
  BY DEF IInv
<1> QED  BY <1>3, <1>4, <1>5, IInvFromParts DEF IInv, TypeOK, Branches
-----------------------------------------------------------------------------
(* IInv is an invariant. *)

\* A BillingService that was just created satisfies the invariant.
LEMMA InitOK == Init => IInv
<1> SUFFICES ASSUME Init PROVE IInv
  OBVIOUS
<1>1. srv \in Object /\ srv.events = {} /\ HistoryOK
  BY BillingAssumption DEF Init, NewObject, Object, HistoryOK
<1>2. Sane(srv, delivered)
  BY <1>1 DEF Sane
<1>3. /\ pc = "idle" /\ cache = srv /\ obj = srv /\ delivered = {}
      /\ cacheFresh = TRUE /\ notify = FALSE /\ queued = TRUE /\ fresh = FALSE
      /\ todo = {} /\ branch = "none" /\ sent = FALSE /\ tries = 0
      /\ now = 1 /\ edits \in Nat /\ faults \in Nat /\ early = {}
  BY BillingAssumption DEF Init
<1>4. Sane(cache, delivered) /\ Sane(obj, delivered) /\ SendInv
  BY <1>2, <1>3 DEF SendInv
<1>5. 0 \in 0..Attempts
  BY BillingAssumption
<1>6. /\ tries \in 0..Attempts /\ now \in Nat /\ edits \in Nat
      /\ faults \in Nat /\ pc \in PCs
      /\ todo \in SUBSET Item /\ delivered \in SUBSET Message
  BY <1>3, <1>5 DEF PCs
<1>7. TypeOK
  BY <1>1, <1>3, <1>6 DEF TypeOK, HistoryOK
<1> QED  BY <1>2, <1>4, <1>7 DEF IInv

\* Steps of Reconcile that write the local copy: what is written is
\* well-formed, and so is the state they move to.
LEMMA WriteActionsOK ==
  ASSUME IInv,
         SetSalesOrder \/ AddFinalizer \/ HandleResend \/ DropAnnotation
           \/ SaveFailed \/ RemoveFinalizer
  PROVE  IInv'
<1>1. /\ Sane(obj, delivered) /\ obj \in Object /\ todo \in SUBSET Item
      /\ branch \in Branches /\ now \in Nat
  BY DEF IInv, TypeOK, Branches
<1>2. CASE SetSalesOrder
  <2> DEFINE o == [obj EXCEPT !.order = TRUE]
  <2>1. o \in Object /\ o.events = obj.events /\ o.next = obj.next
    BY <1>1 DEF Object
  <2>2. Sane(o, delivered)
    BY <1>1, <2>1, SaneSameEvents
  <2>3. Update(o) /\ EnterFinalizer(o) /\ UNCHANGED <<unchangedByWrite, now>>
    BY <1>2 DEF SetSalesOrder
  <2> HIDE DEF o
  <2>4. Entered(o) /\ branch' \in Branches
    BY <1>1, <2>2, <2>3, EnterFinalizerOK
  <2> QED  BY <1>1, <2>2, <2>3, <2>4, UpdateStep
<1>3. CASE AddFinalizer
  <2> DEFINE o == [obj EXCEPT !.finalizer = TRUE]
  <2>1. o \in Object /\ o.events = obj.events /\ o.next = obj.next
    BY <1>1 DEF Object
  <2>2. Sane(o, delivered)
    BY <1>1, <2>1, SaneSameEvents
  <2>3. Update(o) /\ EnterResend(o) /\ UNCHANGED <<unchangedByWrite, now>>
    BY <1>3 DEF AddFinalizer
  <2> HIDE DEF o
  <2>4. Entered(o) /\ branch' \in Branches
    BY <1>1, <2>2, <2>3, EnterResendOK
  <2> QED  BY <1>1, <2>2, <2>3, <2>4, UpdateStep
<1>4. CASE HandleResend
  <2>1. Sane(MarkResend(obj), delivered)
    BY <1>1, SaneMarkResend
  <2>2. Update(MarkResend(obj)) /\ UNCHANGED <<unchangedByWrite, now>>
    BY <1>4 DEF HandleResend
  <2>3. Entered(MarkResend(obj)) /\ branch' \in Branches
    BY <1>1, <1>4 DEF HandleResend, Entered, PCs
  <2> QED  BY <1>1, <2>1, <2>2, <2>3, UpdateStep
<1>5. CASE DropAnnotation
  <2> DEFINE o == [obj EXCEPT !.resend = "none"]
  <2>1. o \in Object /\ o.events = obj.events /\ o.next = obj.next
    BY <1>1 DEF Object
  <2>2. Sane(o, delivered)
    BY <1>1, <2>1, SaneSameEvents
  <2>3. Update(o) /\ EnterBranch(o) /\ UNCHANGED <<unchangedByWrite, now>>
    BY <1>5 DEF DropAnnotation
  <2> HIDE DEF o
  <2>4. Entered(o) /\ branch' \in Branches
    BY <1>1, <2>2, <2>3, EnterBranchOK
  <2> QED  BY <1>1, <2>2, <2>3, <2>4, UpdateStep
<1>6. CASE SaveFailed
  <2>1. Update(obj) /\ UNCHANGED <<unchangedByWrite, now>>
    BY <1>6 DEF SaveFailed
  <2>2. Entered(obj) /\ branch' \in Branches
    BY <1>1, <1>6 DEF SaveFailed, Entered, PCs
  <2> QED  BY <1>1, <2>1, <2>2, UpdateStep
<1>7. CASE RemoveFinalizer
  <2> DEFINE o == [obj EXCEPT !.finalizer = FALSE, !.exists = FALSE]
  <2>1. o \in Object /\ o.events = obj.events /\ o.next = obj.next
    BY <1>1 DEF Object
  <2>2. Sane(o, delivered)
    BY <1>1, <2>1, SaneSameEvents
  <2>3. Update(o) /\ UNCHANGED <<unchangedByWrite, now>>
    BY <1>7 DEF RemoveFinalizer
  <2> HIDE DEF o
  <2>4. Entered(o) /\ branch' \in Branches
    BY <1>1, <1>7 DEF RemoveFinalizer, Entered, PCs
  <2> QED  BY <1>1, <2>2, <2>3, <2>4, UpdateStep
<1> QED  BY <1>2, <1>3, <1>4, <1>5, <1>6, <1>7

\* The loops: every event they enqueue is well-formed.
LEMMA LoopActionsOK ==
  ASSUME IInv, CreateItem \/ ScaleItem \/ SkipItem \/ RemoveItem \/ DeleteItem
  PROVE  IInv'
<1>1. /\ Sane(obj, delivered) /\ obj \in Object /\ todo \in SUBSET Item
      /\ branch \in Branches /\ now \in Nat /\ obj.deletedAt \in Nat
  BY DEF IInv, TypeOK, Branches, Object
<1>2. \A o : MayEnqueue(o) => now' \in Nat
  BY <1>1, BillingAssumption DEF MayEnqueue
<1>3. \A it \in todo : it.id \in Instances /\ it.value \in Values /\ it \in Item
  BY <1>1 DEF Item
<1>4. {"create", "scale", "delete"} \subseteq EventTypes /\ CreationTime \in Nat
  BY <1>1 DEF EventTypes, CreationTime
<1>5. CASE CreateItem
  <2>1. PICK it \in todo :
          /\ MayEnqueue(obj)
          /\ Update(EnqueueCreate(it))
          /\ IF NeedsScale(EnqueueCreate(it), it)
             THEN pc' = "scale" /\ UNCHANGED todo
             ELSE EnterItems(EnqueueCreate(it), todo \ {it})
    BY <1>5 DEF CreateItem
  <2>2. Sane(EnqueueCreate(it), delivered)
    BY <1>1, <1>3, <1>4, SaneEnqueue DEF EnqueueCreate
  <2>3. Entered(EnqueueCreate(it))
    <3>1. CASE NeedsScale(EnqueueCreate(it), it)
      BY <1>1, <2>1, <3>1 DEF Entered, PCs
    <3>2. CASE ~NeedsScale(EnqueueCreate(it), it)
      BY <1>1, <2>1, <2>2, <3>2, EnterItemsOK
    <3> QED  BY <3>1, <3>2
  <2>4. branch' \in Branches /\ UNCHANGED unchangedByWrite
    BY <1>1, <1>5 DEF CreateItem
  <2> QED  BY <1>2, <2>1, <2>2, <2>3, <2>4, UpdateStep
<1>6. CASE ScaleItem
  <2>1. PICK it \in todo :
          /\ MayEnqueue(obj)
          /\ Update(ScaleTo(it))
          /\ EnterItems(ScaleTo(it), todo \ {it})
    BY <1>6 DEF ScaleItem
  <2>2. Sane(ScaleTo(it), delivered)
    BY <1>1, <1>3, <1>4, SaneEnqueue DEF ScaleTo
  <2>3. Entered(ScaleTo(it))
    BY <1>1, <2>1, <2>2, EnterItemsOK
  <2>4. branch' \in Branches /\ UNCHANGED unchangedByWrite
    BY <1>1, <1>6 DEF ScaleItem
  <2> QED  BY <1>2, <2>1, <2>2, <2>3, <2>4, UpdateStep
<1>7. CASE SkipItem
  <2>1. PICK it \in todo : EnterItems(obj, todo \ {it})
    BY <1>7 DEF SkipItem
  <2>2. Entered(obj)
    BY <1>1, <2>1, EnterItemsOK
  <2> QED
    BY <1>7, <2>2, SkipStep DEF SkipItem, unchangedByWrite, envVars, history
<1>8. CASE RemoveItem
  <2>1. PICK it \in todo :
          IF HasEvent(obj, "delete", it.id)
          THEN /\ EnterRemoved(obj, todo \ {it})
               /\ UNCHANGED <<apiVars, obj, fresh, now>>
          ELSE /\ MayEnqueue(obj)
               /\ Update(RemoveLeftover(it))
               /\ EnterRemoved(RemoveLeftover(it), todo \ {it})
    BY <1>8 DEF RemoveItem
  <2>2. branch' \in Branches /\ UNCHANGED <<unchangedByWrite, branch>>
    BY <1>1, <1>8 DEF RemoveItem
  <2>3. CASE HasEvent(obj, "delete", it.id)
    <3>1. Entered(obj)
      BY <1>1, <2>1, <2>3, EnterRemovedOK
    <3> QED  BY <2>1, <2>2, <2>3, <3>1, SkipStep
  <2>4. CASE ~HasEvent(obj, "delete", it.id)
    <3>1. Sane(RemoveLeftover(it), delivered)
      BY <1>1, <1>3, <1>4, SaneEnqueue DEF RemoveLeftover
    <3>2. Entered(RemoveLeftover(it))
      BY <1>1, <2>1, <2>4, EnterRemovedOK
    <3> QED  BY <1>2, <2>1, <2>2, <2>4, <3>1, <3>2, UpdateStep
  <2> QED  BY <2>3, <2>4
<1>9. CASE DeleteItem
  <2> DEFINE Enter(it, o) == IF pc = "delete" THEN EnterDelete(o, todo \ {it})
                             ELSE EnterDeleteSent(o, todo \ {it})
  <2>1. PICK it \in todo :
          IF HasEvent(obj, "delete", it.id)
          THEN Enter(it, obj) /\ UNCHANGED <<apiVars, obj, fresh, now>>
          ELSE /\ MayEnqueue(obj)
               /\ Update(EnqueueDelete(it))
               /\ Enter(it, EnqueueDelete(it))
    BY <1>9 DEF DeleteItem
  <2>2. branch' \in Branches /\ UNCHANGED <<unchangedByWrite, branch>>
    BY <1>1, <1>9 DEF DeleteItem
  <2>3. ASSUME NEW o, Sane(o, delivered), Enter(it, o)
        PROVE  Entered(o)
    BY <1>1, <2>3, EnterDeleteOK, EnterDeleteSentOK
  <2> HIDE DEF Enter
  <2>4. CASE HasEvent(obj, "delete", it.id)
    <3>1. Entered(obj)
      BY <1>1, <2>1, <2>3, <2>4
    <3> QED  BY <2>1, <2>2, <2>4, <3>1, SkipStep
  <2>5. CASE ~HasEvent(obj, "delete", it.id)
    <3>1. LastObservedValue(obj, it) \in Values
      BY <1>1, <1>3, LastObservedValueType
    <3>2. Sane(EnqueueDelete(it), delivered)
      BY <1>1, <1>3, <1>4, <3>1, SaneEnqueue DEF EnqueueDelete
    <3>3. Entered(EnqueueDelete(it))
      BY <2>1, <2>3, <2>5, <3>2
    <3> QED  BY <1>2, <2>1, <2>2, <2>5, <3>2, <3>3, UpdateStep
  <2> QED  BY <2>4, <2>5
<1> QED  BY <1>5, <1>6, <1>7, <1>8, <1>9

\* Delivery: an event is marked sent only after Odoo has its message.
LEMMA DeliveryOK ==
  ASSUME IInv, SendEvent \/ SendFails \/ PersistSent \/ PersistNotFound \/ PersistConflict
  PROVE  IInv'
<1> DEFINE e == NextToSend(obj)
<1>1. /\ Sane(srv, delivered) /\ Sane(cache, delivered) /\ Sane(obj, delivered)
      /\ obj \in Object /\ todo \in SUBSET Item /\ branch \in Branches
      /\ delivered \in SUBSET Message /\ tries \in 0..Attempts
      /\ early \in SUBSET Instances
  BY DEF IInv, TypeOK, Branches
<1>2. Undelivered(obj) # {}
  BY DEF IInv, SendInv, SendEvent, SendFails, PersistSent, PersistNotFound, PersistConflict
<1>3. e \in obj.events
  BY <1>1, <1>2, NextToSendIn
<1>4. e \in Event
  BY <1>1, <1>3 DEF Object
<1> HIDE DEF e
<1>5. AsMessage(e) \in Message /\ Key(AsMessage(e)) = Key(e)
  BY <1>4 DEF Event, Message, AsMessage, Key
<1>6. ASSUME Received(e)
      PROVE  /\ delivered' \in SUBSET Message /\ delivered \subseteq delivered'
             /\ \E m \in delivered' : Key(m) = Key(e)
  BY <1>1, <1>5, <1>6 DEF Received
<1>7. CASE SendEvent
  <2>1. Received(e) /\ pc' = "persist" /\ tries' = Attempts
        /\ UNCHANGED <<apiVars, envVars, queued, faults, obj, fresh, todo, branch, sent>>
    BY <1>7 DEF SendEvent, e
  <2>2. Sane(srv, delivered') /\ Sane(cache, delivered') /\ Sane(obj, delivered')
    BY <1>1, <1>6, <2>1, SaneMono
  <2>3. Sane(srv, delivered)' /\ Sane(cache, delivered)' /\ Sane(obj, delivered)'
    BY <2>1, <2>2 DEF apiVars
  <2>4. Attempts \in 0..Attempts /\ Attempts > 0
    BY BillingAssumption
  <2>5. \E m \in delivered' : Key(m) = Key(NextToSend(obj'))
    BY <1>6, <2>1 DEF e
  <2>6. Undelivered(obj') # {}
    BY <1>2, <2>1
  <2>7. SendInv'
    BY <2>1, <2>4, <2>5, <2>6 DEF SendInv
  <2> QED
    BY <1>6, <2>1, <2>3, <2>4, <2>7, IInvFromParts
       DEF IInv, TypeOK, apiVars, envVars, history, HistoryOK, PCs, Branches
<1>8. CASE SendFails
  <2>1. /\ Received(e) \/ UNCHANGED delivered
        /\ obj' = SetState(obj, e, "failed")
        /\ pc' = "saveFailed" /\ faults > 0 /\ faults' = faults - 1
        /\ UNCHANGED <<apiVars, envVars, queued, fresh, todo, branch, sent, tries>>
    BY <1>8 DEF SendFails, e
  <2>2. delivered' \in SUBSET Message /\ delivered \subseteq delivered'
    BY <1>1, <1>6, <2>1
  <2>3. Sane(SetState(obj, e, "failed"), delivered)
    BY <1>1, <1>3, SaneSetState DEF EventStates
  <2>4. Sane(srv, delivered') /\ Sane(cache, delivered') /\ Sane(obj', delivered')
    BY <1>1, <2>1, <2>2, <2>3, SaneMono
  <2>5. Sane(srv, delivered)' /\ Sane(cache, delivered)' /\ Sane(obj, delivered)'
    BY <2>1, <2>4 DEF apiVars
  <2>6. faults' \in Nat
    BY <2>1, BillingAssumption DEF IInv, TypeOK
  <2>7. SendInv'
    BY <2>1 DEF SendInv
  <2> QED
    BY <2>1, <2>2, <2>5, <2>6, <2>7, IInvFromParts
       DEF IInv, TypeOK, apiVars, envVars, history, HistoryOK, PCs, Branches
<1>9. CASE PersistSent
  <2> DEFINE f == Newest(Matching(cache, e))
             o == MarkSent(cache, e)
  <2>1. /\ pc = "persist" /\ Matching(cache, e) # {} /\ Stored(o) /\ obj' = o
        /\ fresh' = TRUE /\ pc' = AfterQueue(o, branch = "delete")
        /\ sent' = TRUE /\ tries' = 0
        /\ UNCHANGED <<delivered, envVars, queued, faults, todo, branch>>
    BY <1>9 DEF PersistSent, e
  <2>2. f \in Matching(cache, e)
    BY <1>1, <2>1, NewestIn DEF Matching
  <2>3. f \in cache.events /\ Key(f) = Key(e)
    BY <2>2 DEF Matching
  <2>4. \E m \in delivered : Key(m) = Key(e)
    BY <2>1 DEF IInv, SendInv, e
  <2> HIDE DEF f
  <2>5. Sane(SetState(cache, f, "sent"), delivered)
    BY <1>1, <2>3, <2>4, SaneSetState DEF EventStates
  <2>6. Sane(o, delivered)
    BY <2>5 DEF MarkSent, f
  <2> HIDE DEF o
  <2>7. /\ Sane(srv, delivered)' /\ Sane(cache, delivered)' /\ Sane(obj, delivered)'
        /\ cacheFresh' \in BOOLEAN /\ notify' \in BOOLEAN /\ early' \in SUBSET Instances
    BY <1>1, <2>1, <2>6, StoredOK
  <2>8. pc' \in PCs /\ SendInv'
    BY <2>1 DEF AfterQueue, PCs, SendInv
  <2>9. 0 \in 0..Attempts
    BY BillingAssumption
  <2> QED
    BY <2>1, <2>7, <2>8, <2>9, IInvFromParts DEF IInv, TypeOK, envVars, history, HistoryOK, Branches
<1>10. CASE PersistNotFound
  <2>1. /\ pc' = "failStatus" /\ tries' = 0
        /\ UNCHANGED <<apiVars, delivered, envVars, queued, faults, obj, fresh, todo,
                       branch, sent>>
    BY <1>10 DEF PersistNotFound
  <2>2. SendInv'
    BY <2>1 DEF SendInv
  <2>3. 0 \in 0..Attempts
    BY BillingAssumption
  <2>4. Sane(srv, delivered)' /\ Sane(cache, delivered)' /\ Sane(obj, delivered)'
    BY <1>1, <2>1 DEF apiVars
  <2> QED
    BY <2>1, <2>2, <2>3, <2>4, IInvFromParts
       DEF IInv, TypeOK, apiVars, envVars, history, HistoryOK, PCs, Branches
<1>11. CASE PersistConflict
  <2>1. /\ pc = "persist" /\ tries' = tries - 1
        /\ faults' = faults \/ (faults > 0 /\ faults' = faults - 1)
        /\ pc' = IF GivesUp(tries) THEN "failStatus" ELSE "persist"
        /\ UNCHANGED <<apiVars, delivered, envVars, queued, obj, fresh, todo, branch, sent>>
    BY <1>11 DEF PersistConflict
  <2>2. SendInv'
    <3>1. pc' = "persist" => tries' > 0
      BY <1>1, <2>1, BillingAssumption DEF IInv, SendInv, GivesUp
    <3> QED  BY <1>2, <2>1, <3>1 DEF IInv, SendInv
  <2>3. faults' \in Nat
    BY <2>1, BillingAssumption DEF IInv, TypeOK
  <2>4. Sane(srv, delivered)' /\ Sane(cache, delivered)' /\ Sane(obj, delivered)'
    BY <1>1, <2>1 DEF apiVars
  <2>5. tries' \in 0..Attempts
    BY <1>1, <2>1, BillingAssumption DEF IInv, SendInv
  <2> QED
    BY <2>1, <2>2, <2>3, <2>4, <2>5, IInvFromParts
       DEF IInv, TypeOK, apiVars, envVars, history, HistoryOK, PCs, Branches
<1> QED  BY <1>7, <1>8, <1>9, <1>10, <1>11

\* The other steps: the start and the end of a reconcile, refused writes, the
\* informer and the clock.
LEMMA OtherStepsOK ==
  ASSUME IInv, \/ StartReconcile \/ WaitForStamp \/ FailStatus \/ UpdateStatus
               \/ WriteFails \/ Crash \/ Refresh \/ Tick
  PROVE  IInv'
<1>1. /\ Sane(srv, delivered) /\ Sane(cache, delivered) /\ Sane(obj, delivered)
      /\ todo \in SUBSET Item /\ branch \in Branches /\ queued \in BOOLEAN
      /\ faults \in Nat /\ now \in Nat
  BY DEF IInv, TypeOK, Branches
<1>2. faults > 0 => faults - 1 \in Nat
  BY <1>1, BillingAssumption
<1>3. CASE StartReconcile
  <2>1. /\ queued' = FALSE
        /\ UNCHANGED <<apiVars, delivered, envVars, faults, sent, tries>>
    BY <1>3 DEF StartReconcile
  <2>2. CASE cache.exists
    <3>1. obj' = cache /\ fresh' = cacheFresh /\ EnterOrder(cache)
      BY <1>3, <2>2 DEF StartReconcile
    <3>2. Entered(cache) /\ branch' \in Branches
      BY <1>1, <3>1, EnterOrderOK
    <3>3. SendInv'
      BY <3>1, <3>2 DEF Entered, SendInv, Undelivered, InState
    <3>4. Sane(srv, delivered)' /\ Sane(cache, delivered)' /\ Sane(obj, delivered)'
      BY <1>1, <2>1, <3>1 DEF apiVars
    <3> QED
      BY <2>1, <3>1, <3>2, <3>3, <3>4, IInvFromParts
         DEF IInv, TypeOK, apiVars, envVars, history, HistoryOK, Entered
  <2>3. CASE ~cache.exists
    <3>1. UNCHANGED <<pc, obj, fresh, todo, branch>>
      BY <1>3, <2>3 DEF StartReconcile
    <3>2. pc = "idle"
      BY <1>3 DEF StartReconcile
    <3>3. SendInv'
      BY <3>1, <3>2 DEF SendInv
    <3>4. Sane(srv, delivered)' /\ Sane(cache, delivered)' /\ Sane(obj, delivered)'
      BY <1>1, <2>1, <3>1 DEF apiVars
    <3> QED
      BY <2>1, <3>1, <3>3, <3>4, IInvFromParts
         DEF IInv, TypeOK, apiVars, envVars, history, HistoryOK, Branches
  <2> QED  BY <2>2, <2>3
<1>4. CASE WaitForStamp
  BY <1>1, <1>4, EndStep DEF WaitForStamp
<1>5. CASE FailStatus
  BY <1>5, StatusStep DEF FailStatus
<1>6. CASE UpdateStatus
  <2>1. NeedsRequeue \in BOOLEAN
    BY DEF NeedsRequeue, HasBacklog, IsUndelivered, IInv, TypeOK
  <2> QED  BY <1>6, <2>1, StatusStep DEF UpdateStatus
<1>7. CASE WriteFails
  <2>1. /\ UNCHANGED <<apiVars, delivered, envVars>>
        /\ faults' \in Nat
    BY <1>1, <1>2, <1>7 DEF WriteFails
  <2>2. CASE pc = "saveFailed"
    <3>1. pc' = "failStatus" /\ UNCHANGED <<queued, obj, fresh, todo, branch, sent, tries>>
      BY <1>7, <2>2 DEF WriteFails
    <3>2. SendInv'
      BY <3>1 DEF SendInv
    <3>3. Sane(srv, delivered)' /\ Sane(cache, delivered)' /\ Sane(obj, delivered)'
      BY <1>1, <2>1, <3>1 DEF apiVars
    <3> QED
      BY <2>1, <3>1, <3>2, <3>3, IInvFromParts
         DEF IInv, TypeOK, apiVars, envVars, history, HistoryOK, PCs, Branches
  <2>3. CASE pc # "saveFailed"
    <3>1. EndReconcile(TRUE)
      BY <1>7, <2>3 DEF WriteFails
    <3> QED  BY <2>1, <3>1, EndStep
  <2> QED  BY <2>2, <2>3
<1>8. CASE Crash
  <2>1. EndReconcile(TRUE) /\ UNCHANGED <<apiVars, delivered, envVars>>
        /\ faults' \in Nat
    BY <1>2, <1>8 DEF Crash
  <2> QED  BY <2>1, EndStep
<1>9. CASE Refresh
  <2>1. /\ cache' = srv /\ cacheFresh' = TRUE
        /\ queued' = (queued \/ notify) /\ notify' = FALSE
        /\ obj' = IF pc = "idle" THEN srv ELSE obj
        /\ UNCHANGED <<srv, early, pc, fresh, todo, branch, sent, tries, delivered, envVars, faults>>
    BY <1>9 DEF Refresh
  <2>2. Sane(srv, delivered)' /\ Sane(cache, delivered)' /\ Sane(obj, delivered)'
    BY <1>1, <2>1
  <2>3. SendInv'
    BY <2>1 DEF IInv, SendInv
  <2> QED
    BY <2>1, <2>2, <2>3, IInvFromParts DEF IInv, TypeOK, envVars, history, HistoryOK, Branches
<1>10. CASE Tick
  <2>1. now' = now + 1
        /\ UNCHANGED <<apiVars, localVars, delivered, queued, faults, edits, history>>
    BY <1>10 DEF Tick
  <2>2. Sane(srv, delivered)' /\ Sane(cache, delivered)' /\ Sane(obj, delivered)'
    BY <1>1, <2>1 DEF apiVars, localVars
  <2>3. SendInv'
    BY <2>1 DEF IInv, SendInv, localVars
  <2>4. now' \in Nat
    BY <1>1, <2>1
  <2> QED
    BY <2>1, <2>2, <2>3, <2>4, IInvFromParts
       DEF IInv, TypeOK, HistoryOK, history, apiVars, localVars, Branches
<1> QED
  BY <1>3, <1>4, <1>5, <1>6, <1>7, <1>8, <1>9, <1>10

\* The clients that edit the resource leave its events alone.
LEMMA EditsOK ==
  ASSUME IInv, Owner \/ Stamp
  PROVE  IInv'
<1>1. /\ srv \in Object /\ edits \in Nat /\ HistoryOK /\ now \in Nat
      /\ UNCHANGED history => HistoryOK'
  BY DEF IInv, TypeOK, HistoryOK, history
<1>2. ASSUME NEW o, Edit(o), o \in Object, o.events = srv.events, o.next = srv.next,
             HistoryOK'
      PROVE  IInv'
  <2>1. edits' \in Nat
    BY <1>1, <1>2, BillingAssumption DEF Edit
  <2> QED  BY <1>2, <2>1, ForeignStep DEF Edit
<1>3. ASSUME NEW i \in Instances, NEW v \in Values \cup {Unlisted}
      PROVE  LET o == [srv EXCEPT !.items[i] = v]
             IN o \in Object /\ o.events = srv.events /\ o.next = srv.next
  BY <1>1 DEF Object
<1>4. CASE SetValue
  <2>1. PICK i \in Listed(srv), v \in Values :
          /\ Edit([srv EXCEPT !.items[i] = v])
          /\ past' = past \cup {<<i, u, v>> : u \in Before(i, srv.items[i])}
          /\ UNCHANGED dropped
    BY <1>4 DEF SetValue
  <2>2. i \in Instances /\ srv.items[i] \in Values
    BY <1>1 DEF Listed, Object
  <2>3. Before(i, srv.items[i]) \subseteq Values
    BY <2>2 DEF Before
  <2>4. HistoryOK'
    BY <1>1, <2>1, <2>2, <2>3 DEF HistoryOK
  <2> QED  BY <1>2, <1>3, <2>1, <2>2, <2>4
<1>5. CASE AddItem
  BY <1>1, <1>2, <1>3, <1>5 DEF AddItem
<1>6. CASE DropItem
  <2>1. PICK i \in Listed(srv) :
          /\ Edit([srv EXCEPT !.items[i] = Unlisted])
          /\ dropped' = dropped \cup {i} /\ past' = past
    BY <1>6 DEF DropItem
  <2>2. i \in Instances
    BY DEF Listed
  <2>3. HistoryOK'
    BY <1>1, <2>1, <2>2 DEF HistoryOK
  <2> QED  BY <1>2, <1>3, <2>1, <2>2, <2>3
<1>7. CASE Annotate
  <2>1. PICK mode \in ResendModes : Edit([srv EXCEPT !.resend = mode])
    BY <1>7 DEF Annotate
  <2>2. LET o == [srv EXCEPT !.resend = mode]
        IN o \in Object /\ o.events = srv.events /\ o.next = srv.next
    BY <1>1, BillingAssumption DEF Object
  <2> QED  BY <1>1, <1>2, <1>7, <2>1, <2>2 DEF Annotate
<1>8. CASE Delete
  <2> DEFINE o == [srv EXCEPT !.deleting = TRUE, !.deletedAt = now,
                              !.exists = srv.finalizer]
  <2>1. o \in Object /\ o.events = srv.events /\ o.next = srv.next
    BY <1>1 DEF Object
  <2> QED  BY <1>1, <1>2, <1>8, <2>1 DEF Delete
<1>9. CASE Stamp
  <2> DEFINE o == [srv EXCEPT !.stamped = TRUE]
  <2>1. o \in Object /\ o.events = srv.events /\ o.next = srv.next
    BY <1>1 DEF Object
  <2>2. /\ Stored(o) /\ fresh' = FALSE /\ UNCHANGED <<edits, history>>
        /\ UNCHANGED <<pc, obj, todo, branch, sent, tries, delivered, now, queued, faults>>
    BY <1>9 DEF Stamp, envVars, history
  <2> QED  BY <1>1, <2>1, <2>2, ForeignStep
<1> QED  BY <1>4, <1>5, <1>6, <1>7, <1>8, <1>9 DEF Owner

\* Nothing happens.
LEMMA StutterOK ==
  ASSUME IInv, UNCHANGED vars
  PROVE  IInv'
<1>1. UNCHANGED <<apiVars, localVars, delivered, envVars, queued, faults>>
  BY DEF vars
<1>2. SendInv'
  BY <1>1 DEF IInv, SendInv, localVars
<1> QED
  BY <1>1, <1>2, IInvFromParts DEF IInv, TypeOK, apiVars, localVars, envVars, history, Branches

\* Every step preserves the inductive invariant.
LEMMA NextOK == IInv /\ [Next]_vars => IInv'
<1> SUFFICES ASSUME IInv, [Next]_vars PROVE IInv'
  OBVIOUS
<1>1. CASE Reconcile
  BY <1>1, WriteActionsOK, LoopActionsOK, DeliveryOK, OtherStepsOK DEF Reconcile
<1>2. CASE Refused \/ SendFails \/ Crash \/ Refresh \/ Tick
  BY <1>2, DeliveryOK, OtherStepsOK DEF Refused
<1>3. CASE Owner \/ Stamp
  BY <1>3, EditsOK
<1>4. CASE UNCHANGED vars
  BY <1>4, StutterOK
<1> QED  BY <1>1, <1>2, <1>3, <1>4 DEF Next
-----------------------------------------------------------------------------
(* What a write makes of the object: KeepInv.                              *)

\* p is what a write may make of o: the object does not come back, no instance
\* loses its last event, no undelivered event is lost, and p is guarded.
Kept(o, p) ==
  /\ p.exists => o.exists
  /\ InstancesOf(o) \subseteq InstancesOf(p)
  /\ \A e \in o.events : IsUndelivered(e) =>
       p.exists /\ \E f \in p.events : AsMessage(f) = AsMessage(e)
  /\ Guarded(p)

\* The parts of the object a write of the list of events leaves alone.
SameSpec(o, p) ==
  /\ p.exists = o.exists /\ p.finalizer = o.finalizer /\ p.resend = o.resend
  /\ p.deleting = o.deleting /\ p.items = o.items

\* The newest event of a non-empty list is not older than any other.
LEMMA NewestIs ==
  ASSUME NEW o, NEW d, Sane(o, d), NEW S, S \subseteq o.events, S # {}
  PROVE  Newest(S) \in S /\ \A f \in S : f.seq <= Newest(S).seq
<1> DEFINE T == {e.seq : e \in S}
<1>1. S \subseteq Event /\ o.next \in Nat
  BY DEF Sane, Object
<1>2. T \in SUBSET Nat /\ T # {} /\ \A t \in T : t < o.next
  BY <1>1 DEF Sane, Event
<1>3. PICK x \in T : \A y \in T : y <= x
  BY <1>1, <1>2, GreatestNat
<1>4. \E e \in S : \A f \in S : f.seq <= e.seq
  BY <1>3
<1> QED  BY <1>4 DEF Newest

\* Pruning never removes the last event of an instance: MaxEvents are kept.
LEMMA PruneKeepsInstances ==
  ASSUME NEW o, NEW d, Sane(o, d), IsFiniteSet(o.events), NEW e \in o.events
  PROVE  \E f \in PruneEvents(o.events) : f.id = e.id
<1> DEFINE S == {f \in o.events : f.id = e.id}
           n == Newest(S)
           R == {f \in o.events : f.id = n.id /\ f.state = "sent" /\ f.seq <= n.seq}
<1>1. S # {} /\ S \subseteq o.events /\ IsFiniteSet(S)
  BY FS_Subset
<1>2. n \in S /\ \A f \in S : f.seq <= n.seq
  <2> HIDE DEF S
  <2> QED  BY <1>1, NewestIs
<1> HIDE DEF n
<1>3. CASE \E f \in S : f.state # "sent"
  BY <1>3 DEF PruneEvents, IsPruned
<1>4. CASE \A f \in S : f.state = "sent"
  <2>1. R = S
    BY <1>2, <1>4
  <2>2. n \in o.events /\ n.id = e.id /\ Excess(o.events, n.id) = Cardinality(S) - MaxEvents
    BY <1>2 DEF Excess
  <2>3. Cardinality(S) \in Nat
    BY <1>1, FS_CardinalityType
  <2>4. ~(Cardinality(R) <= Excess(o.events, n.id))
    <3> HIDE DEF R, S
    <3>1. MaxEvents \in Nat /\ MaxEvents > 0
      BY BillingAssumption
    <3> QED  BY <2>1, <2>2, <2>3, <3>1
  <2>5. ~IsPruned(o.events, n)
    BY <2>4 DEF IsPruned
  <2> QED  BY <2>2, <2>5 DEF PruneEvents
<1> QED  BY <1>3, <1>4

\* Changes of the other fields.
LEMMA KeptSameEvents ==
  ASSUME NEW o, NEW p, Guarded(o), o.exists, p.exists, p.events = o.events,
         p.deleting => o.deleting \/ p.finalizer, o.finalizer => p.finalizer
  PROVE  Kept(o, p)
BY DEF Kept, Guarded, InstancesOf

\* Enqueueing an event, pruning included: a delivered event may go, no
\* instance without a trace, and the new event is undelivered.
LEMMA KeptEnqueue ==
  ASSUME NEW o, NEW d, Sane(o, d), Guarded(o), o.exists, o.finalizer,
         NEW type \in EventTypes, NEW i \in Instances, NEW v \in Values, NEW ts \in Nat
  PROVE  LET p == EnqueueEvent(o, type, i, v, ts)
         IN Kept(o, p) /\ SameSpec(o, p) /\ HasBacklog(p)
<1> DEFINE n == NewEvent(o, type, i, v, ts)
           evs == o.events \cup {n}
           p == EnqueueEvent(o, type, i, v, ts)
           q == [o EXCEPT !.events = evs, !.next = @ + 1]
<1>1. o \in Object /\ o.events \subseteq Event /\ o.next \in Nat
  BY DEF Sane, Object
<1>2. n \in Event /\ n.seq = o.next /\ n.state = "pending"
  BY <1>1 DEF NewEvent, Event, EventStates
<1> HIDE DEF n
<1>3. p.events = PruneEvents(evs) /\ SameSpec(o, p)
  BY <1>1 DEF EnqueueEvent, Object, SameSpec, n
<1>4. PruneEvents(evs) \subseteq evs
      /\ \A e \in evs : e.state # "sent" => e \in PruneEvents(evs)
  BY DEF PruneEvents, IsPruned
<1>5. IsFiniteSet(evs) /\ IsFiniteSet(p.events)
  <2>1. IsFiniteSet(evs)
    BY FS_AddElement DEF Guarded
  <2> QED  BY <1>3, <1>4, <2>1, FS_Subset
<1>6. q.events = evs /\ Sane(q, d)
  <2>1. evs \subseteq Event /\ o.next + 1 \in Nat
    BY <1>1, <1>2
  <2> HIDE DEF evs
  <2>2. q \in Object /\ q.events = evs /\ q.next = o.next + 1
    BY <1>1, <2>1 DEF Object
  <2>3. \A e \in evs : e.seq < o.next + 1 /\ (e.state = "sent" => \E m \in d : Key(m) = Key(e))
    BY <1>1, <1>2 DEF evs, Sane, Event
  <2> HIDE DEF q
  <2> QED  BY <2>2, <2>3 DEF Sane
<1>7. ASSUME NEW e \in o.events
      PROVE  \E f \in p.events : f.id = e.id
  <2> HIDE DEF p, q
  <2>1. e \in q.events /\ IsFiniteSet(q.events)
    BY <1>5, <1>6
  <2>2. \E f \in PruneEvents(q.events) : f.id = e.id
    BY <1>6, <2>1, PruneKeepsInstances
  <2> QED  BY <1>3, <1>6, <2>2
<1> HIDE DEF p, q
<1>8. InstancesOf(o) \subseteq InstancesOf(p)
  BY <1>7 DEF InstancesOf
<1>9. \A e \in o.events : IsUndelivered(e) => e \in p.events
  BY <1>3, <1>4 DEF IsUndelivered
<1>10. Guarded(p)
  BY <1>2, <1>3, <1>4, <1>5 DEF Guarded, SameSpec
<1>11. HasBacklog(p)
  BY <1>2, <1>3, <1>4 DEF HasBacklog, IsUndelivered
<1>12. Kept(o, p)
  BY <1>3, <1>8, <1>9, <1>10 DEF Kept, SameSpec
<1> QED  BY <1>3, <1>11, <1>12 DEF p

\* Recording the outcome of a delivery.
LEMMA KeptSetState ==
  ASSUME NEW o \in Object, Guarded(o), o.exists, NEW e \in o.events,
         NEW s \in EventStates \ {"superseded"}
  PROVE  LET p == SetState(o, e, s)
         IN Kept(o, p) /\ SameSpec(o, p) /\ [e EXCEPT !.state = s] \in p.events
<1> DEFINE f == [e EXCEPT !.state = s]
           p == SetState(o, e, s)
<1>1. e \in Event
  BY DEF Object
<1>2. AsMessage(f) = AsMessage(e) /\ f.state = s /\ f.id = e.id
  BY <1>1 DEF AsMessage, Event
<1>3. p.events = (o.events \ {e}) \cup {f} /\ SameSpec(o, p)
  BY DEF SetState, Object, SameSpec
<1> HIDE DEF f, p
<1>4. IsFiniteSet(p.events)
  <2>1. IsFiniteSet(o.events \ {e})
    BY FS_Subset DEF Guarded
  <2> QED  BY <1>3, <2>1, FS_AddElement
<1>5. \A g \in o.events : \E h \in p.events : AsMessage(h) = AsMessage(g) /\ h.id = g.id
  BY <1>2, <1>3
<1>6. Guarded(p)
  BY <1>2, <1>3, <1>4 DEF Guarded, SameSpec
<1>7. Kept(o, p)
  BY <1>3, <1>5, <1>6 DEF Kept, InstancesOf, SameSpec
<1> QED  BY <1>3, <1>7 DEF f, p

\* handleResendAnnotation.
LEMMA KeptMarkResend ==
  ASSUME NEW o \in Object, Guarded(o), o.exists
  PROVE  Kept(o, MarkResend(o)) /\ SameSpec(o, MarkResend(o))
<1> DEFINE Mark(e) == IF e.state \in ResendStates(o.resend)
                      THEN [e EXCEPT !.state = "resend"] ELSE e
           p == MarkResend(o)
<1>1. o.events \subseteq Event
  BY DEF Object
<1>2. \A e \in o.events : /\ AsMessage(Mark(e)) = AsMessage(e) /\ Mark(e).id = e.id
                          /\ Mark(e).state \in {e.state, "resend"}
  BY <1>1 DEF Event, AsMessage
<1>3. p.events = {Mark(e) : e \in o.events} /\ SameSpec(o, p)
  BY DEF MarkResend, Object, SameSpec
<1> HIDE DEF Mark, p
<1>4. IsFiniteSet(p.events)
  <2> DEFINE F == [e \in o.events |-> Mark(e)]
  <2>1. F \in Surjection(o.events, p.events)
    BY <1>3 DEF Surjection
  <2> HIDE DEF F
  <2> QED  BY <2>1, FS_Surjection DEF Guarded
<1>5. \A g \in o.events : \E h \in p.events : AsMessage(h) = AsMessage(g) /\ h.id = g.id
  BY <1>2, <1>3
<1>6. Guarded(p)
  <2>1. \A h \in p.events : h.state # "superseded"
    BY <1>2, <1>3 DEF Guarded
  <2>2. o.events = {} => p.events = {}
    BY <1>3
  <2> QED  BY <1>3, <1>4, <2>1, <2>2 DEF Guarded, SameSpec
<1>7. Kept(o, p)
  BY <1>3, <1>5, <1>6 DEF Kept, InstancesOf, SameSpec
<1> QED  BY <1>3, <1>7 DEF p
-----------------------------------------------------------------------------
(* Where the stages of Reconcile lead: KeepInv.                            *)

\* What the loops know of the copy o: it exists, has the finalizer and, unless
\* a delivery was persisted, no resend annotation.
InLoops(o, s) == o.exists /\ o.finalizer /\ (s \/ o.resend = "none")

\* What follows the loops.
LEMMA EnterQueueOnCourse ==
  ASSUME NEW o, NEW s \in BOOLEAN, InLoops(o, s), s \/ Ended(o, {}), EnterQueue(o)
  PROVE  OnCourse(o, pc', todo', s)
BY DEF EnterQueue, AfterQueue, OnCourse, InLoops

\* The loop over removed items.
LEMMA EnterRemovedOnCourse ==
  ASSUME NEW o, NEW s \in BOOLEAN, InLoops(o, s), NEW its, s \/ Ended(o, its),
         EnterRemoved(o, its)
  PROVE  OnCourse(o, pc', todo', s)
<1>1. CASE its = {}
  BY <1>1, EnterQueueOnCourse DEF EnterRemoved
<1>2. CASE its # {}
  BY <1>2 DEF EnterRemoved, OnCourse, InLoops
<1> QED  BY <1>1, <1>2

\* All leftovers are still to be visited.
LEMMA LeftoversEnded ==
  ASSUME NEW o
  PROVE  Ended(o, Leftovers(o)) /\ Ended(o, LastSent(o))
<1> DEFINE it(i) == [id |-> i, value |-> Newest(SentSizes(o, i)).value]
<1>1. ASSUME NEW i \in Instances, SentSizes(o, i) # {}
      PROVE  it(i) \in LastSent(o) /\ it(i).id = i
  BY <1>1 DEF LastSent
<1> HIDE DEF it
<1>2. ASSUME NEW i \in Instances, SentSizes(o, i) # {}, i \notin Listed(o)
      PROVE  it(i) \in Leftovers(o)
  BY <1>1, <1>2 DEF Leftovers
<1> QED  BY <1>1, <1>2 DEF Ended

\* The loop over the items of the spec.
LEMMA EnterItemsOnCourse ==
  ASSUME NEW o, NEW s \in BOOLEAN, InLoops(o, s), NEW its, EnterItems(o, its)
  PROVE  OnCourse(o, pc', todo', s)
<1>1. CASE its = {}
  BY <1>1, EnterRemovedOnCourse, LeftoversEnded DEF EnterItems
<1>2. CASE its # {}
  BY <1>2 DEF EnterItems, OnCourse, InLoops
<1> QED  BY <1>1, <1>2

\* The loop over the sent instances of a deleted resource.
LEMMA EnterDeleteSentOnCourse ==
  ASSUME NEW o, NEW s \in BOOLEAN, InLoops(o, s), NEW its, s \/ Ended(o, its),
         EnterDeleteSent(o, its)
  PROVE  OnCourse(o, pc', todo', s)
<1>1. CASE its = {}
  BY <1>1, EnterQueueOnCourse DEF EnterDeleteSent
<1>2. CASE its # {}
  BY <1>2 DEF EnterDeleteSent, OnCourse, InLoops
<1> QED  BY <1>1, <1>2

\* The loop over the items of a deleted resource.
LEMMA EnterDeleteOnCourse ==
  ASSUME NEW o, NEW s \in BOOLEAN, InLoops(o, s), NEW its, EnterDelete(o, its)
  PROVE  OnCourse(o, pc', todo', s)
<1>1. CASE its = {}
  BY <1>1, EnterDeleteSentOnCourse, LeftoversEnded DEF EnterDelete
<1>2. CASE its # {}
  BY <1>2 DEF EnterDelete, OnCourse, InLoops
<1> QED  BY <1>1, <1>2

\* The branch for deletion, or the other one.
LEMMA EnterBranchOnCourse ==
  ASSUME NEW o, NEW s \in BOOLEAN, InLoops(o, s), EnterBranch(o)
  PROVE  OnCourse(o, pc', todo', s)
BY EnterDeleteOnCourse, EnterItemsOnCourse DEF EnterBranch

\* handleResendAnnotation, or what follows it.
LEMMA EnterResendOnCourse ==
  ASSUME NEW o, NEW s \in BOOLEAN, o.exists, o.finalizer, EnterResend(o)
  PROVE  OnCourse(o, pc', todo', s)
<1>1. CASE o.resend = "none"
  BY <1>1, EnterBranchOnCourse DEF EnterResend, InLoops
<1>2. CASE o.resend # "none"
  BY <1>2 DEF EnterResend, OnCourse
<1> QED  BY <1>1, <1>2

\* Adding the finalizer, or what follows it.
LEMMA EnterFinalizerOnCourse ==
  ASSUME NEW o, NEW s \in BOOLEAN, o.exists, Guarded(o), EnterFinalizer(o)
  PROVE  OnCourse(o, pc', todo', s)
<1>1. CASE ~o.deleting /\ ~o.finalizer
  BY <1>1 DEF EnterFinalizer, OnCourse
<1>2. CASE ~(~o.deleting /\ ~o.finalizer)
  BY <1>2, EnterResendOnCourse DEF EnterFinalizer, Guarded
<1> QED  BY <1>1, <1>2

\* Setting the sales order, or what follows it.
LEMMA EnterOrderOnCourse ==
  ASSUME NEW o, NEW s \in BOOLEAN, o.exists, Guarded(o), EnterOrder(o)
  PROVE  OnCourse(o, pc', todo', s)
<1>1. CASE ~o.order
  BY <1>1 DEF EnterOrder, OnCourse
<1>2. CASE o.order
  BY <1>2, EnterFinalizerOnCourse DEF EnterOrder
<1> QED  BY <1>1, <1>2

\* None of the stages ends the reconcile.
LEMMA EnterMoves ==
  ASSUME NEW o, NEW its,
         \/ EnterOrder(o) \/ EnterFinalizer(o) \/ EnterResend(o) \/ EnterBranch(o)
         \/ EnterItems(o, its) \/ EnterRemoved(o, its)
         \/ EnterDelete(o, its) \/ EnterDeleteSent(o, its)
  PROVE  pc' # "idle"
BY DEF EnterOrder, EnterFinalizer, EnterResend, EnterBranch, EnterItems, EnterRemoved,
       EnterDelete, EnterDeleteSent, EnterQueue, AfterQueue

\* One item less to visit, because it needs no event.
LEMMA EndedSkip ==
  ASSUME NEW o, NEW its, NEW it \in its, Ended(o, its), HasEvent(o, "delete", it.id)
  PROVE  Ended(o, its \ {it})
BY DEF Ended
-----------------------------------------------------------------------------
(* Steps: KeepInv.                                                         *)

\* A write keeps what KeepInv says of the history, for a local copy c whose
\* instances the write knows; the cache stays behind.
LEMMA HistoryKept ==
  ASSUME HistoryInv, NEW o, Kept(srv, o), Stored(o), UNCHANGED delivered,
         InstancesOf(obj') \subseteq InstancesOf(o)
  PROVE  HistoryInv'
BY DEF HistoryInv, Kept, Stored, InstancesOf

\* A write by the reconciler that moves on to the next call.
LEMMA WriteStep ==
  ASSUME KeepInv, NEW o, Update(o), Kept(srv, o), o.exists \in BOOLEAN,
         UNCHANGED <<delivered, queued, sent>>, pc' # "idle",
         OnCourse(o, pc', todo', sent)
  PROVE  KeepInv' /\ Kept(srv, srv')
<1>1. fresh /\ Stored(o) /\ obj' = o /\ fresh' = o.exists
  BY DEF Update
<1>2. srv' = o /\ cache' = cache /\ cacheFresh' = FALSE
  BY <1>1 DEF Stored
<1>3. HistoryInv'
  BY <1>1, <1>2, HistoryKept DEF KeepInv, HistoryInv
<1>4. CopyInv'
  BY <1>1, <1>2 DEF CopyInv
<1>5. Guarded(srv)' /\ Guarded(cache)' /\ Guarded(obj)'
  BY <1>1, <1>2 DEF KeepInv, Kept
<1>6. OnCourse(obj, pc, todo, sent)'
  BY <1>1
<1> QED  BY <1>1, <1>2, <1>3, <1>4, <1>5, <1>6 DEF KeepInv

\* A step of the reconciler that writes nothing and does not end it.
LEMMA ReadStep ==
  ASSUME KeepInv, fresh => obj = srv, UNCHANGED <<apiVars, obj, fresh, sent>>,
         \/ UNCHANGED delivered
         \/ \E m : m.id \in InstancesOf(obj) /\ delivered' = delivered \cup {m},
         pc' # "idle", OnCourse(obj, pc', todo', sent)
  PROVE  KeepInv' /\ srv' = srv
<1>1. /\ srv' = srv /\ cache' = cache /\ obj' = obj /\ fresh' = fresh /\ sent' = sent
      /\ cacheFresh' = cacheFresh
  BY DEF apiVars
<1>2. HistoryInv'
  BY <1>1 DEF KeepInv, HistoryInv, InstancesOf
<1>3. CopyInv'
  BY <1>1 DEF KeepInv, CopyInv
<1> QED  BY <1>1, <1>2, <1>3 DEF KeepInv

\* A step that ends the reconcile and asks for another one.
LEMMA AbortStep ==
  ASSUME KeepInv, EndReconcile(TRUE), UNCHANGED <<apiVars, delivered>>
  PROVE  KeepInv' /\ srv' = srv
<1>1. /\ srv' = srv /\ cache' = cache /\ obj' = cache /\ fresh' = FALSE /\ pc' = "idle"
      /\ cacheFresh' = cacheFresh /\ queued' = TRUE
  BY DEF apiVars, EndReconcile
<1>2. HistoryInv' /\ CopyInv'
  BY <1>1 DEF KeepInv, HistoryInv, InstancesOf, CopyInv
<1>3. OnCourse(obj, pc, todo, sent)'
  BY <1>1 DEF OnCourse
<1> QED  BY <1>1, <1>2, <1>3 DEF KeepInv

\* The local copy, written with the current resource version, keeps what the
\* stored object has.
LEMMA FreshKept ==
  ASSUME IInv, KeepInv, fresh
  PROVE  Kept(srv, obj) /\ obj.exists
<1>1. srv.exists /\ Guarded(srv) /\ srv \in Object
  BY DEF IInv, TypeOK, KeepInv, CopyInv
<1>2. CASE obj = srv
  BY <1>1, <1>2, KeptSameEvents
<1>3. CASE obj # srv
  <2>1. PICK e \in srv.events : obj = SetState(srv, e, "failed")
    BY <1>3 DEF KeepInv, CopyInv
  <2> QED  BY <1>1, <2>1, KeptSetState DEF SameSpec, EventStates
<1> QED  BY <1>2, <1>3

\* updateStatus, then the end of the reconcile.
LEMMA StatusKeeps ==
  ASSUME IInv, KeepInv, fresh, Stored(SetConditions(obj)), NEW b \in BOOLEAN,
         EndReconcile(b), UNCHANGED delivered, b \/ Settled(SetConditions(obj))
  PROVE  KeepInv' /\ Kept(srv, srv')
<1> DEFINE o == SetConditions(obj)
<1>1. o.events = obj.events /\ SameSpec(obj, o)
  BY DEF SetConditions, SameSpec, IInv, TypeOK, Object
<1>2. Kept(srv, o)
  BY <1>1, FreshKept DEF SameSpec, Kept, InstancesOf, Guarded
<1> HIDE DEF o
<1>3. /\ srv' = o /\ cache' = cache /\ obj' = cache /\ fresh' = FALSE /\ pc' = "idle"
      /\ cacheFresh' = FALSE /\ queued' = (queued \/ b)
  BY DEF Stored, EndReconcile, o
<1>4. HistoryInv'
  <2>1. InstancesOf(obj') \subseteq InstancesOf(o)
    BY <1>2, <1>3 DEF KeepInv, HistoryInv, Kept
  <2>2. Stored(o) /\ HistoryInv
    BY DEF o, KeepInv
  <2> QED  BY <1>2, <2>1, <2>2, HistoryKept
<1>5. CopyInv' /\ OnCourse(obj, pc, todo, sent)'
  BY <1>3 DEF CopyInv, OnCourse
<1>6. Guarded(srv)' /\ Guarded(cache)' /\ Guarded(obj)'
  BY <1>2, <1>3 DEF KeepInv, Kept
<1>7. ~queued' => Settled(srv)'
  BY <1>3 DEF o, Settled
<1> QED  BY <1>2, <1>3, <1>4, <1>5, <1>6, <1>7 DEF KeepInv

\* A write by another client.
LEMMA ForeignKeeps ==
  ASSUME KeepInv, NEW o, o.events = srv.events, o.finalizer = srv.finalizer,
         \/ o.exists = srv.exists /\ o.deleting = srv.deleting
         \/ o.exists = srv.finalizer /\ o.deleting /\ ~srv.deleting,
         o.ready = srv.ready, o.synced = srv.synced,
         srv.exists, o.exists \in BOOLEAN,
         Stored(o), fresh' = FALSE, UNCHANGED <<pc, obj, todo, sent, delivered, queued>>
  PROVE  KeepInv' /\ Kept(srv, srv')
<1>1. /\ srv' = o /\ cache' = cache /\ cacheFresh' = FALSE
      /\ notify' = (notify \/ Wakes(srv, o))
  BY DEF Stored
<1>2. Kept(srv, o)
  BY DEF KeepInv, Kept, Guarded, InstancesOf, HasBacklog, IsUndelivered
<1>3. HistoryInv'
  BY <1>2, HistoryKept DEF KeepInv, HistoryInv, Kept
<1>4. CopyInv' /\ OnCourse(obj, pc, todo, sent)'
  BY <1>1 DEF CopyInv, KeepInv
<1>5. Guarded(srv)' /\ Guarded(cache)' /\ Guarded(obj)'
  BY <1>1, <1>2 DEF KeepInv, Kept
<1>6. ~Wakes(srv, o) /\ Settled(srv) => Settled(o)
  BY DEF Wakes, Settled, HasBacklog, IsUndelivered, Ended, SentSizes, Listed, HasEvent
<1> QED  BY <1>1, <1>2, <1>3, <1>4, <1>5, <1>6 DEF KeepInv
-----------------------------------------------------------------------------
(* KeepInv is an invariant, and undelivered events are kept.               *)

\* What a step may do to the stored object.
StepKeeps == KeepInv' /\ (srv' = srv \/ Kept(srv, srv'))

\* Before a delivery fails, a copy with the current version is the stored one.
LEMMA FreshIsStored ==
  ASSUME KeepInv, fresh, pc \notin {"saveFailed", "failStatus"}
  PROVE  obj = srv /\ srv.exists
BY DEF KeepInv, CopyInv

\* Steps of Reconcile that write the local copy.
LEMMA WriteActionsKeep ==
  ASSUME IInv, KeepInv,
         SetSalesOrder \/ AddFinalizer \/ HandleResend \/ DropAnnotation
           \/ SaveFailed \/ RemoveFinalizer
  PROVE  StepKeeps
<1>1. obj \in Object /\ srv \in Object /\ sent \in BOOLEAN /\ Guarded(obj)
      /\ OnCourse(obj, pc, todo, sent) /\ fresh
  BY DEF IInv, TypeOK, KeepInv, SetSalesOrder, AddFinalizer, HandleResend,
         DropAnnotation, SaveFailed, RemoveFinalizer, Update
<1>2. ASSUME NEW o, Update(o), Kept(srv, o), o.exists \in BOOLEAN,
             UNCHANGED unchangedByWrite, pc' # "idle", OnCourse(o, pc', todo', sent)
      PROVE  StepKeeps
  BY <1>2, WriteStep DEF StepKeeps, unchangedByWrite
<1>3. CASE SetSalesOrder
  <2> DEFINE o == [obj EXCEPT !.order = TRUE]
  <2>1. Update(o) /\ EnterFinalizer(o) /\ UNCHANGED unchangedByWrite /\ pc = "order"
    BY <1>3 DEF SetSalesOrder
  <2>2. obj = srv /\ srv.exists
    BY <1>1, <2>1, FreshIsStored
  <2>3. SameSpec(obj, o) /\ o.events = obj.events /\ o.deleting = obj.deleting
    BY <1>1 DEF Object, SameSpec
  <2> HIDE DEF o
  <2>4. Kept(srv, o) /\ Guarded(o) /\ o.exists
    BY <1>1, <2>2, <2>3, KeptSameEvents DEF SameSpec, Kept, Guarded
  <2>5. OnCourse(o, pc', todo', sent)
    BY <1>1, <2>1, <2>4, EnterFinalizerOnCourse
  <2> QED  BY <1>1, <1>2, <2>1, <2>2, <2>3, <2>4, <2>5, EnterMoves DEF SameSpec, Object
<1>4. CASE AddFinalizer
  <2> DEFINE o == [obj EXCEPT !.finalizer = TRUE]
  <2>1. Update(o) /\ EnterResend(o) /\ UNCHANGED unchangedByWrite /\ pc = "finalizer"
    BY <1>4 DEF AddFinalizer
  <2>2. obj = srv /\ srv.exists
    BY <1>1, <2>1, FreshIsStored
  <2>3. o.exists = obj.exists /\ o.events = obj.events /\ o.finalizer /\ o.deleting = obj.deleting
    BY <1>1 DEF Object
  <2> HIDE DEF o
  <2>4. Kept(srv, o) /\ o.exists
    BY <1>1, <2>2, <2>3, KeptSameEvents
  <2>5. OnCourse(o, pc', todo', sent)
    BY <1>1, <2>1, <2>3, <2>4, EnterResendOnCourse
  <2> QED  BY <1>1, <1>2, <2>1, <2>2, <2>3, <2>4, <2>5, EnterMoves DEF Object
<1>5. CASE HandleResend
  <2>1. Update(MarkResend(obj)) /\ UNCHANGED unchangedByWrite /\ pc = "resend"
        /\ pc' = "annotation"
    BY <1>5 DEF HandleResend
  <2>2. obj = srv /\ srv.exists
    BY <1>1, <2>1, FreshIsStored
  <2>3. Kept(srv, MarkResend(obj)) /\ SameSpec(obj, MarkResend(obj))
    BY <1>1, <2>2, KeptMarkResend
  <2>4. OnCourse(MarkResend(obj), pc', todo', sent) /\ MarkResend(obj).exists \in BOOLEAN
    BY <1>1, <2>1, <2>3 DEF OnCourse, SameSpec, Object
  <2> QED  BY <1>2, <2>1, <2>3, <2>4
<1>6. CASE DropAnnotation
  <2> DEFINE o == [obj EXCEPT !.resend = "none"]
  <2>1. Update(o) /\ EnterBranch(o) /\ UNCHANGED unchangedByWrite /\ pc = "annotation"
    BY <1>6 DEF DropAnnotation
  <2>2. obj = srv /\ srv.exists
    BY <1>1, <2>1, FreshIsStored
  <2>3. /\ o.exists = obj.exists /\ o.events = obj.events /\ o.finalizer = obj.finalizer
        /\ o.deleting = obj.deleting /\ o.resend = "none"
    BY <1>1 DEF Object
  <2> HIDE DEF o
  <2>4. Kept(srv, o) /\ InLoops(o, sent)
    BY <1>1, <2>1, <2>2, <2>3, KeptSameEvents DEF OnCourse, InLoops
  <2>5. OnCourse(o, pc', todo', sent)
    BY <1>1, <2>1, <2>4, EnterBranchOnCourse
  <2> QED  BY <1>1, <1>2, <2>1, <2>2, <2>3, <2>4, <2>5, EnterMoves DEF Object
<1>7. CASE SaveFailed
  <2>1. Update(obj) /\ UNCHANGED unchangedByWrite /\ pc = "saveFailed" /\ pc' = "failStatus"
    BY <1>7 DEF SaveFailed
  <2>2. Kept(srv, obj) /\ obj.exists \in BOOLEAN
    BY <1>1, FreshKept DEF Object
  <2>3. OnCourse(obj, pc', todo', sent)
    BY <1>1, <2>1 DEF OnCourse
  <2> QED  BY <1>2, <2>1, <2>2, <2>3
<1>8. CASE RemoveFinalizer
  <2> DEFINE o == [obj EXCEPT !.finalizer = FALSE, !.exists = FALSE]
  <2>1. Update(o) /\ UNCHANGED <<unchangedByWrite, todo>> /\ pc = "finalize" /\ pc' = "status"
    BY <1>8 DEF RemoveFinalizer
  <2>2. obj = srv /\ srv.exists
    BY <1>1, <2>1, FreshIsStored
  <2>3. /\ o.exists = FALSE /\ o.events = obj.events /\ o.items = obj.items
        /\ o.resend = obj.resend
    BY <1>1 DEF Object
  <2> HIDE DEF o
  <2>4. Kept(srv, o)
    BY <1>1, <2>1, <2>2, <2>3
       DEF Kept, InstancesOf, Guarded, OnCourse, HasBacklog, IsUndelivered
  <2>5. OnCourse(o, pc', todo', sent)
    BY <1>1, <2>1, <2>3 DEF OnCourse, Ended, HasBacklog, IsUndelivered, SentSizes, Listed, HasEvent
  <2> QED  BY <1>2, <2>1, <2>3, <2>4, <2>5
<1> QED  BY <1>3, <1>4, <1>5, <1>6, <1>7, <1>8

\* The loops: what they enqueue is an undelivered event.
LEMMA LoopActionsKeep ==
  ASSUME IInv, KeepInv, CreateItem \/ ScaleItem \/ SkipItem \/ RemoveItem \/ DeleteItem
  PROVE  StepKeeps
<1>1. /\ obj \in Object /\ sent \in BOOLEAN /\ Guarded(obj) /\ Sane(obj, delivered)
      /\ OnCourse(obj, pc, todo, sent) /\ now \in Nat /\ obj.deletedAt \in Nat
  BY DEF IInv, TypeOK, KeepInv, Object
<1>2. pc \in {"items", "scale", "removed", "delete", "deleteSent"}
  BY DEF CreateItem, ScaleItem, SkipItem, RemoveItem, DeleteItem
<1>3. InLoops(obj, sent) /\ (fresh => obj = srv)
  BY <1>1, <1>2, FreshIsStored DEF OnCourse, InLoops
<1>4. \A it \in todo : it.id \in Instances /\ it.value \in Values /\ it \in Item
  BY DEF IInv, TypeOK, Item
<1>5. {"create", "scale", "delete"} \subseteq EventTypes /\ CreationTime \in Nat
  BY <1>1 DEF EventTypes, CreationTime
<1>6. UNCHANGED <<delivered, queued, sent>>
  BY DEF CreateItem, ScaleItem, SkipItem, RemoveItem, DeleteItem, unchangedByWrite, history
<1>7. ASSUME NEW type \in EventTypes, NEW i \in Instances, NEW v \in Values, NEW ts \in Nat
      PROVE  LET o == EnqueueEvent(obj, type, i, v, ts)
             IN /\ Kept(obj, o) /\ o.exists \in BOOLEAN /\ InLoops(o, sent)
                /\ \A its : Ended(o, its)
  BY <1>1, <1>3, KeptEnqueue DEF InLoops, SameSpec, Object, Ended
<1>8. ASSUME NEW o, Update(o), Kept(obj, o), o.exists \in BOOLEAN, pc' # "idle",
             OnCourse(o, pc', todo', sent)
      PROVE  StepKeeps
  BY <1>3, <1>6, <1>8, WriteStep DEF StepKeeps, Update
<1>9. ASSUME pc' # "idle", OnCourse(obj, pc', todo', sent), UNCHANGED <<apiVars, obj, fresh>>
      PROVE  StepKeeps
  BY <1>3, <1>6, <1>9, ReadStep DEF StepKeeps
<1>10. CASE CreateItem
  <2>1. PICK it \in todo :
          /\ Update(EnqueueCreate(it))
          /\ IF NeedsScale(EnqueueCreate(it), it)
             THEN pc' = "scale" /\ UNCHANGED todo
             ELSE EnterItems(EnqueueCreate(it), todo \ {it})
    BY <1>10 DEF CreateItem
  <2> DEFINE o == EnqueueCreate(it)
  <2>2. Kept(obj, o) /\ o.exists \in BOOLEAN /\ InLoops(o, sent)
    BY <1>4, <1>5, <1>7 DEF EnqueueCreate
  <2> HIDE DEF o
  <2>3. CASE NeedsScale(o, it)
    <3>1. pc' = "scale"
      BY <2>1, <2>3 DEF o
    <3>2. OnCourse(o, pc', todo', sent)
      BY <2>2, <3>1 DEF OnCourse, InLoops
    <3> QED  BY <1>8, <2>1, <2>2, <3>1, <3>2 DEF o
  <2>4. CASE ~NeedsScale(o, it)
    <3>1. EnterItems(o, todo \ {it})
      BY <2>1, <2>4 DEF o
    <3>2. OnCourse(o, pc', todo', sent) /\ pc' # "idle"
      BY <1>1, <2>2, <3>1, EnterItemsOnCourse, EnterMoves
    <3> QED  BY <1>8, <2>1, <2>2, <3>2 DEF o
  <2> QED  BY <2>3, <2>4
<1>11. CASE ScaleItem
  <2>1. PICK it \in todo : Update(ScaleTo(it)) /\ EnterItems(ScaleTo(it), todo \ {it})
    BY <1>11 DEF ScaleItem
  <2> DEFINE o == ScaleTo(it)
  <2>2. Kept(obj, o) /\ o.exists \in BOOLEAN /\ InLoops(o, sent)
    BY <1>1, <1>4, <1>5, <1>7 DEF ScaleTo
  <2> HIDE DEF o
  <2>3. Update(o) /\ EnterItems(o, todo \ {it})
    BY <2>1 DEF o
  <2>4. OnCourse(o, pc', todo', sent) /\ pc' # "idle"
    BY <1>1, <2>2, <2>3, EnterItemsOnCourse, EnterMoves
  <2> QED  BY <1>8, <2>2, <2>3, <2>4
<1>12. CASE SkipItem
  <2>1. PICK it \in todo : EnterItems(obj, todo \ {it})
    BY <1>12 DEF SkipItem
  <2>2. OnCourse(obj, pc', todo', sent) /\ pc' # "idle"
    BY <1>1, <1>3, <2>1, EnterItemsOnCourse, EnterMoves
  <2> QED  BY <1>9, <1>12, <2>2 DEF SkipItem
<1>13. CASE RemoveItem
  <2>1. PICK it \in todo :
          IF HasEvent(obj, "delete", it.id)
          THEN /\ EnterRemoved(obj, todo \ {it})
               /\ UNCHANGED <<apiVars, obj, fresh, now>>
          ELSE /\ Update(RemoveLeftover(it))
               /\ EnterRemoved(RemoveLeftover(it), todo \ {it})
    BY <1>13 DEF RemoveItem
  <2>2. CASE HasEvent(obj, "delete", it.id)
    <3>1. sent \/ Ended(obj, todo)
      BY <1>1, <1>13 DEF RemoveItem, OnCourse
    <3>2. sent \/ Ended(obj, todo \ {it})
      BY <2>2, <3>1, EndedSkip
    <3>3. EnterRemoved(obj, todo \ {it}) /\ UNCHANGED <<apiVars, obj, fresh>>
      BY <2>1, <2>2
    <3>4. OnCourse(obj, pc', todo', sent) /\ pc' # "idle"
      BY <1>1, <1>3, <3>2, <3>3, EnterRemovedOnCourse, EnterMoves
    <3> QED  BY <1>9, <3>3, <3>4
  <2>3. CASE ~HasEvent(obj, "delete", it.id)
    <3> DEFINE o == RemoveLeftover(it)
    <3>1. /\ Kept(obj, o) /\ o.exists \in BOOLEAN /\ InLoops(o, sent)
          /\ \A its : Ended(o, its)
      BY <1>1, <1>4, <1>5, <1>7 DEF RemoveLeftover
    <3> HIDE DEF o
    <3>2. Update(o) /\ EnterRemoved(o, todo \ {it})
      BY <2>1, <2>3 DEF o
    <3>3. OnCourse(o, pc', todo', sent) /\ pc' # "idle"
      BY <1>1, <3>1, <3>2, EnterRemovedOnCourse, EnterMoves
    <3> QED  BY <1>8, <3>1, <3>2, <3>3
  <2> QED  BY <2>2, <2>3
<1>14. CASE DeleteItem
  <2> DEFINE Enter(it, o) == IF pc = "delete" THEN EnterDelete(o, todo \ {it})
                             ELSE EnterDeleteSent(o, todo \ {it})
  <2>1. PICK it \in todo :
          IF HasEvent(obj, "delete", it.id)
          THEN Enter(it, obj) /\ UNCHANGED <<apiVars, obj, fresh, now>>
          ELSE Update(EnqueueDelete(it)) /\ Enter(it, EnqueueDelete(it))
    BY <1>14 DEF DeleteItem
  <2>2. pc \in {"delete", "deleteSent"}
    BY <1>14 DEF DeleteItem
  <2>3. ASSUME NEW o, InLoops(o, sent), Enter(it, o),
               pc = "deleteSent" => sent \/ Ended(o, todo \ {it})
        PROVE  OnCourse(o, pc', todo', sent) /\ pc' # "idle"
    BY <1>1, <2>2, <2>3, EnterDeleteOnCourse, EnterDeleteSentOnCourse, EnterMoves
  <2> HIDE DEF Enter
  <2>4. CASE HasEvent(obj, "delete", it.id)
    <3>1. pc = "deleteSent" => sent \/ Ended(obj, todo)
      BY <1>1 DEF OnCourse
    <3>2. pc = "deleteSent" => sent \/ Ended(obj, todo \ {it})
      BY <2>4, <3>1, EndedSkip
    <3> QED  BY <1>3, <1>9, <2>1, <2>3, <2>4, <3>2
  <2>5. CASE ~HasEvent(obj, "delete", it.id)
    <3> DEFINE o == EnqueueDelete(it)
    <3>1. LastObservedValue(obj, it) \in Values
      BY <1>1, <1>4, LastObservedValueType
    <3>2. /\ Kept(obj, o) /\ o.exists \in BOOLEAN /\ InLoops(o, sent)
          /\ \A its : Ended(o, its)
      BY <1>1, <1>4, <1>5, <1>7, <3>1 DEF EnqueueDelete
    <3> HIDE DEF o
    <3>3. Update(o) /\ Enter(it, o)
      BY <2>1, <2>5 DEF o
    <3> QED  BY <1>8, <2>3, <3>2, <3>3
  <2> QED  BY <2>4, <2>5
<1> QED  BY <1>10, <1>11, <1>12, <1>13, <1>14

\* Delivery: a failed or a recorded one.
LEMMA DeliveryKeeps ==
  ASSUME IInv, KeepInv,
         SendEvent \/ SendFails \/ PersistSent \/ PersistNotFound \/ PersistConflict
  PROVE  StepKeeps
<1> DEFINE e == NextToSend(obj)
<1>1. /\ obj \in Object /\ cache \in Object /\ srv \in Object /\ Guarded(obj)
      /\ sent \in BOOLEAN /\ OnCourse(obj, pc, todo, sent) /\ pc \in {"send", "persist"}
  BY DEF IInv, TypeOK, KeepInv, SendEvent, SendFails, PersistSent, PersistNotFound,
         PersistConflict
<1>2. e \in obj.events /\ IsUndelivered(e)
  BY <1>1, NextToSendIn DEF IInv, SendInv
<1> HIDE DEF e
<1>3. AsMessage(e).id \in InstancesOf(obj)
  BY <1>2 DEF InstancesOf, AsMessage
<1>4. fresh => obj = srv
  BY <1>1, FreshIsStored
<1>5. ASSUME pc' \in {"persist", "failStatus"}
      PROVE  OnCourse(obj, pc', todo', sent)
  BY <1>1, <1>5 DEF OnCourse
<1>6. CASE SendEvent
  <2>1. /\ delivered' = delivered \cup {AsMessage(e)} /\ pc' = "persist"
        /\ UNCHANGED <<apiVars, queued, obj, fresh, todo, sent>>
    BY <1>6 DEF SendEvent, Received, e
  <2> QED  BY <1>3, <1>4, <1>5, <2>1, ReadStep DEF StepKeeps
<1>7. CASE SendFails
  <2> DEFINE o == SetState(obj, e, "failed")
  <2>1. /\ delivered' = delivered \cup {AsMessage(e)} \/ UNCHANGED delivered
        /\ obj' = o /\ pc' = "saveFailed" /\ UNCHANGED <<apiVars, queued, fresh, todo, sent>>
    BY <1>7 DEF SendFails, Received, e
  <2>2. obj.exists
    BY <1>1 DEF OnCourse
  <2>3. Kept(obj, o) /\ SameSpec(obj, o)
    BY <1>1, <1>2, <2>2, KeptSetState DEF EventStates
  <2>4. InstancesOf(o) \subseteq InstancesOf(obj)
    BY <1>1, <1>2 DEF InstancesOf, SetState, Object, Event
  <2>5. CopyInv'
    <3>1. cacheFresh' => cache' = srv'
      BY <2>1 DEF KeepInv, CopyInv, apiVars
    <3>2. fresh' => srv'.exists
      BY <2>1 DEF KeepInv, CopyInv, apiVars
    <3>3. fresh' => \E f \in srv'.events : IsUndelivered(f) /\ obj' = SetState(srv', f, "failed")
      BY <1>2, <1>4, <2>1 DEF apiVars
    <3> QED  BY <2>1, <3>1, <3>2, <3>3 DEF CopyInv
  <2> HIDE DEF o
  <2>6. HistoryInv'
    BY <1>3, <2>1, <2>4 DEF KeepInv, HistoryInv, apiVars, InstancesOf
  <2>7. OnCourse(obj, pc, todo, sent)'
    BY <1>1, <2>1, <2>3 DEF OnCourse, SameSpec
  <2>8. Guarded(srv)' /\ Guarded(cache)' /\ Guarded(obj)'
    BY <2>1, <2>3 DEF KeepInv, Kept, apiVars
  <2> QED  BY <2>1, <2>5, <2>6, <2>7, <2>8 DEF StepKeeps, KeepInv, apiVars
<1>8. CASE PersistSent
  <2> DEFINE f == Newest(Matching(cache, e))
             o == MarkSent(cache, e)
  <2>1. /\ Matching(cache, e) # {} /\ cache.exists /\ cacheFresh /\ Stored(o) /\ obj' = o
        /\ fresh' = TRUE /\ pc' = AfterQueue(o, branch = "delete") /\ sent' = TRUE
        /\ UNCHANGED <<delivered, queued>>
    BY <1>8 DEF PersistSent, e
  <2>2. cache = srv /\ Guarded(srv)
    BY <2>1 DEF KeepInv, CopyInv
  <2>3. f \in cache.events
    <3>1. Sane(cache, delivered)
      BY DEF IInv
    <3> QED  BY <2>1, <3>1, NewestIn DEF Matching
  <2>4. srv.finalizer
    BY <2>1, <2>2, <2>3 DEF Guarded
  <2> HIDE DEF f
  <2>5. Kept(srv, o) /\ SameSpec(srv, o)
    <3>1. o = SetState(srv, f, "sent")
      BY <2>2 DEF MarkSent, f
    <3> QED  BY <1>1, <2>1, <2>2, <2>3, <3>1, KeptSetState DEF EventStates
  <2> HIDE DEF o
  <2>6. srv' = o /\ cache' = cache /\ cacheFresh' = FALSE
    BY <2>1 DEF Stored
  <2>7. HistoryInv'
    BY <2>1, <2>5, HistoryKept DEF KeepInv
  <2>8. CopyInv'
    BY <2>1, <2>2, <2>5, <2>6 DEF CopyInv, SameSpec
  <2>9. OnCourse(obj, pc, todo, sent)' /\ pc' # "idle"
    BY <2>1, <2>2, <2>4, <2>5 DEF OnCourse, AfterQueue, SameSpec
  <2>10. Guarded(srv)' /\ Guarded(cache)' /\ Guarded(obj)'
    BY <2>1, <2>5, <2>6 DEF KeepInv, Kept
  <2> QED  BY <2>5, <2>6, <2>7, <2>8, <2>9, <2>10 DEF StepKeeps, KeepInv
<1>9. CASE PersistNotFound \/ PersistConflict
  <2>1. /\ pc' \in {"persist", "failStatus"}
        /\ UNCHANGED <<apiVars, delivered, obj, fresh, todo, sent>>
    BY <1>9 DEF PersistNotFound, PersistConflict
  <2> QED  BY <1>4, <1>5, <2>1, ReadStep DEF StepKeeps
<1> QED  BY <1>6, <1>7, <1>8, <1>9

\* The start and the end of a reconcile.
LEMMA EndsKeep ==
  ASSUME IInv, KeepInv, \/ StartReconcile \/ WaitForStamp \/ FailStatus \/ UpdateStatus
                        \/ WriteFails \/ Crash
  PROVE  StepKeeps
<1>1. sent \in BOOLEAN /\ obj \in Object
  BY DEF IInv, TypeOK
<1>2. CASE StartReconcile
  <2>1. /\ pc = "idle" /\ queued' = FALSE /\ UNCHANGED <<apiVars, delivered, sent>>
        /\ IF cache.exists
           THEN obj' = cache /\ fresh' = cacheFresh /\ EnterOrder(cache)
           ELSE UNCHANGED <<pc, obj, fresh, todo>>
    BY <1>2 DEF StartReconcile
  <2>2. /\ srv' = srv /\ cache' = cache /\ cacheFresh' = cacheFresh /\ notify' = notify
        /\ delivered' = delivered /\ sent' = sent
    BY <2>1 DEF apiVars
  <2>3. CASE cache.exists
    <3>1. obj' = cache /\ fresh' = cacheFresh /\ EnterOrder(cache)
      BY <2>1, <2>3
    <3>2. OnCourse(cache, pc', todo', sent) /\ pc' # "idle"
      BY <1>1, <2>3, <3>1, EnterOrderOnCourse, EnterMoves DEF KeepInv
    <3>3. HistoryInv' /\ CopyInv'
      BY <2>2, <2>3, <3>1 DEF KeepInv, HistoryInv, CopyInv, InstancesOf
    <3> QED  BY <2>2, <3>1, <3>2, <3>3 DEF StepKeeps, KeepInv
  <2>4. CASE ~cache.exists
    <3>1. UNCHANGED <<pc, obj, fresh, todo>> /\ ~srv.exists
      BY <2>1, <2>4 DEF KeepInv, HistoryInv
    <3>2. HistoryInv' /\ CopyInv'
      BY <2>2, <3>1 DEF KeepInv, HistoryInv, CopyInv, InstancesOf
    <3> QED  BY <2>2, <3>1, <3>2 DEF StepKeeps, KeepInv
  <2> QED  BY <2>3, <2>4
<1>3. CASE WaitForStamp
  BY <1>3, AbortStep DEF WaitForStamp, StepKeeps
<1>4. CASE FailStatus
  BY <1>4, StatusKeeps DEF FailStatus, StepKeeps
<1>5. CASE UpdateStatus
  <2>1. NeedsRequeue \in BOOLEAN
    BY <1>1 DEF NeedsRequeue, HasBacklog, IsUndelivered
  <2>2. ASSUME ~NeedsRequeue
        PROVE  Settled(SetConditions(obj))
    <3> DEFINE o == SetConditions(obj)
    <3>1. ~sent /\ ~HasBacklog(obj) /\ pc = "status"
      BY <1>5, <2>2 DEF NeedsRequeue, UpdateStatus
    <3>2. Ended(obj, {}) /\ obj.resend = "none"
      BY <3>1 DEF KeepInv, OnCourse
    <3>3. /\ o.events = obj.events /\ o.items = obj.items /\ o.resend = obj.resend
          /\ o.deleting = obj.deleting /\ o.ready = ~obj.deleting /\ o.synced = ~HasBacklog(obj)
      BY <1>1 DEF SetConditions, Object
    <3> HIDE DEF o
    <3>4. ~HasBacklog(o) /\ Ended(o, {})
      BY <3>1, <3>2, <3>3 DEF HasBacklog, IsUndelivered, Ended, SentSizes, Listed, HasEvent
    <3>5. Settled(o)
      BY <3>1, <3>2, <3>3, <3>4 DEF Settled
    <3> QED  BY <3>5 DEF o
  <2> QED  BY <1>5, <2>1, <2>2, StatusKeeps DEF UpdateStatus, StepKeeps
<1>6. CASE WriteFails
  <2>1. CASE pc = "saveFailed"
    <3>1. /\ pc' = "failStatus"
          /\ UNCHANGED <<apiVars, delivered, queued, obj, fresh, todo, sent>>
      BY <1>6, <2>1 DEF WriteFails
    <3>2. HistoryInv' /\ CopyInv' /\ OnCourse(obj, pc, todo, sent)'
      BY <2>1, <3>1 DEF KeepInv, HistoryInv, CopyInv, InstancesOf, OnCourse, apiVars
    <3> QED  BY <3>1, <3>2 DEF StepKeeps, KeepInv, apiVars
  <2>2. CASE pc # "saveFailed"
    BY <1>6, <2>2, AbortStep DEF WriteFails, StepKeeps
  <2> QED  BY <2>1, <2>2
<1>7. CASE Crash
  BY <1>7, AbortStep DEF Crash, StepKeeps
<1> QED  BY <1>2, <1>3, <1>4, <1>5, <1>6, <1>7

\* The informer, the clock and the other clients.
LEMMA WorldKeeps ==
  ASSUME IInv, KeepInv, Refresh \/ Tick \/ Owner \/ Stamp
  PROVE  StepKeeps
<1>1. srv \in Object
  BY DEF IInv, TypeOK
<1>2. CASE Refresh
  <2>1. /\ cache' = srv /\ cacheFresh' = TRUE /\ queued' = (queued \/ notify)
        /\ notify' = FALSE /\ obj' = IF pc = "idle" THEN srv ELSE obj
        /\ UNCHANGED <<srv, pc, fresh, todo, sent, delivered>>
    BY <1>2 DEF Refresh
  <2>2. HistoryInv' /\ CopyInv' /\ OnCourse(obj, pc, todo, sent)'
    BY <2>1 DEF KeepInv, HistoryInv, CopyInv, InstancesOf, OnCourse
  <2> QED  BY <2>1, <2>2 DEF StepKeeps, KeepInv
<1>3. CASE Tick
  <2>1. UNCHANGED <<apiVars, pc, obj, fresh, todo, sent, delivered, queued>>
    BY <1>3 DEF Tick, localVars
  <2>2. HistoryInv' /\ CopyInv'
    BY <2>1 DEF KeepInv, HistoryInv, CopyInv, InstancesOf, apiVars
  <2> QED  BY <2>1, <2>2 DEF StepKeeps, KeepInv, apiVars
<1>4. ASSUME NEW o, Stored(o), fresh' = FALSE, srv.exists, o.exists \in BOOLEAN,
             UNCHANGED <<pc, obj, todo, sent, delivered, queued>>,
             o.events = srv.events, o.finalizer = srv.finalizer,
             \/ o.exists = srv.exists /\ o.deleting = srv.deleting
             \/ o.exists = srv.finalizer /\ o.deleting /\ ~srv.deleting,
             o.ready = srv.ready, o.synced = srv.synced
      PROVE  StepKeeps
  BY <1>4, ForeignKeeps DEF StepKeeps
<1>5. CASE SetValue \/ AddItem \/ DropItem
  <2>1. PICK i, v : Edit([srv EXCEPT !.items[i] = v])
    BY <1>5 DEF SetValue, AddItem, DropItem
  <2> DEFINE o == [srv EXCEPT !.items[i] = v]
  <2>2. /\ o.events = srv.events /\ o.finalizer = srv.finalizer /\ o.exists = srv.exists
        /\ o.deleting = srv.deleting /\ o.ready = srv.ready /\ o.synced = srv.synced
    BY <1>1 DEF Object
  <2> HIDE DEF o
  <2>3. Edit(o)
    BY <2>1 DEF o
  <2> QED  BY <1>1, <1>4, <2>2, <2>3 DEF Edit, Object
<1>6. CASE Annotate
  <2>1. PICK mode : Edit([srv EXCEPT !.resend = mode])
    BY <1>6 DEF Annotate
  <2> DEFINE o == [srv EXCEPT !.resend = mode]
  <2>2. /\ o.events = srv.events /\ o.finalizer = srv.finalizer /\ o.exists = srv.exists
        /\ o.deleting = srv.deleting /\ o.ready = srv.ready /\ o.synced = srv.synced
    BY <1>1 DEF Object
  <2> HIDE DEF o
  <2>3. Edit(o)
    BY <2>1 DEF o
  <2> QED  BY <1>1, <1>4, <2>2, <2>3 DEF Edit, Object
<1>7. CASE Delete
  <2> DEFINE o == [srv EXCEPT !.deleting = TRUE, !.deletedAt = now, !.exists = srv.finalizer]
  <2>1. /\ o.events = srv.events /\ o.finalizer = srv.finalizer /\ o.exists = srv.finalizer
        /\ o.deleting /\ o.ready = srv.ready /\ o.synced = srv.synced
    BY <1>1 DEF Object
  <2>2. Edit(o) /\ ~srv.deleting
    BY <1>7 DEF Delete
  <2> HIDE DEF o
  <2> QED  BY <1>1, <1>4, <2>1, <2>2 DEF Edit, Object
<1>8. CASE Stamp
  <2> DEFINE o == [srv EXCEPT !.stamped = TRUE]
  <2>1. /\ o.events = srv.events /\ o.finalizer = srv.finalizer /\ o.exists = srv.exists
        /\ o.deleting = srv.deleting /\ o.ready = srv.ready /\ o.synced = srv.synced
    BY <1>1 DEF Object
  <2>2. /\ srv.exists /\ Stored(o) /\ fresh' = FALSE
        /\ UNCHANGED <<pc, obj, todo, sent, delivered, queued>>
    BY <1>8 DEF Stamp
  <2> HIDE DEF o
  <2> QED  BY <1>1, <1>4, <2>1, <2>2 DEF Object
<1> QED  BY <1>2, <1>3, <1>5, <1>6, <1>7, <1>8 DEF Owner

\* A BillingService that was just created has no events to keep.
LEMMA InitKeeps == Init => KeepInv
<1> SUFFICES ASSUME Init PROVE KeepInv
  OBVIOUS
<1>1. /\ srv.exists /\ ~srv.finalizer /\ srv.events = {} /\ ~srv.deleting
      /\ cache = srv /\ obj = srv /\ pc = "idle" /\ queued /\ fresh = FALSE
      /\ delivered = {}
  BY DEF Init, NewObject
<1>2. Guarded(srv)
  BY <1>1, FS_EmptySet DEF Guarded
<1>3. CopyInv /\ HistoryInv /\ OnCourse(obj, pc, todo, sent)
  BY <1>1 DEF CopyInv, HistoryInv, InstancesOf, OnCourse
<1> QED  BY <1>1, <1>2, <1>3 DEF KeepInv

\* Every step preserves KeepInv and keeps the undelivered events.
LEMMA NextKeeps == IInv /\ KeepInv /\ [Next]_vars => StepKeeps
<1> SUFFICES ASSUME IInv, KeepInv, [Next]_vars PROVE StepKeeps
  OBVIOUS
<1>1. CASE Next
  BY <1>1, WriteActionsKeep, LoopActionsKeep, DeliveryKeeps, EndsKeep, WorldKeeps
     DEF Next, Reconcile, Refused
<1>2. CASE UNCHANGED vars
  <2>1. UNCHANGED <<apiVars, pc, obj, fresh, todo, sent, delivered, queued>>
    BY <1>2 DEF vars, localVars
  <2>2. HistoryInv' /\ CopyInv'
    BY <2>1 DEF KeepInv, HistoryInv, CopyInv, InstancesOf, apiVars
  <2> QED  BY <2>1, <2>2 DEF StepKeeps, KeepInv, apiVars
<1> QED  BY <1>1, <1>2

\* Both inductive invariants hold in every reachable state.
LEMMA InvariantsHold == Spec => [](IInv /\ KeepInv)
<1>1. IInv /\ KeepInv /\ [Next]_vars => KeepInv'
  BY NextKeeps DEF StepKeeps
<1> QED  BY <1>1, InitOK, NextOK, InitKeeps, PTL DEF Spec
-----------------------------------------------------------------------------
(* OpenInv: deletes are about dropped instances.                           *)

\* The items that were ever listed and may have events.
EverListed == Listed(srv) \cup dropped

\* The deletes among T are about instances that S has a delete for, or i.
EndsFrom(S, T, i) ==
  \A d \in T : d.type = "delete" =>
    d.id = i \/ \E c \in S : c.type = "delete" /\ c.id = d.id

\* Every delete among the events of T was among those of S already.
NoNewEnd(S, T) ==
  \A d \in T : d.type = "delete" => \E c \in S : c.type = "delete" /\ c.id = d.id

\* Recording the outcome of a delivery ends no instance.
LEMMA SetStateEndsNone ==
  ASSUME NEW o \in Object, NEW e \in o.events, NEW s
  PROVE  /\ NoNewEnd(o.events, SetState(o, e, s).events)
         /\ InstancesOf(SetState(o, e, s)) \subseteq InstancesOf(o)
         /\ SameSpec(o, SetState(o, e, s))
<1>1. SetState(o, e, s).events = (o.events \ {e}) \cup {[e EXCEPT !.state = s]}
  BY DEF SetState, Object
<1>2. [e EXCEPT !.state = s].type = e.type /\ [e EXCEPT !.state = s].id = e.id
  BY DEF Object, Event
<1> QED  BY <1>1, <1>2 DEF NoNewEnd, InstancesOf, SameSpec, SetState, Object

\* Nor does the resend annotation.
LEMMA MarkResendEndsNone ==
  ASSUME NEW o \in Object
  PROVE  /\ NoNewEnd(o.events, MarkResend(o).events)
         /\ InstancesOf(MarkResend(o)) \subseteq InstancesOf(o)
<1> DEFINE Mark(e) == IF e.state \in ResendStates(o.resend)
                      THEN [e EXCEPT !.state = "resend"] ELSE e
<1>1. MarkResend(o).events = {Mark(e) : e \in o.events}
  BY DEF MarkResend, Object
<1>2. \A e \in o.events : Mark(e).type = e.type /\ Mark(e).id = e.id
  BY DEF Object, Event
<1> HIDE DEF Mark
<1> QED  BY <1>1, <1>2 DEF NoNewEnd, InstancesOf

\* Only an enqueued delete ends an instance: its own.
LEMMA EnqueueEnds ==
  ASSUME NEW o \in Object, NEW type, NEW i, NEW v, NEW ts
  PROVE  LET p == EnqueueEvent(o, type, i, v, ts)
         IN /\ type # "delete" => NoNewEnd(o.events, p.events)
            /\ EndsFrom(o.events, p.events, i)
            /\ InstancesOf(p) \subseteq InstancesOf(o) \cup {i}
            /\ SameSpec(o, p)
<1> DEFINE n == NewEvent(o, type, i, v, ts)
           p == EnqueueEvent(o, type, i, v, ts)
<1>1. n.type = type /\ n.id = i
  BY DEF NewEvent
<1> HIDE DEF n
<1>2. p.events \subseteq o.events \cup {n} /\ SameSpec(o, p)
  BY DEF EnqueueEvent, PruneEvents, Object, SameSpec, n
<1> HIDE DEF p
<1>3. NoNewEnd(o.events, p.events) \/ type = "delete"
  BY <1>1, <1>2 DEF NoNewEnd
<1>4. EndsFrom(o.events, p.events, i) /\ InstancesOf(p) \subseteq InstancesOf(o) \cup {i}
  BY <1>1, <1>2 DEF EndsFrom, InstancesOf
<1> QED  BY <1>2, <1>3, <1>4 DEF p

\* The items the loops range over, at their start.
LEMMA ItemsToVisit ==
  ASSUME NEW o
  PROVE  /\ \A it \in SpecItems(o) : it.id \in Listed(o)
         /\ \A it \in Leftovers(o) : it.id \in InstancesOf(o) \ Listed(o)
         /\ \A it \in LastSent(o) : it.id \in InstancesOf(o)
<1>1. \A i : SentSizes(o, i) # {} => i \in InstancesOf(o)
  BY DEF SentSizes, InstancesOf
<1>2. \A it \in LastSent(o) : it.id \in InstancesOf(o)
  BY <1>1 DEF LastSent
<1> QED  BY <1>2 DEF SpecItems, Leftovers

\* Leaving the loop over removed items.
LEMMA EnterRemovedVisits ==
  ASSUME NEW o, NEW its, \A it \in its : it.id \in InstancesOf(o) \ Listed(o),
         EnterRemoved(o, its)
  PROVE  VisitsItems(o, pc', todo')
BY DEF EnterRemoved, EnterQueue, AfterQueue, VisitsItems

\* Leaving the loop over the items of the spec.
LEMMA EnterItemsVisits ==
  ASSUME NEW o, NEW its, \A it \in its : it.id \in Listed(o), EnterItems(o, its)
  PROVE  VisitsItems(o, pc', todo')
<1>1. CASE its = {}
  BY <1>1, ItemsToVisit, EnterRemovedVisits DEF EnterItems
<1>2. CASE its # {}
  BY <1>2 DEF EnterItems, VisitsItems
<1> QED  BY <1>1, <1>2

\* Leaving the loop over the sent instances of a deleted resource.
LEMMA EnterDeleteSentVisits ==
  ASSUME NEW o, NEW its, o.deleting, \A it \in its : it.id \in InstancesOf(o),
         EnterDeleteSent(o, its)
  PROVE  VisitsItems(o, pc', todo')
BY DEF EnterDeleteSent, EnterQueue, AfterQueue, VisitsItems

\* Leaving the loop over the items of a deleted resource.
LEMMA EnterDeleteVisits ==
  ASSUME NEW o, NEW its, o.deleting, \A it \in its : it.id \in Listed(o),
         EnterDelete(o, its)
  PROVE  VisitsItems(o, pc', todo')
<1>1. CASE its = {}
  BY <1>1, ItemsToVisit, EnterDeleteSentVisits DEF EnterDelete
<1>2. CASE its # {}
  BY <1>2 DEF EnterDelete, VisitsItems
<1> QED  BY <1>1, <1>2

\* Every way into the loops.
LEMMA EnterBranchVisits ==
  ASSUME NEW o, EnterBranch(o) \/ EnterResend(o) \/ EnterFinalizer(o) \/ EnterOrder(o)
  PROVE  VisitsItems(o, pc', todo')
<1>1. CASE EnterBranch(o)
  BY <1>1, ItemsToVisit, EnterItemsVisits, EnterDeleteVisits DEF EnterBranch
<1>2. CASE pc' \in {"order", "finalizer", "resend", "annotation"}
  BY <1>2 DEF VisitsItems
<1> QED  BY <1>1, <1>2 DEF EnterResend, EnterFinalizer, EnterOrder

\* A copy with the current resource version has the spec of the stored object.
LEMMA FreshSpec ==
  ASSUME IInv, KeepInv, fresh
  PROVE  SameSpec(srv, obj) /\ InstancesOf(obj) \subseteq InstancesOf(srv)
<1>1. srv \in Object
  BY DEF IInv, TypeOK
<1>2. SameSpec(srv, obj)
  BY <1>1, SetStateEndsNone DEF KeepInv, CopyInv, SameSpec
<1> QED  BY <1>2 DEF KeepInv, HistoryInv

\* Steps of the reconciler: the spec stays as it is.
LEMMA OpenStep ==
  ASSUME OpenInv, UNCHANGED dropped, srv'.items = srv.items, srv'.deleting = srv.deleting,
         InstancesOf(srv') \subseteq EverListed, cache' \in {cache, srv},
         EndsDropped(srv'.events), EndsDropped(obj'.events), EndsDropped(delivered'),
         VisitsItems(obj', pc', todo')
  PROVE  OpenInv'
<1>1. Listed(srv') = Listed(srv)
  BY DEF Listed
<1>2. EndsDropped(cache'.events)
  BY DEF OpenInv
<1>3. ASSUME NEW S, EndsDropped(S)
      PROVE  srv'.deleting \/ \A d \in S : d.type = "delete" => d.id \in dropped'
  BY <1>3 DEF EndsDropped
<1>4. /\ EndsDropped(srv.events)' /\ EndsDropped(cache.events)' /\ EndsDropped(obj.events)'
      /\ EndsDropped(delivered)'
  BY <1>2, <1>3 DEF EndsDropped
<1>5. (InstancesOf(srv) \subseteq Listed(srv) \cup dropped)'
  BY <1>1 DEF EverListed, Listed, InstancesOf
<1>6. VisitsItems(obj, pc, todo)'
  OBVIOUS
<1> QED  BY <1>4, <1>5, <1>6 DEF OpenInv

\* A write by the reconciler.
LEMMA UpdateOpen ==
  ASSUME IInv, KeepInv, OpenInv, NEW o, Update(o), SameSpec(obj, o) \/
           (o.items = obj.items /\ o.deleting = obj.deleting),
         InstancesOf(o) \subseteq EverListed, EndsDropped(o.events),
         UNCHANGED <<delivered, dropped>>, VisitsItems(o, pc', todo')
  PROVE  OpenInv'
<1>1. /\ srv' = o /\ obj' = o /\ cache' = cache /\ fresh
  BY DEF Update, Stored
<1>2. o.items = srv.items /\ o.deleting = srv.deleting
  BY <1>1, FreshSpec DEF SameSpec
<1> QED  BY <1>1, <1>2, OpenStep DEF OpenInv

\* Steps of Reconcile that write the local copy, and its loops.
LEMMA WritesOpen ==
  ASSUME IInv, KeepInv, OpenInv,
         \/ SetSalesOrder \/ AddFinalizer \/ HandleResend \/ DropAnnotation
         \/ SaveFailed \/ RemoveFinalizer \/ CreateItem \/ ScaleItem
  PROVE  OpenInv'
<1>1. /\ obj \in Object /\ EndsDropped(obj.events) /\ UNCHANGED <<delivered, dropped>>
      /\ VisitsItems(obj, pc, todo) /\ fresh
  BY DEF IInv, TypeOK, OpenInv, SetSalesOrder, AddFinalizer, HandleResend, DropAnnotation,
         SaveFailed, RemoveFinalizer, CreateItem, ScaleItem, unchangedByWrite, history, Update
<1>2. InstancesOf(obj) \subseteq EverListed /\ Listed(obj) = Listed(srv)
  BY <1>1, FreshSpec DEF OpenInv, SameSpec, Listed, EverListed
<1>3. ASSUME NEW o, Update(o), o.items = obj.items, o.deleting = obj.deleting,
             NoNewEnd(obj.events, o.events), InstancesOf(o) \subseteq EverListed,
             VisitsItems(o, pc', todo')
      PROVE  OpenInv'
  <2>1. EndsDropped(o.events)
    BY <1>1, <1>3 DEF NoNewEnd, EndsDropped
  <2> QED  BY <1>1, <1>3, <2>1, UpdateOpen
<1>4. ASSUME NEW o, Update(o), o.items = obj.items, o.deleting = obj.deleting,
             o.events = obj.events, VisitsItems(o, pc', todo')
      PROVE  OpenInv'
  BY <1>2, <1>3, <1>4 DEF NoNewEnd, InstancesOf
<1>5. ASSUME NEW o, pc' \in {"annotation", "failStatus", "status"}
      PROVE  VisitsItems(o, pc', todo')
  BY <1>5 DEF VisitsItems
<1>6. CASE SetSalesOrder
  <2> DEFINE o == [obj EXCEPT !.order = TRUE]
  <2>1. o.items = obj.items /\ o.deleting = obj.deleting /\ o.events = obj.events
    BY <1>1 DEF Object
  <2>2. Update(o) /\ EnterFinalizer(o)
    BY <1>6 DEF SetSalesOrder
  <2> HIDE DEF o
  <2> QED  BY <1>4, <2>1, <2>2, EnterBranchVisits
<1>7. CASE AddFinalizer
  <2> DEFINE o == [obj EXCEPT !.finalizer = TRUE]
  <2>1. o.items = obj.items /\ o.deleting = obj.deleting /\ o.events = obj.events
    BY <1>1 DEF Object
  <2>2. Update(o) /\ EnterResend(o)
    BY <1>7 DEF AddFinalizer
  <2> HIDE DEF o
  <2> QED  BY <1>4, <2>1, <2>2, EnterBranchVisits
<1>8. CASE HandleResend
  <2>1. Update(MarkResend(obj)) /\ pc' = "annotation"
    BY <1>8 DEF HandleResend
  <2>2. MarkResend(obj).items = obj.items /\ MarkResend(obj).deleting = obj.deleting
    BY <1>1 DEF MarkResend, Object
  <2> QED  BY <1>1, <1>2, <1>3, <1>5, <2>1, <2>2, MarkResendEndsNone
<1>9. CASE DropAnnotation
  <2> DEFINE o == [obj EXCEPT !.resend = "none"]
  <2>1. o.items = obj.items /\ o.deleting = obj.deleting /\ o.events = obj.events
    BY <1>1 DEF Object
  <2>2. Update(o) /\ EnterBranch(o)
    BY <1>9 DEF DropAnnotation
  <2> HIDE DEF o
  <2> QED  BY <1>4, <2>1, <2>2, EnterBranchVisits
<1>10. CASE SaveFailed
  BY <1>4, <1>5, <1>10 DEF SaveFailed
<1>11. CASE RemoveFinalizer
  <2> DEFINE o == [obj EXCEPT !.finalizer = FALSE, !.exists = FALSE]
  <2>1. o.items = obj.items /\ o.deleting = obj.deleting /\ o.events = obj.events
    BY <1>1 DEF Object
  <2>2. Update(o) /\ pc' = "status"
    BY <1>11 DEF RemoveFinalizer
  <2> HIDE DEF o
  <2> QED  BY <1>4, <1>5, <2>1, <2>2
<1>12. ASSUME NEW it \in todo, NEW type, NEW v, NEW ts, type # "delete",
              pc \in {"items", "scale"}
       PROVE  LET o == EnqueueEvent(obj, type, it.id, v, ts)
              IN /\ NoNewEnd(obj.events, o.events) /\ InstancesOf(o) \subseteq EverListed
                 /\ o.items = obj.items /\ o.deleting = obj.deleting
                 /\ Listed(o) = Listed(obj)
  <2>1. it.id \in EverListed
    BY <1>1, <1>2, <1>12 DEF VisitsItems, EverListed
  <2> QED  BY <1>1, <1>2, <1>12, <2>1, EnqueueEnds DEF SameSpec, Listed
<1>13. CASE CreateItem
  <2>1. PICK it \in todo :
          /\ Update(EnqueueCreate(it))
          /\ IF NeedsScale(EnqueueCreate(it), it)
             THEN pc' = "scale" /\ UNCHANGED todo
             ELSE EnterItems(EnqueueCreate(it), todo \ {it})
    BY <1>13 DEF CreateItem
  <2> DEFINE o == EnqueueCreate(it)
  <2>2. pc = "items"
    BY <1>13 DEF CreateItem
  <2>3. /\ NoNewEnd(obj.events, o.events) /\ InstancesOf(o) \subseteq EverListed
        /\ o.items = obj.items /\ o.deleting = obj.deleting /\ Listed(o) = Listed(obj)
    BY <1>12, <2>2 DEF EnqueueCreate
  <2> HIDE DEF o
  <2>4. VisitsItems(o, pc', todo')
    <3>1. \A x \in todo : x.id \in Listed(o)
      BY <1>1, <2>2, <2>3 DEF VisitsItems
    <3>2. CASE pc' = "scale" /\ UNCHANGED todo
      BY <3>1, <3>2 DEF VisitsItems
    <3>3. CASE EnterItems(o, todo \ {it})
      BY <3>1, <3>3, EnterItemsVisits
    <3> QED  BY <2>1, <3>2, <3>3 DEF o
  <2> QED  BY <1>3, <2>1, <2>3, <2>4 DEF o
<1>14. CASE ScaleItem
  <2>1. PICK it \in todo : Update(ScaleTo(it)) /\ EnterItems(ScaleTo(it), todo \ {it})
    BY <1>14 DEF ScaleItem
  <2> DEFINE o == ScaleTo(it)
  <2>2. pc \in {"items", "scale"}
    BY <1>14 DEF ScaleItem
  <2>3. /\ NoNewEnd(obj.events, o.events) /\ InstancesOf(o) \subseteq EverListed
        /\ o.items = obj.items /\ o.deleting = obj.deleting /\ Listed(o) = Listed(obj)
    BY <1>12, <2>2 DEF ScaleTo
  <2> HIDE DEF o
  <2>4. VisitsItems(o, pc', todo')
    <3>1. \A x \in todo : x.id \in Listed(o)
      BY <1>1, <2>2, <2>3 DEF VisitsItems
    <3> QED  BY <2>1, <3>1, EnterItemsVisits DEF o
  <2> QED  BY <1>3, <2>1, <2>3, <2>4 DEF o
<1> QED  BY <1>6, <1>7, <1>8, <1>9, <1>10, <1>11, <1>13, <1>14

\* The loops that enqueue deletes: for a dropped instance, or once the
\* resource is deleted.
LEMMA DeletesOpen ==
  ASSUME IInv, KeepInv, OpenInv, SkipItem \/ RemoveItem \/ DeleteItem
  PROVE  OpenInv'
<1>1. /\ obj \in Object /\ EndsDropped(obj.events) /\ UNCHANGED <<delivered, dropped>>
      /\ VisitsItems(obj, pc, todo) /\ InstancesOf(obj) \subseteq EverListed
  BY DEF IInv, TypeOK, OpenInv, SkipItem, RemoveItem, DeleteItem, unchangedByWrite, envVars, history,
         KeepInv, HistoryInv, EverListed
<1>2. ASSUME UNCHANGED <<apiVars, obj>>, VisitsItems(obj, pc', todo')
      PROVE  OpenInv'
  BY <1>1, <1>2, OpenStep DEF OpenInv, EverListed, apiVars
<1>3. ASSUME NEW it \in todo, NEW v, NEW ts, pc \in {"removed", "delete", "deleteSent"},
             Update(EnqueueEvent(obj, "delete", it.id, v, ts)),
             VisitsItems(EnqueueEvent(obj, "delete", it.id, v, ts), pc', todo')
      PROVE  OpenInv'
  <2> DEFINE o == EnqueueEvent(obj, "delete", it.id, v, ts)
  <2>1. Listed(obj) = Listed(srv) /\ obj.deleting = srv.deleting
    BY <1>3, FreshSpec DEF Update, SameSpec, Listed
  <2>2. it.id \in EverListed /\ (srv.deleting \/ it.id \in dropped)
    BY <1>1, <1>3, <2>1 DEF VisitsItems, EverListed
  <2>3. EndsFrom(obj.events, o.events, it.id) /\ SameSpec(obj, o)
        /\ InstancesOf(o) \subseteq InstancesOf(obj) \cup {it.id}
    BY <1>1, EnqueueEnds
  <2>4. Update(o) /\ VisitsItems(o, pc', todo')
    BY <1>3
  <2> HIDE DEF o
  <2>5. EndsDropped(o.events) /\ InstancesOf(o) \subseteq EverListed
    BY <1>1, <2>2, <2>3 DEF EndsDropped, EndsFrom
  <2> QED  BY <1>1, <2>3, <2>4, <2>5, UpdateOpen
<1>4. ASSUME NEW it \in todo, NEW v \in Values, NEW ts \in Nat,
             pc \in {"removed", "delete", "deleteSent"}
      PROVE  LET o == EnqueueEvent(obj, "delete", it.id, v, ts)
             IN /\ \A i \in InstancesOf(obj) : i \in InstancesOf(o)
                /\ Listed(o) = Listed(obj) /\ o.deleting = obj.deleting
  <2>1. /\ Sane(obj, delivered) /\ Guarded(obj) /\ obj.exists /\ obj.finalizer
        /\ it.id \in Instances /\ "delete" \in EventTypes
    BY <1>4 DEF IInv, TypeOK, KeepInv, OnCourse, Item, EventTypes
  <2> QED  BY <2>1, KeptEnqueue DEF Kept, SameSpec, Listed
<1>5. /\ now \in Nat /\ obj.deletedAt \in Nat /\ Sane(obj, delivered)
      /\ \A it \in todo : it.value \in Values /\ it \in Item
  BY <1>1 DEF IInv, TypeOK, Item, Object
<1>6. CASE SkipItem
  <2>1. PICK it \in todo : EnterItems(obj, todo \ {it})
    BY <1>6 DEF SkipItem
  <2>2. VisitsItems(obj, pc', todo')
    BY <1>1, <1>6, <2>1, EnterItemsVisits DEF SkipItem, VisitsItems
  <2> QED  BY <1>2, <1>6, <2>2 DEF SkipItem
<1>7. CASE RemoveItem
  <2>1. pc = "removed" /\ \A it \in todo : it.id \in InstancesOf(obj) \ Listed(obj)
    BY <1>1, <1>7 DEF RemoveItem, VisitsItems
  <2>2. PICK it \in todo :
          IF HasEvent(obj, "delete", it.id)
          THEN /\ EnterRemoved(obj, todo \ {it})
               /\ UNCHANGED <<apiVars, obj, fresh, now>>
          ELSE /\ Update(RemoveLeftover(it))
               /\ EnterRemoved(RemoveLeftover(it), todo \ {it})
    BY <1>7 DEF RemoveItem
  <2>3. CASE HasEvent(obj, "delete", it.id)
    BY <1>2, <2>1, <2>2, <2>3, EnterRemovedVisits
  <2>4. CASE ~HasEvent(obj, "delete", it.id)
    <3> DEFINE o == EnqueueEvent(obj, "delete", it.id, it.value, now)
    <3>1. Update(o) /\ EnterRemoved(o, todo \ {it})
      BY <2>2, <2>4 DEF RemoveLeftover
    <3>2. \A i \in InstancesOf(obj) : i \in InstancesOf(o)
      BY <1>4, <1>5, <2>1
    <3>3. Listed(o) = Listed(obj)
      BY <1>4, <1>5, <2>1
    <3>4. VisitsItems(o, pc', todo')
      <4> HIDE DEF o
      <4> QED  BY <2>1, <3>1, <3>2, <3>3, EnterRemovedVisits
    <3> QED  BY <1>3, <2>1, <3>1, <3>4
  <2> QED  BY <2>3, <2>4
<1>8. CASE DeleteItem
  <2> DEFINE Enter(it, o) == IF pc = "delete" THEN EnterDelete(o, todo \ {it})
                             ELSE EnterDeleteSent(o, todo \ {it})
  <2>1. /\ pc \in {"delete", "deleteSent"} /\ obj.deleting
        /\ pc = "delete" => \A it \in todo : it.id \in Listed(obj)
        /\ pc = "deleteSent" => \A it \in todo : it.id \in InstancesOf(obj)
    BY <1>1, <1>8 DEF DeleteItem, VisitsItems
  <2>2. PICK it \in todo :
          IF HasEvent(obj, "delete", it.id)
          THEN Enter(it, obj) /\ UNCHANGED <<apiVars, obj, fresh, now>>
          ELSE Update(EnqueueDelete(it)) /\ Enter(it, EnqueueDelete(it))
    BY <1>8 DEF DeleteItem
  <2>3. ASSUME NEW o, Enter(it, o), o.deleting = obj.deleting, Listed(o) = Listed(obj),
               \A i \in InstancesOf(obj) : i \in InstancesOf(o)
        PROVE  VisitsItems(o, pc', todo')
    <3>1. CASE pc = "delete"
      BY <2>1, <2>3, <3>1, EnterDeleteVisits
    <3>2. CASE pc = "deleteSent"
      BY <2>1, <2>3, <3>2, EnterDeleteSentVisits
    <3> QED  BY <2>1, <3>1, <3>2
  <2> HIDE DEF Enter
  <2>4. CASE HasEvent(obj, "delete", it.id)
    BY <1>2, <2>2, <2>3, <2>4
  <2>5. CASE ~HasEvent(obj, "delete", it.id)
    <3> DEFINE v == LastObservedValue(obj, it)
               o == EnqueueEvent(obj, "delete", it.id, v, obj.deletedAt)
    <3>1. v \in Values
      BY <1>5, LastObservedValueType
    <3>2. Update(o) /\ Enter(it, o)
      BY <2>2, <2>5 DEF EnqueueDelete
    <3> HIDE DEF v
    <3>3. /\ \A i \in InstancesOf(obj) : i \in InstancesOf(o)
          /\ Listed(o) = Listed(obj) /\ o.deleting = obj.deleting
      BY <1>4, <1>5, <2>1, <3>1
    <3>4. VisitsItems(o, pc', todo')
      <4> HIDE DEF o
      <4> QED  BY <2>3, <3>2, <3>3
    <3> QED  BY <1>3, <2>1, <3>2, <3>4
  <2> QED  BY <2>4, <2>5
<1> QED  BY <1>6, <1>7, <1>8

\* Delivery, and the start and the end of a reconcile.
LEMMA RestOpen ==
  ASSUME IInv, KeepInv, OpenInv,
         \/ SendEvent \/ SendFails \/ PersistSent \/ PersistNotFound \/ PersistConflict
         \/ StartReconcile \/ WaitForStamp \/ FailStatus \/ UpdateStatus
         \/ WriteFails \/ Crash
  PROVE  OpenInv'
<1>1. /\ obj \in Object /\ cache \in Object /\ srv \in Object /\ dropped' = dropped
      /\ VisitsItems(obj, pc, todo) /\ InstancesOf(srv) \subseteq EverListed
      /\ EndsDropped(srv.events) /\ EndsDropped(cache.events) /\ EndsDropped(obj.events)
      /\ EndsDropped(delivered)
  BY DEF IInv, TypeOK, OpenInv, SendEvent, SendFails, PersistSent, PersistNotFound,
         PersistConflict, StartReconcile, WaitForStamp, FailStatus, UpdateStatus,
         WriteFails, Crash, envVars, history, EverListed
<1>2. ASSUME UNCHANGED apiVars, EndsDropped(obj'.events), EndsDropped(delivered'),
             VisitsItems(obj', pc', todo')
      PROVE  OpenInv'
  BY <1>1, <1>2, OpenStep DEF apiVars
<1>3. ASSUME NEW o, pc' \in {"persist", "saveFailed", "failStatus", "status", "statusKeep",
                             "finalize", "idle"}
      PROVE  VisitsItems(o, pc', todo')
  BY <1>3 DEF VisitsItems
<1>4. ASSUME NEW o, NoNewEnd(obj.events, o.events) PROVE EndsDropped(o.events)
  BY <1>1, <1>4 DEF EndsDropped, NoNewEnd
<1>5. ASSUME UNCHANGED <<apiVars, delivered>>, EndReconcile(TRUE)
      PROVE  OpenInv'
  BY <1>1, <1>2, <1>3, <1>5 DEF EndReconcile
<1>6. CASE SendEvent \/ SendFails
  <2> DEFINE e == NextToSend(obj)
  <2>1. e \in obj.events
    BY <1>1, <1>6, NextToSendIn DEF IInv, SendInv, SendEvent, SendFails
  <2>2. /\ delivered' = delivered \cup {AsMessage(e)} \/ UNCHANGED delivered
        /\ obj' = obj \/ obj' = SetState(obj, e, "failed")
        /\ pc' \in {"persist", "saveFailed"} /\ UNCHANGED apiVars
    BY <1>6 DEF SendEvent, SendFails, Received
  <2> HIDE DEF e
  <2>3. EndsDropped(delivered')
    BY <1>1, <2>1, <2>2 DEF EndsDropped, AsMessage
  <2>4. EndsDropped(obj'.events)
    BY <1>1, <1>4, <2>1, <2>2, SetStateEndsNone
  <2> QED  BY <1>2, <1>3, <2>2, <2>3, <2>4
<1>7. CASE PersistSent
  <2> DEFINE f == Newest(Matching(cache, NextToSend(obj)))
             o == MarkSent(cache, NextToSend(obj))
  <2>1. /\ Matching(cache, NextToSend(obj)) # {} /\ cacheFresh /\ Stored(o) /\ obj' = o
        /\ pc' = AfterQueue(o, branch = "delete") /\ delivered' = delivered
    BY <1>7 DEF PersistSent
  <2>2. cache = srv
    BY <2>1 DEF KeepInv, CopyInv
  <2>3. f \in cache.events
    <3>1. Sane(cache, delivered)
      BY DEF IInv
    <3> QED  BY <2>1, <3>1, NewestIn DEF Matching
  <2> HIDE DEF f
  <2>4. NoNewEnd(cache.events, o.events) /\ InstancesOf(o) \subseteq InstancesOf(cache)
        /\ SameSpec(cache, o)
    BY <1>1, <2>3, SetStateEndsNone DEF MarkSent, f
  <2> HIDE DEF o
  <2>5. EndsDropped(o.events)
    BY <1>1, <2>4 DEF EndsDropped, NoNewEnd
  <2>6. VisitsItems(obj', pc', todo')
    BY <1>3, <2>1 DEF AfterQueue
  <2>7. srv' = o /\ cache' = cache
    BY <2>1 DEF Stored
  <2> QED  BY <1>1, <2>1, <2>2, <2>4, <2>5, <2>6, <2>7, OpenStep DEF SameSpec
<1>8. CASE PersistNotFound \/ PersistConflict
  <2>1. /\ pc' \in {"persist", "failStatus"} /\ UNCHANGED <<apiVars, delivered, obj>>
    BY <1>8 DEF PersistNotFound, PersistConflict
  <2> QED  BY <1>1, <1>2, <1>3, <2>1
<1>9. CASE StartReconcile
  <2>1. /\ UNCHANGED <<apiVars, delivered>>
        /\ \/ obj' = cache /\ EnterOrder(cache)
           \/ UNCHANGED <<pc, obj, todo>>
    BY <1>9 DEF StartReconcile
  <2> QED  BY <1>1, <1>2, <2>1, EnterBranchVisits
<1>10. CASE WaitForStamp \/ Crash
  BY <1>5, <1>10 DEF WaitForStamp, Crash
<1>11. CASE FailStatus \/ UpdateStatus
  <2> DEFINE o == SetConditions(obj)
  <2>1. /\ fresh /\ Stored(o) /\ delivered' = delivered /\ pc' = "idle" /\ obj' = cache
    BY <1>11 DEF FailStatus, UpdateStatus, EndReconcile
  <2>2. o.events = obj.events /\ SameSpec(obj, o)
    BY <1>1 DEF SetConditions, SameSpec, Object
  <2> HIDE DEF o
  <2>3. SameSpec(srv, o) /\ InstancesOf(o) \subseteq EverListed
    BY <1>1, <2>1, <2>2, FreshSpec DEF SameSpec, InstancesOf
  <2>4. srv' = o /\ cache' = cache
    BY <2>1 DEF Stored
  <2> QED  BY <1>1, <1>3, <2>1, <2>2, <2>3, <2>4, OpenStep DEF SameSpec
<1>12. CASE WriteFails
  <2>1. CASE pc = "saveFailed"
    <3>1. pc' = "failStatus" /\ UNCHANGED <<apiVars, delivered, obj>>
      BY <1>12, <2>1 DEF WriteFails
    <3> QED  BY <1>1, <1>2, <1>3, <3>1
  <2>2. CASE pc # "saveFailed"
    BY <1>5, <1>12, <2>2 DEF WriteFails
  <2> QED  BY <2>1, <2>2
<1> QED  BY <1>6, <1>7, <1>8, <1>9, <1>10, <1>11, <1>12

\* The informer, the clock and the other clients: an item leaves the spec for the
\* dropped ones, of which none is forgotten.
LEMMA WorldOpen ==
  ASSUME IInv, KeepInv, OpenInv, Refresh \/ Tick \/ Owner \/ Stamp
  PROVE  OpenInv'
<1>1. srv \in Object
  BY DEF IInv, TypeOK
<1>2. CASE Refresh
  <2>1. /\ cache' = srv /\ obj' = (IF pc = "idle" THEN srv ELSE obj) /\ srv' = srv
        /\ UNCHANGED <<pc, todo, delivered, dropped>>
    BY <1>2 DEF Refresh, envVars, history
  <2>2. VisitsItems(obj', pc', todo')
    BY <2>1 DEF OpenInv, VisitsItems
  <2> QED  BY <2>1, <2>2, OpenStep DEF OpenInv, EverListed
<1>3. CASE Tick
  <2>1. UNCHANGED <<apiVars, pc, obj, todo, delivered, dropped>>
    BY <1>3 DEF Tick, localVars, history
  <2> QED  BY <2>1, OpenStep DEF OpenInv, EverListed, apiVars
<1>4. ASSUME NEW o, Stored(o), o.events = srv.events,
             UNCHANGED <<pc, obj, todo, delivered>>,
             srv.deleting => o.deleting, dropped \subseteq dropped',
             Listed(srv) \subseteq Listed(o) \cup dropped'
      PROVE  OpenInv'
  <2>1. srv' = o /\ cache' = cache
    BY <1>4 DEF Stored
  <2>2. ASSUME NEW S, EndsDropped(S)
        PROVE  o.deleting \/ \A d \in S : d.type = "delete" => d.id \in dropped'
    BY <1>4, <2>2 DEF EndsDropped
  <2>3. /\ EndsDropped(srv.events)' /\ EndsDropped(cache.events)' /\ EndsDropped(obj.events)'
        /\ EndsDropped(delivered)'
    BY <1>4, <2>1, <2>2 DEF OpenInv, EndsDropped
  <2>4. InstancesOf(srv') = InstancesOf(srv)
    BY <1>4, <2>1 DEF InstancesOf
  <2> QED  BY <1>4, <2>1, <2>3, <2>4 DEF OpenInv
<1>5. ASSUME NEW i \in Instances, NEW v, Edit([srv EXCEPT !.items[i] = v]),
             \/ v = Unlisted /\ dropped' = dropped \cup {i}
             \/ v # Unlisted /\ UNCHANGED dropped
      PROVE  OpenInv'
  <2> DEFINE o == [srv EXCEPT !.items[i] = v]
  <2>1. /\ o.events = srv.events /\ o.deleting = srv.deleting
        /\ \A j \in Instances : o.items[j] = IF j = i THEN v ELSE srv.items[j]
    BY <1>1 DEF Object
  <2>2. Stored(o) /\ UNCHANGED <<pc, obj, todo, delivered>>
    BY <1>5 DEF Edit
  <2> HIDE DEF o
  <2>3. \A j \in Listed(srv) : j \in Listed(o) \/ (j = i /\ v = Unlisted)
    BY <2>1 DEF Listed
  <2> QED  BY <1>4, <1>5, <2>1, <2>2, <2>3
<1>6. CASE SetValue \/ AddItem \/ DropItem
  <2>1. \A v \in Values : v # Unlisted
    BY BillingAssumption
  <2> QED  BY <1>5, <1>6, <2>1 DEF SetValue, AddItem, DropItem, Listed, history
<1>7. CASE Annotate
  <2>1. PICK mode : Edit([srv EXCEPT !.resend = mode])
    BY <1>7 DEF Annotate
  <2> DEFINE o == [srv EXCEPT !.resend = mode]
  <2>2. o.events = srv.events /\ o.deleting = srv.deleting /\ Listed(o) = Listed(srv)
    BY <1>1 DEF Object, Listed
  <2>3. Stored(o) /\ UNCHANGED <<pc, obj, todo, delivered, dropped>>
    BY <1>7, <2>1 DEF Edit, Annotate, history
  <2> HIDE DEF o
  <2> QED  BY <1>4, <2>2, <2>3 DEF OpenInv
<1>8. CASE Delete
  <2> DEFINE o == [srv EXCEPT !.deleting = TRUE, !.deletedAt = now, !.exists = srv.finalizer]
  <2>1. o.events = srv.events /\ o.deleting /\ Listed(o) = Listed(srv)
    BY <1>1 DEF Object, Listed
  <2>2. Stored(o) /\ UNCHANGED <<pc, obj, todo, delivered, dropped>>
    BY <1>8 DEF Edit, Delete, history
  <2> HIDE DEF o
  <2> QED  BY <1>4, <2>1, <2>2 DEF OpenInv
<1>9. CASE Stamp
  <2> DEFINE o == [srv EXCEPT !.stamped = TRUE]
  <2>1. o.events = srv.events /\ o.deleting = srv.deleting /\ Listed(o) = Listed(srv)
    BY <1>1 DEF Object, Listed
  <2>2. Stored(o) /\ UNCHANGED <<pc, obj, todo, delivered, dropped>>
    BY <1>9 DEF Stamp, envVars, history
  <2> HIDE DEF o
  <2> QED  BY <1>4, <2>1, <2>2 DEF OpenInv
<1> QED  BY <1>2, <1>3, <1>6, <1>7, <1>8, <1>9 DEF Owner

\* A BillingService that was just created: no instance has ended.
LEMMA InitOpen == Init => OpenInv
<1> SUFFICES ASSUME Init PROVE OpenInv
  OBVIOUS
<1>1. /\ srv.events = {} /\ cache = srv /\ obj = srv /\ delivered = {} /\ pc = "idle"
  BY DEF Init, NewObject
<1> QED  BY <1>1 DEF OpenInv, InstancesOf, VisitsItems, EndsDropped

\* Every step preserves OpenInv.
LEMMA NextOpen == IInv /\ KeepInv /\ OpenInv /\ [Next]_vars => OpenInv'
<1> SUFFICES ASSUME IInv, KeepInv, OpenInv, [Next]_vars PROVE OpenInv'
  OBVIOUS
<1>1. CASE Next
  BY <1>1, WritesOpen, DeletesOpen, RestOpen, WorldOpen DEF Next, Reconcile, Refused
<1>2. CASE UNCHANGED vars
  <2>1. UNCHANGED <<apiVars, pc, obj, todo, delivered, dropped>>
    BY <1>2 DEF vars, localVars, envVars, history
  <2> QED  BY <2>1, OpenStep DEF OpenInv, EverListed, apiVars
<1> QED  BY <1>1, <1>2
-----------------------------------------------------------------------------
(* Every end is told before the resource goes: GoneInv.                    *)

\* A write that makes p of o forgets no delete but those Odoo has received.
EndsKept(o, p) ==
  \A e \in o.events : e.type = "delete" =>
    EndTold(e.id) \/ \E f \in p.events : f.type = "delete" /\ f.id = e.id

\* The same of a step; and once the resource is deleted, an instance that is
\* new among the events is new by a delete.
EndsStay ==
  /\ EndsKept(srv, srv') /\ delivered \subseteq delivered'
  /\ early \subseteq early' /\ Untold(srv') \subseteq early'
  /\ srv.deleting =>
       /\ srv'.deleting
       /\ \A i \in InstancesOf(srv') \ InstancesOf(srv) : HasEvent(srv', "delete", i)

\* DeletionInv of the copy o after a step.
DeletionNext(o) ==
  /\ o.deleting =>
       /\ srv'.deleting
       /\ \A i \in Charges' : i \in Listed(o) \/ SentSizes(o, i) # {} \/ EndKnown(i)'
  /\ \A e \in o.events : e.type = "delete" => EndKnown(e.id)'

\* Recording the outcome of a delivery.
LEMMA SetStateKeepsEnds ==
  ASSUME NEW o \in Object, NEW e \in o.events, NEW s
  PROVE  EndsKept(o, SetState(o, e, s))
<1>1. SetState(o, e, s).events = (o.events \ {e}) \cup {[e EXCEPT !.state = s]}
  BY DEF SetState, Object
<1>2. [e EXCEPT !.state = s].type = e.type /\ [e EXCEPT !.state = s].id = e.id
  BY DEF Object, Event
<1> QED  BY <1>1, <1>2 DEF EndsKept

\* The resend annotation.
LEMMA MarkResendKeepsEnds ==
  ASSUME NEW o \in Object
  PROVE  EndsKept(o, MarkResend(o))
<1> DEFINE Mark(e) == IF e.state \in ResendStates(o.resend)
                      THEN [e EXCEPT !.state = "resend"] ELSE e
<1>1. MarkResend(o).events = {Mark(e) : e \in o.events}
  BY DEF MarkResend, Object
<1>2. \A e \in o.events : Mark(e).type = e.type /\ Mark(e).id = e.id
  BY DEF Object, Event
<1> HIDE DEF Mark
<1> QED  BY <1>1, <1>2 DEF EndsKept

\* Enqueueing an event: what is pruned was sent, hence received.
LEMMA EnqueueKeepsEnds ==
  ASSUME NEW o \in Object, Sane(o, delivered), NEW type, NEW i, NEW v, NEW ts
  PROVE  LET p == EnqueueEvent(o, type, i, v, ts)
         IN EndsKept(o, p) /\ (type = "delete" => HasEvent(p, "delete", i))
<1> DEFINE n == NewEvent(o, type, i, v, ts)
           p == EnqueueEvent(o, type, i, v, ts)
<1>1. n.type = type /\ n.id = i /\ n.state = "pending"
  BY DEF NewEvent
<1>2. p.events = PruneEvents(o.events \cup {n})
  BY DEF EnqueueEvent, Object
<1> HIDE DEF n, p
<1>3. \A e \in o.events \cup {n} : e.state = "sent" \/ e \in p.events
  BY <1>2 DEF PruneEvents, IsPruned
<1>4. n \in p.events
  BY <1>1, <1>3
<1>5. \A e \in o.events : e.state = "sent" => \E m \in delivered : m.id = e.id /\ m.type = e.type
  BY DEF Sane, Key
<1>6. EndsKept(o, p)
  BY <1>3, <1>5 DEF EndsKept, EndTold
<1> QED  BY <1>1, <1>4, <1>6 DEF HasEvent, p

\* What is known to end stays known to end.
LEMMA EndKnownStays ==
  ASSUME EndsStay, NEW i
  PROVE  (EndKnown(i) => EndKnown(i)') /\ (EndTold(i) => EndTold(i)')
BY DEF EndsStay, EndsKept, EndKnown, EndTold, HasEvent

\* The instances to be charged for after a step were so before, or are about to end.
LEMMA ChargesNext ==
  ASSUME EndsStay, srv.deleting, NEW i \in Charges'
  PROVE  i \in Charges \/ EndKnown(i)'
BY DEF EndsStay, Charges, EndKnown, InstancesOf, HasEvent

\* A copy that a step leaves alone.
LEMMA CopyStays ==
  ASSUME NEW o, DeletionInv(o), EndsStay
  PROVE  DeletionNext(o)
<1>1. \A i : EndKnown(i) => EndKnown(i)'
  BY EndKnownStays
<1>2. ASSUME o.deleting
      PROVE  /\ srv'.deleting
             /\ \A i \in Charges' : i \in Listed(o) \/ SentSizes(o, i) # {} \/ EndKnown(i)'
  <2>1. srv.deleting /\ Covers(o)
    BY <1>2 DEF DeletionInv
  <2> QED  BY <1>1, <2>1, ChargesNext DEF Covers, EndsStay
<1> QED  BY <1>1, <1>2 DEF DeletionInv, DeletionNext

\* A branch for deletion that a step leaves alone.
LEMMA BranchStays ==
  ASSUME GoneInv, EndsStay, branch = "delete", NEW i \in Charges'
  PROVE  EndKnown(i)' \/ ToVisit(i)
<1>1. EndKnown(i) => EndKnown(i)'
  BY EndKnownStays
<1>2. srv.deleting
  BY DEF GoneInv, BranchInv, DeletionInv
<1>3. i \in Charges \/ EndKnown(i)'
  BY <1>2, ChargesNext
<1> QED  BY <1>1, <1>3 DEF GoneInv

\* The object as it is stored.
LEMMA StoredDeletion ==
  ASSUME EndsStay
  PROVE  DeletionNext(srv')
<1>1. \A e \in srv'.events : e.type = "delete" => EndKnown(e.id)'
  BY DEF EndKnown, HasEvent
<1>2. \A i \in Charges' : i \in Listed(srv') \/ SentSizes(srv', i) # {} \/ EndKnown(i)'
  BY DEF EndsStay, Charges, Untold, EndKnown, HasEvent, InstancesOf
<1> QED  BY <1>1, <1>2 DEF DeletionNext

\* A step that stores nothing.
LEMMA NothingStored ==
  ASSUME GoneInv, UNCHANGED <<srv, early>>, delivered \subseteq delivered'
  PROVE  EndsStay
BY DEF GoneInv, EndsStay, EndsKept, Untold, InstancesOf, Listed, SentSizes, HasEvent

\* What every step has to show.
LEMMA GoneStep ==
  ASSUME GoneInv, EndsStay,
         cache' \in {cache, srv'}, obj' \in {obj, cache, srv'} \/ DeletionNext(obj'),
         BranchInv',
         branch' = "delete" => \A i \in Charges' : EndKnown(i)' \/ ToVisit(i)',
         \/ srv'.exists
         \/ ~srv.exists /\ srv' = srv
         \/ \A i \in Charges' : EndTold(i)'
  PROVE  GoneInv'
<1>1. DeletionNext(cache) /\ DeletionNext(obj) /\ DeletionNext(srv')
  BY CopyStays, StoredDeletion DEF GoneInv
<1>2. DeletionNext(cache') /\ DeletionNext(obj')
  BY <1>1
<1>3. DeletionInv(cache)' /\ DeletionInv(obj)'
  BY <1>2 DEF DeletionInv, DeletionNext, Covers, Listed, SentSizes
<1>4. CASE ~srv.exists /\ srv' = srv
  <2>1. \A i \in Charges' : i \in Charges
    BY <1>4 DEF Charges, InstancesOf, EndsStay
  <2> QED  BY <1>3, <1>4, <2>1, EndKnownStays DEF GoneInv, EndsStay, Untold, InstancesOf, Listed,
                                                  SentSizes, HasEvent
<1>5. CASE srv'.exists \/ \A i \in Charges' : EndTold(i)'
  BY <1>3, <1>5 DEF GoneInv, EndsStay, Untold, InstancesOf, Listed, SentSizes, HasEvent
<1> QED  BY <1>4, <1>5

\* The last sent sizes name their instances.
LEMMA LastSentHas ==
  ASSUME NEW o, NEW i \in Instances, SentSizes(o, i) # {}
  PROVE  \E it \in LastSent(o) : it.id = i
<1>1. [id |-> i, value |-> Newest(SentSizes(o, i)).value] \in LastSent(o)
  BY DEF LastSent
<1> QED  BY <1>1

\* Entering a branch: for deletion every listed item is to be visited, and every
\* instance with a size that was sent.
LEMMA EntersBranch ==
  ASSUME NEW o, EnterBranch(o) \/ EnterResend(o) \/ EnterFinalizer(o) \/ EnterOrder(o),
         obj' = o, branch = "none"
  PROVE  /\ BranchInv'
         /\ branch' = "delete" =>
              /\ o.deleting
              /\ \A i \in Instances : i \in Listed(o) \/ SentSizes(o, i) # {} => ToVisit(i)'
<1>1. CASE EnterBranch(o) /\ o.deleting
  <2>1. branch' = "delete" /\ EnterDelete(o, SpecItems(o))
    BY <1>1 DEF EnterBranch
  <2>2. CASE SpecItems(o) = {}
    <3>1. \A i \in Listed(o) : FALSE
      BY <2>2 DEF SpecItems
    <3>2. pc' \in {"deleteSent", "send", "status", "statusKeep", "finalize"}
      BY <2>1, <2>2 DEF EnterDelete, EnterDeleteSent, EnterQueue, AfterQueue
    <3>3. ASSUME NEW i \in Instances, SentSizes(o, i) # {}
          PROVE  ToVisit(i)'
      <4>1. PICK it \in LastSent(o) : it.id = i
        BY <3>3, LastSentHas
      <4>2. pc' = "deleteSent" /\ todo' = LastSent(o)
        BY <2>1, <2>2, <4>1 DEF EnterDelete, EnterDeleteSent
      <4> QED  BY <4>1, <4>2 DEF ToVisit
    <3> QED  BY <1>1, <2>1, <3>1, <3>2, <3>3 DEF BranchInv
  <2>3. CASE SpecItems(o) # {}
    <3>1. pc' = "delete" /\ todo' = SpecItems(o)
      BY <2>1, <2>3 DEF EnterDelete
    <3>2. ASSUME NEW i \in Listed(o)
          PROVE  \E it \in SpecItems(o) : it.id = i
      <4>1. [id |-> i, value |-> o.items[i]] \in SpecItems(o)
        BY DEF SpecItems
      <4> QED  BY <4>1
    <3>3. \A i \in Instances : i \in Listed(o) \/ SentSizes(o, i) # {} => ToVisit(i)'
      BY <3>1, <3>2 DEF ToVisit
    <3>4. BranchInv'
      BY <1>1, <2>1, <3>1 DEF BranchInv
    <3> QED  BY <1>1, <3>3, <3>4
  <2> QED  BY <2>2, <2>3
<1>2. CASE EnterBranch(o) /\ ~o.deleting
  <2>1. branch' # "delete" /\ EnterItems(o, SpecItems(o))
    BY <1>2 DEF EnterBranch
  <2>2. pc' \in {"items", "removed", "send", "status"}
    BY <1>2, <2>1 DEF EnterItems, EnterRemoved, EnterQueue, AfterQueue
  <2> QED  BY <1>2, <2>1, <2>2 DEF BranchInv
<1>3. CASE pc' \in {"order", "finalizer", "resend", "annotation"} /\ branch' = branch
  BY <1>3 DEF BranchInv
<1> QED  BY <1>1, <1>2, <1>3 DEF EnterResend, EnterFinalizer, EnterOrder

\* A write by the reconciler, which tells Odoo nothing.
LEMMA UpdateEnds ==
  ASSUME IInv, KeepInv, NEW o, fresh, Stored(o), delivered' = delivered,
         o.deleting = obj.deleting, EndsKept(obj, o),
         obj.deleting => \A i \in InstancesOf(o) \ InstancesOf(obj) : HasEvent(o, "delete", i)
  PROVE  EndsStay /\ srv' = o /\ cache' = cache
<1>1. srv' = o /\ cache' = cache
  BY DEF Stored
<1>2. /\ srv.deleting = obj.deleting /\ InstancesOf(obj) \subseteq InstancesOf(srv)
      /\ early \subseteq early' /\ Untold(srv') \subseteq early'
  BY <1>1, FreshSpec DEF SameSpec, Stored
<1>3. EndsKept(srv, obj)
  <2>1. srv \in Object
    BY DEF IInv, TypeOK
  <2>2. CASE obj = srv
    BY <2>2 DEF EndsKept
  <2> QED  BY <2>1, <2>2, SetStateKeepsEnds DEF KeepInv, CopyInv
<1>4. EndsKept(srv, o)
  BY <1>3 DEF EndsKept, EndTold
<1> QED  BY <1>1, <1>2, <1>4 DEF EndsStay

\* The reconciler's writes but those of its loops, and what reads the cache.
LEMMA WritesGone ==
  ASSUME IInv, KeepInv, GoneInv,
         \/ SetSalesOrder \/ AddFinalizer \/ HandleResend \/ DropAnnotation
         \/ SaveFailed \/ StartReconcile
  PROVE  GoneInv'
<1>1. /\ obj \in Object /\ srv \in Object /\ delivered' = delivered
      /\ InstancesOf(obj) \subseteq Instances /\ InstancesOf(srv) \subseteq Instances
  BY DEF InstancesOf, Object, Event, IInv, TypeOK, SetSalesOrder, AddFinalizer, HandleResend, DropAnnotation, SaveFailed,
         StartReconcile, unchangedByWrite, history
<1>2. ASSUME NEW o, Update(o), o.deleting = obj.deleting, o.exists = obj.exists,
             EndsKept(obj, o), InstancesOf(o) \subseteq InstancesOf(obj)
      PROVE  /\ EndsStay /\ srv' = o /\ obj' = o /\ cache' = cache /\ srv'.exists
  <2>1. fresh /\ Stored(o) /\ obj' = o /\ obj.exists
    BY <1>2, FreshKept DEF Update
  <2>2. EndsStay /\ srv' = o /\ cache' = cache
    BY <1>1, <1>2, <2>1, UpdateEnds
  <2> QED  BY <1>2, <2>1, <2>2
<1>3. ASSUME NEW o, obj' = o, branch = "none",
             EnterBranch(o) \/ EnterResend(o) \/ EnterFinalizer(o) \/ EnterOrder(o),
             EndsStay, o = srv' \/ o = cache, cache' = cache, srv'.exists \/ srv' = srv,
             InstancesOf(srv') \subseteq Instances
      PROVE  GoneInv'
  <2>1. BranchInv' /\ (branch' = "delete" =>
          /\ o.deleting
          /\ \A i \in Instances : i \in Listed(o) \/ SentSizes(o, i) # {} => ToVisit(i)')
    BY <1>3, EntersBranch
  <2>2. DeletionNext(o)
    BY <1>3, StoredDeletion, CopyStays DEF GoneInv
  <2>3. branch' = "delete" => \A i \in Charges' : EndKnown(i)' \/ ToVisit(i)'
    BY <1>3, <2>1, <2>2 DEF DeletionNext, Charges, InstancesOf
  <2>4. srv'.exists \/ (~srv.exists /\ srv' = srv)
    BY <1>3
  <2> QED  BY <1>3, <2>1, <2>3, <2>4, GoneStep
<1>4. ASSUME NEW o, Update(o), o.events = obj.events, o.deleting = obj.deleting,
             o.exists = obj.exists, branch = "none",
             EnterBranch(o) \/ EnterResend(o) \/ EnterFinalizer(o)
      PROVE  GoneInv'
  <2>1. EndsKept(obj, o) /\ InstancesOf(o) \subseteq InstancesOf(obj)
    BY <1>4 DEF EndsKept, InstancesOf
  <2> QED  BY <1>1, <1>2, <1>3, <1>4, <2>1
<1>5. CASE SetSalesOrder
  <2> DEFINE o == [obj EXCEPT !.order = TRUE]
  <2>1. o.exists = obj.exists /\ o.deleting = obj.deleting /\ o.events = obj.events
    BY <1>1 DEF Object
  <2>2. Update(o) /\ EnterFinalizer(o) /\ branch = "none"
    BY <1>5 DEF SetSalesOrder, GoneInv, BranchInv
  <2> HIDE DEF o
  <2> QED  BY <1>4, <2>1, <2>2
<1>6. CASE AddFinalizer
  <2> DEFINE o == [obj EXCEPT !.finalizer = TRUE]
  <2>1. o.exists = obj.exists /\ o.deleting = obj.deleting /\ o.events = obj.events
    BY <1>1 DEF Object
  <2>2. Update(o) /\ EnterResend(o) /\ branch = "none"
    BY <1>6 DEF AddFinalizer, GoneInv, BranchInv
  <2> HIDE DEF o
  <2> QED  BY <1>4, <2>1, <2>2
<1>7. CASE DropAnnotation
  <2> DEFINE o == [obj EXCEPT !.resend = "none"]
  <2>1. o.exists = obj.exists /\ o.deleting = obj.deleting /\ o.events = obj.events
    BY <1>1 DEF Object
  <2>2. Update(o) /\ EnterBranch(o) /\ branch = "none"
    BY <1>7 DEF DropAnnotation, GoneInv, BranchInv
  <2> HIDE DEF o
  <2> QED  BY <1>4, <2>1, <2>2
<1>8. CASE HandleResend
  <2> DEFINE o == MarkResend(obj)
  <2>1. Update(o) /\ pc' = "annotation" /\ branch' = branch /\ branch = "none"
    BY <1>8 DEF HandleResend, GoneInv, BranchInv
  <2>2. /\ o.exists = obj.exists /\ o.deleting = obj.deleting
        /\ EndsKept(obj, o) /\ InstancesOf(o) \subseteq InstancesOf(obj)
    BY <1>1, MarkResendKeepsEnds, MarkResendEndsNone DEF MarkResend, Object
  <2> HIDE DEF o
  <2>3. EndsStay /\ srv' = o /\ obj' = o /\ cache' = cache /\ srv'.exists
    BY <1>2, <2>1, <2>2
  <2>4. BranchInv'
    BY <2>1 DEF BranchInv
  <2> QED  BY <2>1, <2>3, <2>4, GoneStep
<1>9. CASE SaveFailed
  <2>1. Update(obj) /\ pc = "saveFailed" /\ pc' = "failStatus" /\ branch' = branch
    BY <1>9 DEF SaveFailed
  <2>2. EndsKept(obj, obj)
    BY DEF EndsKept
  <2>3. EndsStay /\ srv' = obj /\ obj' = obj /\ cache' = cache /\ srv'.exists
    BY <1>2, <2>1, <2>2
  <2>4. BranchInv'
    BY <2>1, <2>3 DEF BranchInv, GoneInv
  <2>5. branch' = "delete" => \A i \in Charges' : EndKnown(i)'
    BY <2>1, <2>3, BranchStays DEF ToVisit
  <2> QED  BY <2>3, <2>4, <2>5, GoneStep
<1>10. CASE StartReconcile
  <2>1. UNCHANGED apiVars /\ branch = "none"
    BY <1>10 DEF StartReconcile, GoneInv, BranchInv
  <2>2. EndsStay /\ srv' = srv /\ cache' = cache
    BY <1>1, <2>1, NothingStored DEF apiVars
  <2>3. CASE cache.exists
    <3>1. obj' = cache /\ EnterOrder(cache)
      BY <1>10, <2>3 DEF StartReconcile
    <3> QED  BY <1>1, <1>3, <2>1, <2>2, <3>1
  <2>4. CASE ~cache.exists
    <3>1. UNCHANGED <<pc, obj, todo, branch>>
      BY <1>10, <2>4 DEF StartReconcile
    <3>2. BranchInv'
      BY <3>1 DEF GoneInv, BranchInv
    <3> QED  BY <2>1, <2>2, <3>1, <3>2, GoneStep
  <2> QED  BY <2>3, <2>4
<1> QED  BY <1>5, <1>6, <1>7, <1>8, <1>9, <1>10

\* The loops: those over listed and removed items are not for a deleted
\* resource; the others tell of an end for every item they leave behind.
LEMMA LoopsGone ==
  ASSUME IInv, KeepInv, GoneInv,
         CreateItem \/ ScaleItem \/ SkipItem \/ RemoveItem \/ DeleteItem
  PROVE  GoneInv'
<1>1. /\ obj \in Object /\ Sane(obj, delivered) /\ delivered' = delivered
      /\ branch' = branch /\ obj.exists
  <2>1. pc \in {"items", "scale", "removed", "delete", "deleteSent"}
    BY DEF CreateItem, ScaleItem, SkipItem, RemoveItem, DeleteItem
  <2> QED  BY <2>1 DEF IInv, TypeOK, CreateItem, ScaleItem, SkipItem, RemoveItem, DeleteItem,
              unchangedByWrite, history, KeepInv, OnCourse
<1>2. ASSUME NEW type, NEW i, NEW v, NEW ts,
             Update(EnqueueEvent(obj, type, i, v, ts)), obj.deleting => type = "delete"
      PROVE  LET o == EnqueueEvent(obj, type, i, v, ts)
             IN /\ EndsStay /\ srv' = o /\ obj' = o /\ cache' = cache /\ srv'.exists
                /\ o.deleting = obj.deleting
                /\ type = "delete" => HasEvent(srv', "delete", i)
  <2> DEFINE o == EnqueueEvent(obj, type, i, v, ts)
  <2>1. /\ EndsKept(obj, o) /\ (type = "delete" => HasEvent(o, "delete", i))
        /\ SameSpec(obj, o) /\ InstancesOf(o) \subseteq InstancesOf(obj) \cup {i}
    BY <1>1, EnqueueKeepsEnds, EnqueueEnds
  <2>2. Update(o)
    BY <1>2
  <2> HIDE DEF o
  <2>3. fresh /\ Stored(o) /\ obj' = o
    BY <2>2 DEF Update
  <2>4. EndsStay /\ srv' = o /\ cache' = cache
    BY <1>1, <1>2, <2>1, <2>3, UpdateEnds DEF SameSpec
  <2> QED  BY <1>1, <2>1, <2>3, <2>4 DEF o, SameSpec
<1>3. ASSUME UNCHANGED <<apiVars, obj>>
      PROVE  EndsStay /\ srv' = srv /\ obj' = obj /\ cache' = cache
  BY <1>1, <1>3, NothingStored DEF apiVars
<1>4. ASSUME NEW o, NEW its, obj' = o, ~o.deleting, ~obj.deleting,
             EnterItems(o, its) \/ EnterRemoved(o, its) \/ pc' = "scale",
             EndsStay, cache' = cache, o = obj \/ o = srv', srv'.exists \/ srv' = srv
      PROVE  GoneInv'
  <2>1. pc' \in {"items", "scale", "removed", "send", "status"}
    BY <1>4 DEF EnterItems, EnterRemoved, EnterQueue, AfterQueue
  <2>2. branch' # "delete"
    BY <1>1, <1>4 DEF GoneInv, BranchInv
  <2>3. BranchInv'
    BY <1>4, <2>1, <2>2 DEF BranchInv
  <2>4. srv'.exists \/ (~srv.exists /\ srv' = srv)
    BY <1>4
  <2> QED  BY <1>4, <2>2, <2>3, <2>4, GoneStep
<1>5. CASE CreateItem
  <2>1. PICK it \in todo :
          /\ Update(EnqueueCreate(it))
          /\ EnterItems(EnqueueCreate(it), todo \ {it}) \/ pc' = "scale"
    BY <1>5 DEF CreateItem
  <2>2. ~obj.deleting
    BY <1>5 DEF CreateItem, GoneInv, BranchInv
  <2> DEFINE o == EnqueueCreate(it)
  <2>3. EndsStay /\ srv' = o /\ obj' = o /\ cache' = cache /\ srv'.exists /\ ~o.deleting
    BY <1>2, <2>1, <2>2 DEF EnqueueCreate
  <2> HIDE DEF o
  <2> QED  BY <1>4, <2>1, <2>2, <2>3 DEF o
<1>6. CASE ScaleItem
  <2>1. PICK it \in todo : Update(ScaleTo(it)) /\ EnterItems(ScaleTo(it), todo \ {it})
    BY <1>6 DEF ScaleItem
  <2>2. ~obj.deleting
    BY <1>6 DEF ScaleItem, GoneInv, BranchInv
  <2> DEFINE o == ScaleTo(it)
  <2>3. EndsStay /\ srv' = o /\ obj' = o /\ cache' = cache /\ srv'.exists /\ ~o.deleting
    BY <1>2, <2>1, <2>2 DEF ScaleTo
  <2> HIDE DEF o
  <2> QED  BY <1>4, <2>1, <2>2, <2>3 DEF o
<1>7. CASE SkipItem
  <2>1. PICK it \in todo : EnterItems(obj, todo \ {it})
    BY <1>7 DEF SkipItem
  <2>2. ~obj.deleting /\ UNCHANGED <<apiVars, obj>>
    BY <1>7 DEF SkipItem, GoneInv, BranchInv
  <2> QED  BY <1>3, <1>4, <2>1, <2>2
<1>8. CASE RemoveItem
  <2>1. PICK it \in todo :
          \/ EnterRemoved(obj, todo \ {it}) /\ UNCHANGED <<apiVars, obj>>
          \/ Update(RemoveLeftover(it)) /\ EnterRemoved(RemoveLeftover(it), todo \ {it})
    BY <1>8 DEF RemoveItem
  <2>2. ~obj.deleting
    BY <1>8 DEF RemoveItem, GoneInv, BranchInv
  <2>3. CASE EnterRemoved(obj, todo \ {it}) /\ UNCHANGED <<apiVars, obj>>
    BY <1>3, <1>4, <2>2, <2>3
  <2>4. CASE Update(RemoveLeftover(it)) /\ EnterRemoved(RemoveLeftover(it), todo \ {it})
    <3> DEFINE o == RemoveLeftover(it)
    <3>1. EndsStay /\ srv' = o /\ obj' = o /\ cache' = cache /\ srv'.exists /\ ~o.deleting
      BY <1>2, <2>2, <2>4 DEF RemoveLeftover
    <3> HIDE DEF o
    <3> QED  BY <1>4, <2>2, <2>4, <3>1 DEF o
  <2> QED  BY <2>1, <2>3, <2>4
<1>9. CASE DeleteItem
  <2>1. pc \in {"delete", "deleteSent"} /\ branch = "delete" /\ obj.deleting
    BY <1>9 DEF DeleteItem, GoneInv, BranchInv
  <2> DEFINE Enter(it, o) == IF pc = "delete" THEN EnterDelete(o, todo \ {it})
                             ELSE EnterDeleteSent(o, todo \ {it})
  <2>2. PICK it \in todo :
          IF HasEvent(obj, "delete", it.id)
          THEN Enter(it, obj) /\ UNCHANGED <<apiVars, obj>>
          ELSE Update(EnqueueDelete(it)) /\ Enter(it, EnqueueDelete(it))
    BY <1>9 DEF DeleteItem
  <2>3. ASSUME NEW o, Enter(it, o), obj' = o, o.deleting, EndsStay, cache' = cache,
               Listed(o) = Listed(obj),
               o = obj \/ o = srv', srv'.exists \/ srv' = srv, EndKnown(it.id)'
        PROVE  GoneInv'
    <3>1. pc' \in {"delete", "deleteSent", "send", "status", "statusKeep", "finalize"}
      BY <2>3 DEF EnterDelete, EnterDeleteSent, EnterQueue, AfterQueue
    <3>2. BranchInv'
      BY <1>1, <2>1, <2>3, <3>1 DEF BranchInv
    <3>3. ASSUME NEW i \in Charges', ~EndKnown(i)'
          PROVE  ToVisit(i)'
      <4>1. ToVisit(i) /\ i # it.id
        BY <2>1, <2>3, <3>3, BranchStays
      <4>2. CASE \E x \in todo : x.id = i
        <5>1. PICK x \in todo \ {it} : x.id = i
          BY <4>1, <4>2
        <5>2. pc' = pc /\ todo' = todo \ {it}
          BY <2>1, <2>3, <5>1 DEF EnterDelete, EnterDeleteSent
        <5> QED  BY <2>1, <5>1, <5>2 DEF ToVisit
      <4>3. CASE pc = "delete" /\ i \notin Listed(obj) /\ SentSizes(obj, i) # {}
        <5>1. SentSizes(o, i) # {} /\ i \notin Listed(o)
          BY <2>3, <3>3, <4>3, StoredDeletion DEF DeletionNext
        <5>2. i \in Instances
          BY <4>3, <1>1 DEF SentSizes, Object, Event
        <5>3. EnterDelete(o, todo \ {it})
          BY <2>3, <4>3
        <5>4. CASE todo \ {it} = {}
          <6>1. PICK x \in LastSent(o) : x.id = i
            BY <5>1, <5>2, LastSentHas
          <6>2. pc' = "deleteSent" /\ todo' = LastSent(o)
            BY <5>3, <5>4, <6>1 DEF EnterDelete, EnterDeleteSent
          <6> QED  BY <6>1, <6>2 DEF ToVisit
        <5>5. CASE todo \ {it} # {}
          BY <2>3, <5>1, <5>3, <5>5 DEF EnterDelete, ToVisit
        <5> QED  BY <5>4, <5>5
      <4> QED  BY <4>1, <4>2, <4>3 DEF ToVisit
    <3>4. srv'.exists \/ (~srv.exists /\ srv' = srv)
      BY <2>3
    <3> QED  BY <2>3, <3>2, <3>3, <3>4, GoneStep
  <2> HIDE DEF Enter
  <2>4. CASE HasEvent(obj, "delete", it.id)
    <3>1. EndsStay /\ srv' = srv /\ obj' = obj /\ cache' = cache /\ Enter(it, obj)
      BY <1>3, <2>2, <2>4
    <3>2. EndKnown(it.id)
      BY <2>4 DEF GoneInv, DeletionInv, HasEvent
    <3>3. EndKnown(it.id)'
      BY <3>1, <3>2, EndKnownStays
    <3> QED  BY <2>1, <2>3, <3>1, <3>3
  <2>5. CASE ~HasEvent(obj, "delete", it.id)
    <3> DEFINE o == EnqueueDelete(it)
    <3>1. Update(o) /\ Enter(it, o)
      BY <2>2, <2>5
    <3>2. /\ EndsStay /\ srv' = o /\ obj' = o /\ cache' = cache /\ srv'.exists /\ o.deleting
          /\ HasEvent(srv', "delete", it.id)
      BY <1>2, <2>1, <3>1 DEF EnqueueDelete
    <3>4. Listed(o) = Listed(obj)
      BY <1>1, EnqueueEnds DEF EnqueueDelete, SameSpec, Listed
    <3> HIDE DEF o
    <3>3. EndKnown(it.id)'
      BY <3>2 DEF EndKnown, HasEvent
    <3> QED  BY <2>3, <3>1, <3>2, <3>3, <3>4
  <2> QED  BY <2>4, <2>5
<1> QED  BY <1>5, <1>6, <1>7, <1>8, <1>9

\* A delivery that failed was of an event that is not a sent one.
LEMMA FailedKeepsSizes ==
  ASSUME NEW o \in Object, NEW e \in o.events, IsUndelivered(e), NEW s, NEW i,
         SentSizes(o, i) # {}
  PROVE  SentSizes(SetState(o, e, s), i) # {}
<1>1. SetState(o, e, s).events = (o.events \ {e}) \cup {[e EXCEPT !.state = s]}
  BY DEF SetState, Object
<1>2. PICK f \in SentSizes(o, i) : TRUE
  OBVIOUS
<1>3. f \in o.events \ {e}
  BY <1>2 DEF SentSizes, IsUndelivered
<1> QED  BY <1>1, <1>2, <1>3 DEF SentSizes

\* The deliveries, what ends a reconcile, and the removal of the finalizer:
\* then no event is left to deliver and so every end was told.
LEMMA EndsGone ==
  ASSUME IInv, KeepInv, GoneInv,
         \/ SendEvent \/ SendFails \/ PersistSent \/ PersistNotFound \/ PersistConflict
         \/ FailStatus \/ UpdateStatus \/ RemoveFinalizer \/ WaitForStamp \/ WriteFails \/ Crash
  PROVE  GoneInv'
<1>1. obj \in Object /\ srv \in Object /\ Sane(srv, delivered)
  BY DEF IInv, TypeOK
<1>2. ASSUME UNCHANGED apiVars, delivered \subseteq delivered', branch' = branch,
             pc \notin {"delete", "deleteSent"}, pc' \in {"persist", "saveFailed", "failStatus"},
             obj'.deleting = obj.deleting, obj' = obj \/ DeletionNext(obj')
      PROVE  GoneInv'
  <2>1. EndsStay /\ srv' = srv /\ cache' = cache
    BY <1>2, NothingStored DEF apiVars
  <2>2. BranchInv'
    BY <1>2 DEF GoneInv, BranchInv
  <2>3. branch' = "delete" => \A i \in Charges' : EndKnown(i)'
    BY <1>2, <2>1, BranchStays DEF ToVisit
  <2>4. srv'.exists \/ (~srv.exists /\ srv' = srv)
    BY <2>1 DEF IInv, TypeOK, Object
  <2> QED  BY <1>2, <2>1, <2>2, <2>3, <2>4, GoneStep
<1>3. ASSUME NEW b, EndReconcile(b), EndsStay, cache' = cache,
             srv'.exists \/ (~srv.exists /\ srv' = srv)
      PROVE  GoneInv'
  <2>1. pc' = "idle" /\ branch' = "none" /\ obj' = cache
    BY <1>3 DEF EndReconcile
  <2>2. BranchInv'
    BY <2>1 DEF BranchInv
  <2> QED  BY <1>3, <2>1, <2>2, GoneStep
<1>4. CASE SendEvent \/ SendFails
  <2> DEFINE e == NextToSend(obj)
  <2>1. e \in obj.events /\ pc = "send"
    BY <1>1, <1>4, NextToSendIn DEF IInv, SendInv, SendEvent, SendFails
  <2>2. /\ delivered \subseteq delivered'
        /\ obj' = obj \/ obj' = SetState(obj, e, "failed")
        /\ pc' \in {"persist", "saveFailed"} /\ UNCHANGED apiVars /\ branch' = branch
    BY <1>4 DEF SendEvent, SendFails, Received
  <2> HIDE DEF e
  <2>3. CASE obj' = obj
    BY <1>2, <2>1, <2>2, <2>3
  <2>4. CASE obj' = SetState(obj, e, "failed")
    <3>1. /\ NoNewEnd(obj.events, obj'.events) /\ obj'.deleting = obj.deleting
          /\ Listed(obj') = Listed(obj)
          /\ \A i : SentSizes(obj, i) # {} => SentSizes(obj', i) # {}
      <4>1. IsUndelivered(e)
        BY <1>1, <2>1, NextToSendIn DEF IInv, SendInv, e
      <4> QED  BY <1>1, <2>1, <2>4, <4>1, SetStateEndsNone, FailedKeepsSizes DEF SameSpec, Listed
    <3>2. EndsStay
      BY <2>2, NothingStored DEF apiVars
    <3>3. DeletionNext(obj)
      BY <3>2, CopyStays DEF GoneInv
    <3>4. DeletionNext(obj')
      BY <3>1, <3>3 DEF DeletionNext, NoNewEnd
    <3> QED  BY <1>2, <2>1, <2>2, <3>1, <3>4
  <2> QED  BY <2>2, <2>3, <2>4
<1>5. CASE PersistNotFound \/ PersistConflict
  <2>1. /\ pc = "persist" /\ pc' \in {"persist", "failStatus"} /\ branch' = branch
        /\ UNCHANGED <<apiVars, delivered, obj>>
    BY <1>5 DEF PersistNotFound, PersistConflict
  <2> QED  BY <1>2, <2>1
<1>6. CASE PersistSent
  <2> DEFINE f == Newest(Matching(cache, NextToSend(obj)))
             o == MarkSent(cache, NextToSend(obj))
  <2>1. /\ Matching(cache, NextToSend(obj)) # {} /\ cacheFresh /\ Stored(o) /\ obj' = o
        /\ pc' = AfterQueue(o, branch = "delete") /\ delivered' = delivered
        /\ pc = "persist" /\ branch' = branch /\ cache.exists
    BY <1>6 DEF PersistSent
  <2>2. cache = srv
    BY <2>1 DEF KeepInv, CopyInv
  <2>3. f \in cache.events
    <3>1. Sane(cache, delivered)
      BY DEF IInv
    <3> QED  BY <2>1, <3>1, NewestIn DEF Matching
  <2> HIDE DEF f
  <2>4. /\ EndsKept(srv, o) /\ InstancesOf(o) \subseteq InstancesOf(srv)
        /\ SameSpec(srv, o)
    BY <1>1, <2>2, <2>3, SetStateEndsNone, SetStateKeepsEnds DEF MarkSent, f
  <2> HIDE DEF o
  <2>5. srv' = o /\ cache' = cache /\ srv'.exists
    BY <2>1, <2>2, <2>4 DEF Stored, SameSpec
  <2>6. EndsStay
    BY <2>1, <2>4, <2>5 DEF EndsStay, SameSpec, Stored
  <2>7. branch = "delete" => srv'.deleting
    BY <2>4, <2>5 DEF GoneInv, BranchInv, DeletionInv, SameSpec
  <2>8. BranchInv'
    <3>1. pc' \in {"status", "statusKeep"} \/ (pc' = "finalize" /\ branch = "delete")
      BY <2>1 DEF AfterQueue
    <3> QED  BY <2>1, <2>5, <2>7, <3>1 DEF BranchInv
  <2>9. branch' = "delete" => \A i \in Charges' : EndKnown(i)'
    BY <2>1, <2>6, BranchStays DEF ToVisit
  <2> QED  BY <2>1, <2>5, <2>6, <2>8, <2>9, GoneStep
<1>7. CASE FailStatus \/ UpdateStatus
  <2> DEFINE o == SetConditions(obj)
  <2>1. /\ fresh /\ Stored(o) /\ delivered' = delivered
        /\ \E b \in BOOLEAN : EndReconcile(b)
    BY <1>7 DEF FailStatus, UpdateStatus, NeedsRequeue, IInv, TypeOK, HasBacklog, IsUndelivered
  <2>2. o.events = obj.events /\ SameSpec(obj, o)
    BY <1>1 DEF SetConditions, SameSpec, Object
  <2> HIDE DEF o
  <2>3. EndsKept(obj, o) /\ InstancesOf(o) \subseteq InstancesOf(obj)
    BY <2>2 DEF EndsKept, InstancesOf
  <2>4. EndsStay /\ srv' = o /\ cache' = cache
    BY <2>1, <2>2, <2>3, UpdateEnds DEF SameSpec
  <2>5. srv'.exists
    BY <2>1, <2>2, <2>4, FreshKept DEF SameSpec
  <2> QED  BY <1>3, <2>1, <2>4, <2>5
<1>8. CASE WaitForStamp \/ Crash \/ WriteFails
  <2>1. UNCHANGED <<apiVars, delivered>>
    BY <1>8 DEF WaitForStamp, Crash, WriteFails
  <2>2. EndsStay /\ srv' = srv /\ cache' = cache
    BY <2>1, NothingStored DEF apiVars
  <2>3. srv'.exists \/ (~srv.exists /\ srv' = srv)
    BY <2>2
  <2>4. CASE EndReconcile(TRUE)
    BY <1>3, <2>2, <2>3, <2>4
  <2>5. CASE ~EndReconcile(TRUE)
    <3>1. pc = "saveFailed" /\ pc' = "failStatus" /\ UNCHANGED <<obj, branch>>
      BY <1>8, <2>5 DEF WaitForStamp, Crash, WriteFails
    <3> QED  BY <1>2, <2>1, <3>1
  <2> QED  BY <2>4, <2>5
<1>9. CASE RemoveFinalizer
  <2> DEFINE o == [obj EXCEPT !.finalizer = FALSE, !.exists = FALSE]
  <2>1. /\ Update(o) /\ pc = "finalize" /\ pc' = "status" /\ branch' = branch
        /\ delivered' = delivered
    BY <1>9 DEF RemoveFinalizer, unchangedByWrite, history
  <2>2. o.events = obj.events /\ o.deleting = obj.deleting
    BY <1>1 DEF Object
  <2> HIDE DEF o
  <2>3. fresh /\ Stored(o) /\ obj' = o /\ obj = srv
    BY <2>1, FreshIsStored DEF Update
  <2>4. EndsKept(obj, o) /\ InstancesOf(o) = InstancesOf(obj)
    BY <2>2 DEF EndsKept, InstancesOf
  <2>5. EndsStay /\ srv' = o /\ cache' = cache
    BY <2>1, <2>2, <2>3, <2>4, UpdateEnds
  <2>6. branch = "delete" /\ ~HasBacklog(srv) /\ Guarded(srv)
    BY <2>1, <2>3 DEF GoneInv, BranchInv, KeepInv, OnCourse
  <2>7. ASSUME NEW i \in Charges
        PROVE  EndTold(i)
    <3>1. EndKnown(i)
      BY <2>1, <2>6 DEF GoneInv, ToVisit
    <3>2. CASE HasEvent(srv, "delete", i)
      <4>1. PICK e \in srv.events : e.type = "delete" /\ e.id = i
        BY <3>2 DEF HasEvent
      <4>2. e.state = "sent"
        BY <2>6, <4>1 DEF HasBacklog, IsUndelivered, Guarded
      <4> QED  BY <1>1, <4>1, <4>2 DEF Sane, Key, EndTold
    <3> QED  BY <3>1, <3>2 DEF EndKnown
  <2>8. \A i \in Charges' : EndTold(i)'
    BY <2>3, <2>4, <2>5, <2>7, EndKnownStays DEF Charges, EndsStay
  <2>9. BranchInv'
    BY <2>1, <2>2, <2>3 DEF GoneInv, BranchInv
  <2> QED  BY <2>3, <2>5, <2>8, <2>9, GoneStep DEF EndKnown, EndTold
<1> QED  BY <1>4, <1>5, <1>6, <1>7, <1>8, <1>9

\* The informer, the clock and the other clients.
LEMMA WorldGone ==
  ASSUME IInv, KeepInv, GoneInv,
         Refresh \/ Tick \/ Owner \/ Stamp
  PROVE  GoneInv'
<1>1. srv \in Object /\ delivered' = delivered
  BY DEF IInv, TypeOK, Refresh, Tick, Owner, Stamp, SetValue, AddItem, DropItem, Annotate,
         Delete, Edit, envVars, history
<1>2. ASSUME UNCHANGED <<pc, todo, branch>>, obj' = obj \/ pc = "idle",
             EndsStay, cache' \in {cache, srv'}, obj' \in {obj, srv'},
             \/ srv'.exists \/ (~srv.exists /\ srv' = srv)
             \/ \A i \in Charges' : EndTold(i)'
      PROVE  GoneInv'
  <2>1. BranchInv'
    BY <1>2 DEF GoneInv, BranchInv
  <2>2. branch' = "delete" => \A i \in Charges' : EndKnown(i)' \/ ToVisit(i)'
    <3>1. \A i : ToVisit(i) => ToVisit(i)'
      BY <1>2 DEF ToVisit
    <3> QED  BY <1>2, <3>1, BranchStays
  <2> QED  BY <1>2, <2>1, <2>2, GoneStep
<1>3. CASE Refresh
  <2>1. /\ cache' = srv' /\ obj' = (IF pc = "idle" THEN srv' ELSE obj) /\ srv' = srv
        /\ UNCHANGED <<early, pc, todo, branch>>
    BY <1>3 DEF Refresh
  <2>2. EndsStay
    BY <1>1, <2>1, NothingStored
  <2> QED  BY <1>2, <2>1, <2>2
<1>4. CASE Tick
  <2>1. UNCHANGED <<srv, cache, early, pc, obj, todo, branch>>
    BY <1>4 DEF Tick, apiVars, localVars
  <2>2. EndsStay
    BY <1>1, <2>1, NothingStored
  <2> QED  BY <1>2, <2>1, <2>2
<1>5. ASSUME NEW o, Stored(o), o.events = srv.events, srv.deleting => o.deleting,
             UNCHANGED <<pc, obj, todo, branch>>, o.exists \/ srv.events = {}
      PROVE  GoneInv'
  <2>1. /\ srv' = o /\ cache' = cache /\ InstancesOf(srv') = InstancesOf(srv)
        /\ early \subseteq early' /\ Untold(srv') \subseteq early'
    BY <1>5 DEF Stored, InstancesOf
  <2>2. EndsStay
    BY <1>1, <1>5, <2>1 DEF EndsStay, EndsKept
  <2>3. srv'.exists \/ \A i \in Charges' : EndTold(i)'
    BY <1>5, <2>1 DEF InstancesOf, Charges
  <2> QED  BY <1>2, <1>5, <2>1, <2>2, <2>3
<1>6. CASE SetValue \/ AddItem \/ DropItem
  <2>1. PICK i \in Instances, v \in Values \cup {Unlisted} : Edit([srv EXCEPT !.items[i] = v])
    BY <1>6 DEF SetValue, AddItem, DropItem, Listed
  <2> DEFINE o == [srv EXCEPT !.items[i] = v]
  <2>2. o.events = srv.events /\ o.deleting = srv.deleting /\ o.exists = srv.exists
    BY <1>1 DEF Object
  <2>3. Stored(o) /\ UNCHANGED <<pc, obj, todo, branch>> /\ srv.exists
    BY <2>1 DEF Edit
  <2> HIDE DEF o
  <2> QED  BY <1>5, <2>2, <2>3
<1>7. CASE Annotate
  <2>1. PICK mode : Edit([srv EXCEPT !.resend = mode])
    BY <1>7 DEF Annotate
  <2> DEFINE o == [srv EXCEPT !.resend = mode]
  <2>2. o.events = srv.events /\ o.deleting = srv.deleting /\ o.exists = srv.exists
    BY <1>1 DEF Object
  <2>3. Stored(o) /\ UNCHANGED <<pc, obj, todo, branch>> /\ srv.exists
    BY <2>1 DEF Edit
  <2> HIDE DEF o
  <2> QED  BY <1>5, <2>2, <2>3
<1>8. CASE Delete
  <2> DEFINE o == [srv EXCEPT !.deleting = TRUE, !.deletedAt = now, !.exists = srv.finalizer]
  <2>1. o.events = srv.events /\ o.deleting /\ o.exists = srv.finalizer
    BY <1>1 DEF Object
  <2>2. Stored(o) /\ UNCHANGED <<pc, obj, todo, branch>> /\ srv.exists
    BY <1>8 DEF Edit, Delete
  <2> HIDE DEF o
  <2>3. srv.finalizer \/ srv.events = {}
    BY <2>2 DEF KeepInv, Guarded
  <2> QED  BY <1>5, <2>1, <2>2, <2>3
<1>9. CASE Stamp
  <2> DEFINE o == [srv EXCEPT !.stamped = TRUE]
  <2>1. o.events = srv.events /\ o.deleting = srv.deleting /\ o.exists = srv.exists
    BY <1>1 DEF Object
  <2>2. Stored(o) /\ UNCHANGED <<pc, obj, todo, branch>> /\ srv.exists
    BY <1>9 DEF Stamp
  <2> HIDE DEF o
  <2> QED  BY <1>5, <2>1, <2>2
<1> QED  BY <1>3, <1>4, <1>6, <1>7, <1>8, <1>9 DEF Owner

\* A BillingService that was just created.
LEMMA InitGone == Init => GoneInv
BY DEF Init, NewObject, GoneInv, BranchInv, DeletionInv, InstancesOf, Untold, Charges

\* Every step preserves GoneInv.
LEMMA NextGone ==
  ASSUME IInv, KeepInv, GoneInv, [Next]_vars
  PROVE  GoneInv'
<1>1. CASE Next
  BY <1>1, WritesGone, LoopsGone, EndsGone, WorldGone DEF Next, Reconcile, Refused
<1>2. CASE UNCHANGED vars
  <2>1. UNCHANGED <<srv, cache, early, pc, obj, todo, branch, delivered>>
    BY <1>2 DEF vars, apiVars, localVars
  <2> QED  BY <2>1 DEF GoneInv, BranchInv, DeletionInv, EndKnown, EndTold, ToVisit, HasEvent,
              InstancesOf, Listed, SentSizes, Untold, Covers, Charges
<1> QED  BY <1>1, <1>2
-----------------------------------------------------------------------------
(* What a step tells: the messages that Odoo has or may get.               *)

\* p is o with some events in other states: it tells nothing that o does not.
NothingNew(o, p) ==
  Messages(p) \subseteq Messages(o) /\ p.items = o.items /\ p.deletedAt = o.deletedAt

\* The items stay what they are.
ItemsStay == srv'.items = srv.items /\ UNCHANGED history

\* The step tells nothing new.  The resource may be deleted or its items edited.
TellsNothing ==
  /\ Told' \subseteq Told /\ now' >= now /\ srv'.deletedAt \in {srv.deletedAt, now}
  /\ ItemsStay \/ SetValue \/ AddItem \/ DropItem

\* The step tells the message m.
TellsOne(m) ==
  /\ m \in Message /\ Told' \subseteq Told \cup {m} /\ now' >= now
  /\ ItemsStay /\ srv'.deletedAt = srv.deletedAt

\* ... which is the size the spec lists, now or as the first of its instance.
TellsSize(m) ==
  /\ TellsOne(m) /\ m.type # "delete"
  /\ m.id \in Listed(srv) /\ m.value = srv.items[m.id]
  /\ \/ m.ts = now
     \/ m.ts = 0 /\ \A n \in Told : n.id # m.id

\* ... which is an end, now or at the time of the deletion.
TellsEnd(m) == TellsOne(m) /\ m.type = "delete" /\ m.ts \in {now, srv.deletedAt}

Tells == TellsNothing \/ \E m : TellsSize(m) \/ TellsEnd(m)

\* The messages known after a step.
LEMMA ToldNext ==
  Told' = Messages(srv') \cup Messages(cache') \cup Messages(obj') \cup delivered'
BY DEF Told, Messages

\* Recording the outcome of a delivery tells nothing new.
LEMMA SetStateTells ==
  ASSUME NEW o \in Object, NEW e \in o.events, NEW s
  PROVE  NothingNew(o, SetState(o, e, s))
<1> DEFINE f == [e EXCEPT !.state = s]
           p == SetState(o, e, s)
<1>1. p.events = (o.events \ {e}) \cup {f}
  BY DEF SetState, Object
<1>2. p.items = o.items /\ p.deletedAt = o.deletedAt
  BY DEF SetState, Object
<1>3. AsMessage(f) = AsMessage(e)
  BY DEF Object, Event, AsMessage
<1> HIDE DEF f, p
<1>4. Messages(p) \subseteq Messages(o)
  BY <1>1, <1>3 DEF Messages
<1> QED  BY <1>2, <1>4 DEF NothingNew, p

\* Nor does the resend annotation.
LEMMA MarkResendTells ==
  ASSUME NEW o \in Object
  PROVE  NothingNew(o, MarkResend(o))
<1> DEFINE Mark(e) == IF e.state \in ResendStates(o.resend)
                      THEN [e EXCEPT !.state = "resend"] ELSE e
           p == MarkResend(o)
<1>1. p.events = {Mark(e) : e \in o.events}
  BY DEF MarkResend, Object
<1>2. p.items = o.items /\ p.deletedAt = o.deletedAt
  BY DEF MarkResend, Object
<1>3. \A e \in o.events : AsMessage(Mark(e)) = AsMessage(e)
  BY DEF Object, Event, AsMessage
<1> HIDE DEF Mark, p
<1>4. Messages(p) \subseteq Messages(o)
  BY <1>1, <1>3 DEF Messages
<1> QED  BY <1>2, <1>4 DEF NothingNew, p

\* An enqueued event tells one message.
LEMMA EnqueueTells ==
  ASSUME NEW o \in Object, NEW type \in EventTypes, NEW i \in Instances,
         NEW v \in Values, NEW ts \in Nat
  PROVE  LET p == EnqueueEvent(o, type, i, v, ts)
             m == [id |-> i, type |-> type, value |-> v, ts |-> ts]
         IN /\ m \in Message /\ Messages(p) \subseteq Messages(o) \cup {m}
            /\ p.items = o.items /\ p.deletedAt = o.deletedAt
<1> DEFINE n == NewEvent(o, type, i, v, ts)
           p == EnqueueEvent(o, type, i, v, ts)
           m == [id |-> i, type |-> type, value |-> v, ts |-> ts]
<1>1. AsMessage(n) = m
  BY DEF NewEvent, AsMessage
<1>2. p.events = PruneEvents(o.events \cup {n})
      /\ p.items = o.items /\ p.deletedAt = o.deletedAt
  BY DEF EnqueueEvent, Object
<1>3. m \in Message
  BY DEF Message
<1> HIDE DEF n, p, m
<1>4. p.events \subseteq o.events \cup {n}
  BY <1>2 DEF PruneEvents
<1>5. Messages(p) \subseteq Messages(o) \cup {m}
  BY <1>1, <1>4 DEF Messages
<1> QED  BY <1>2, <1>3, <1>5 DEF p, m

\* A copy with the current resource version tells what the stored object does.
LEMMA FreshTells ==
  ASSUME IInv, KeepInv, fresh
  PROVE  NothingNew(srv, obj)
<1>1. srv \in Object
  BY DEF IInv, TypeOK
<1>2. CASE obj = srv
  BY <1>2 DEF NothingNew
<1>3. CASE obj # srv
  BY <1>1, <1>3, SetStateTells DEF KeepInv, CopyInv
<1> QED  BY <1>2, <1>3

\* A step that writes nothing.
LEMMA ReadTells ==
  ASSUME TypeOK, srv' = srv, cache' \in {cache, srv}, UNCHANGED history,
         \/ obj' \in {obj, cache, srv}
         \/ NothingNew(obj, obj'),
         delivered' \subseteq Told, now' \in {now, now + 1}
  PROVE  TellsNothing
<1>1. Told' \subseteq Told
  BY ToldNext DEF Told, NothingNew
<1>2. now' >= now
  BY DEF TypeOK
<1> QED  BY <1>1, <1>2 DEF TellsNothing, ItemsStay

\* A write that only records what happened to events.
LEMMA StoredTells ==
  ASSUME TypeOK, NEW o, NothingNew(srv, o), Stored(o), obj' \in {o, cache},
         delivered' = delivered, now' = now, UNCHANGED history
  PROVE  TellsNothing
<1>1. srv' = o /\ cache' = cache
  BY DEF Stored
<1>2. Told' \subseteq Told
  BY <1>1, ToldNext DEF Told, NothingNew
<1>3. now' >= now
  BY DEF TypeOK
<1> QED  BY <1>1, <1>2, <1>3 DEF TellsNothing, NothingNew, ItemsStay

\* A write of the local copy.
LEMMA UpdateTells ==
  ASSUME IInv, KeepInv, fresh, NEW o, NothingNew(obj, o), Stored(o), obj' \in {o, cache},
         delivered' = delivered, now' = now, UNCHANGED history
  PROVE  TellsNothing
<1>1. NothingNew(srv, obj) /\ TypeOK
  BY FreshTells DEF IInv
<1>2. NothingNew(srv, o)
  BY <1>1 DEF NothingNew
<1> QED  BY <1>1, <1>2, StoredTells

\* A write of the local copy with one event enqueued.
LEMMA EnqueueStepTells ==
  ASSUME IInv, KeepInv, NEW type \in EventTypes, NEW i \in Instances, NEW v \in Values,
         NEW ts \in Nat, Update(EnqueueEvent(obj, type, i, v, ts)),
         delivered' = delivered, MayEnqueue(obj), UNCHANGED history
  PROVE  TellsOne([id |-> i, type |-> type, value |-> v, ts |-> ts])
<1> DEFINE o == EnqueueEvent(obj, type, i, v, ts)
           m == [id |-> i, type |-> type, value |-> v, ts |-> ts]
<1>1. /\ m \in Message /\ Messages(o) \subseteq Messages(obj) \cup {m}
      /\ o.items = obj.items /\ o.deletedAt = obj.deletedAt
  BY EnqueueTells DEF IInv, TypeOK
<1>2. Update(o)
  OBVIOUS
<1> HIDE DEF o, m
<1>3. srv' = o /\ cache' = cache /\ obj' = o /\ fresh
  BY <1>2 DEF Update, Stored
<1>4. NothingNew(srv, obj)
  BY <1>3, FreshTells
<1>5. Told' \subseteq Told \cup {m}
  BY <1>1, <1>3, ToldNext DEF Told
<1>6. now' >= now
  BY BillingAssumption DEF MayEnqueue, IInv, TypeOK
<1> QED  BY <1>1, <1>3, <1>4, <1>5, <1>6 DEF TellsOne, NothingNew, ItemsStay, m

\* Steps of Reconcile that write the local copy but enqueue nothing.
LEMMA WritesTell ==
  ASSUME IInv, KeepInv,
         \/ SetSalesOrder \/ AddFinalizer \/ HandleResend \/ DropAnnotation
         \/ SaveFailed \/ RemoveFinalizer \/ FailStatus \/ UpdateStatus
  PROVE  TellsNothing
<1>1. obj \in Object /\ fresh /\ delivered' = delivered /\ now' = now /\ UNCHANGED history
  BY DEF IInv, TypeOK, SetSalesOrder, AddFinalizer, HandleResend, DropAnnotation, SaveFailed,
         RemoveFinalizer, FailStatus, UpdateStatus, Update, unchangedByWrite, envVars, history
<1>2. ASSUME NEW o, Update(o), NothingNew(obj, o)
      PROVE  TellsNothing
  <2>1. Stored(o) /\ obj' = o
    BY <1>2 DEF Update
  <2> QED  BY <1>1, <1>2, <2>1, UpdateTells
<1>3. ASSUME NEW o, o.events = obj.events, o.items = obj.items, o.deletedAt = obj.deletedAt
      PROVE  NothingNew(obj, o)
  BY <1>3 DEF NothingNew, Messages
<1>4. CASE SetSalesOrder
  <2>1. NothingNew(obj, [obj EXCEPT !.order = TRUE])
    BY <1>1, <1>3 DEF Object
  <2> QED  BY <1>2, <1>4, <2>1 DEF SetSalesOrder
<1>5. CASE AddFinalizer
  <2>1. NothingNew(obj, [obj EXCEPT !.finalizer = TRUE])
    BY <1>1, <1>3 DEF Object
  <2> QED  BY <1>2, <1>5, <2>1 DEF AddFinalizer
<1>6. CASE HandleResend
  BY <1>1, <1>2, <1>6, MarkResendTells DEF HandleResend
<1>7. CASE DropAnnotation
  <2>1. NothingNew(obj, [obj EXCEPT !.resend = "none"])
    BY <1>1, <1>3 DEF Object
  <2> QED  BY <1>2, <1>7, <2>1 DEF DropAnnotation
<1>8. CASE SaveFailed
  BY <1>2, <1>3, <1>8 DEF SaveFailed
<1>9. CASE RemoveFinalizer
  <2> DEFINE o == [obj EXCEPT !.finalizer = FALSE, !.exists = FALSE]
  <2>1. o.events = obj.events /\ o.items = obj.items /\ o.deletedAt = obj.deletedAt
    BY <1>1 DEF Object
  <2>2. Update(o)
    BY <1>9 DEF RemoveFinalizer
  <2> HIDE DEF o
  <2> QED  BY <1>2, <1>3, <2>1, <2>2
<1>10. CASE FailStatus \/ UpdateStatus
  <2> DEFINE o == SetConditions(obj)
  <2>1. o.events = obj.events /\ o.items = obj.items /\ o.deletedAt = obj.deletedAt
    BY <1>1 DEF Object, SetConditions
  <2>2. Stored(o) /\ obj' = cache
    BY <1>10 DEF FailStatus, UpdateStatus, EndReconcile
  <2> HIDE DEF o
  <2> QED  BY <1>1, <1>3, <2>1, <2>2, UpdateTells
<1> QED  BY <1>4, <1>5, <1>6, <1>7, <1>8, <1>9, <1>10

\* Steps of the reconciler that write no copy of its own, and what it reads.
LEMMA ReadsTell ==
  ASSUME IInv, KeepInv,
         \/ StartReconcile \/ SkipItem \/ WaitForStamp \/ SendEvent \/ SendFails
         \/ PersistSent \/ PersistNotFound \/ PersistConflict \/ WriteFails \/ Crash
  PROVE  TellsNothing
<1>1. TypeOK /\ obj \in Object /\ cache \in Object
  BY DEF IInv, TypeOK
<1>2. CASE StartReconcile \/ SkipItem \/ PersistNotFound \/ PersistConflict
  <2>1. UNCHANGED <<srv, cache, delivered, now, history>> /\ obj' \in {obj, cache}
    BY <1>2 DEF StartReconcile, SkipItem, PersistNotFound, PersistConflict, apiVars, envVars, history
  <2> QED  BY <1>1, <2>1, ReadTells DEF Told
<1>3. CASE WaitForStamp \/ WriteFails \/ Crash
  <2>1. UNCHANGED <<srv, cache, delivered, now, history>> /\ obj' \in {obj, cache}
    BY <1>3 DEF WaitForStamp, WriteFails, Crash, apiVars, envVars, history, EndReconcile
  <2> QED  BY <1>1, <2>1, ReadTells DEF Told
<1>4. CASE SendEvent \/ SendFails
  <2> DEFINE e == NextToSend(obj)
  <2>1. e \in obj.events /\ IsUndelivered(e)
    BY <1>1, <1>4, NextToSendIn DEF IInv, SendInv, SendEvent, SendFails
  <2>2. /\ UNCHANGED <<srv, cache, now, history>> /\ delivered' \subseteq delivered \cup {AsMessage(e)}
        /\ obj' \in {obj, SetState(obj, e, "failed")}
    BY <1>4 DEF SendEvent, SendFails, Received, apiVars, envVars, history
  <2> HIDE DEF e
  <2>3. delivered' \subseteq Told
    BY <2>1, <2>2 DEF Told, Messages
  <2>4. NothingNew(obj, SetState(obj, e, "failed"))
    BY <1>1, <2>1, SetStateTells
  <2>5. obj' = obj \/ NothingNew(obj, obj')
    BY <2>2, <2>4
  <2> QED  BY <1>1, <2>2, <2>3, <2>5, ReadTells
<1>5. CASE PersistSent
  <2> DEFINE S == Matching(cache, NextToSend(obj))
             o == MarkSent(cache, NextToSend(obj))
  <2>1. /\ S # {} /\ Stored(o) /\ obj' = o /\ delivered' = delivered /\ now' = now
        /\ cache = srv /\ UNCHANGED history
    BY <1>5 DEF PersistSent, envVars, history, KeepInv, CopyInv
  <2>2. Newest(S) \in cache.events
    <3>1. S \subseteq cache.events /\ Sane(cache, delivered)
      BY DEF Matching, IInv
    <3> HIDE DEF S
    <3> QED  BY <2>1, <3>1, NewestIn
  <2>3. NothingNew(srv, o)
    BY <1>1, <2>1, <2>2, SetStateTells DEF MarkSent
  <2> HIDE DEF o
  <2> QED  BY <1>1, <2>1, <2>3, StoredTells
<1> QED  BY <1>2, <1>3, <1>4, <1>5

\* The informer, the clock and the other clients.
LEMMA WorldTells ==
  ASSUME IInv, KeepInv, Refresh \/ Tick \/ Owner \/ Stamp
  PROVE  TellsNothing
<1>1. TypeOK /\ srv \in Object
  BY DEF IInv, TypeOK
<1>2. CASE Refresh
  <2>1. /\ srv' = srv /\ cache' = srv /\ obj' \in {obj, srv} /\ delivered' = delivered
        /\ now' = now /\ UNCHANGED history
    BY <1>2 DEF Refresh, envVars, history
  <2> QED  BY <1>1, <2>1, ReadTells DEF Told
<1>3. CASE Tick
  <2>1. UNCHANGED <<srv, cache, obj, delivered, history>> /\ now' = now + 1
    BY <1>3 DEF Tick, apiVars, localVars
  <2> QED  BY <1>1, <2>1, ReadTells DEF Told
<1>4. ASSUME NEW o, Stored(o), o.events = srv.events, UNCHANGED <<obj, delivered, now>>,
             o.deletedAt \in {srv.deletedAt, now},
             \/ o.items = srv.items /\ UNCHANGED history
             \/ SetValue \/ AddItem \/ DropItem
      PROVE  TellsNothing
  <2>1. srv' = o /\ cache' = cache
    BY <1>4 DEF Stored
  <2>2. Messages(o) = Messages(srv)
    BY <1>4 DEF Messages
  <2>3. Told' \subseteq Told /\ now' >= now
    BY <1>1, <1>4, <2>1, <2>2, ToldNext DEF Told, TypeOK
  <2> QED  BY <1>4, <2>1, <2>3 DEF TellsNothing, ItemsStay
<1>5. ASSUME NEW o, Edit(o)
      PROVE  Stored(o) /\ UNCHANGED <<obj, delivered, now>>
  BY <1>5 DEF Edit
<1>6. CASE SetValue \/ AddItem \/ DropItem
  <2>1. PICK i, v : Edit([srv EXCEPT !.items[i] = v])
    BY <1>6 DEF SetValue, AddItem, DropItem
  <2> DEFINE o == [srv EXCEPT !.items[i] = v]
  <2>2. o.events = srv.events /\ o.deletedAt = srv.deletedAt
    BY <1>1 DEF Object
  <2>3. Edit(o)
    BY <2>1
  <2> HIDE DEF o
  <2> QED  BY <1>4, <1>5, <1>6, <2>2, <2>3
<1>7. CASE Annotate
  <2>1. PICK mode : Edit([srv EXCEPT !.resend = mode])
    BY <1>7 DEF Annotate
  <2> DEFINE o == [srv EXCEPT !.resend = mode]
  <2>2. o.events = srv.events /\ o.deletedAt = srv.deletedAt /\ o.items = srv.items
    BY <1>1 DEF Object
  <2>3. Edit(o) /\ UNCHANGED history
    BY <1>7, <2>1 DEF Annotate
  <2> HIDE DEF o
  <2> QED  BY <1>4, <1>5, <2>2, <2>3
<1>8. CASE Delete
  <2> DEFINE o == [srv EXCEPT !.deleting = TRUE, !.deletedAt = now, !.exists = srv.finalizer]
  <2>1. o.events = srv.events /\ o.deletedAt = now /\ o.items = srv.items
    BY <1>1 DEF Object
  <2>2. Edit(o) /\ UNCHANGED history
    BY <1>8 DEF Delete
  <2> HIDE DEF o
  <2> QED  BY <1>4, <1>5, <2>1, <2>2
<1>9. CASE Stamp
  <2> DEFINE o == [srv EXCEPT !.stamped = TRUE]
  <2>1. o.events = srv.events /\ o.deletedAt = srv.deletedAt /\ o.items = srv.items
    BY <1>1 DEF Object
  <2>2. Stored(o) /\ UNCHANGED <<obj, delivered, now, history>>
    BY <1>9 DEF Stamp, envVars, history
  <2> HIDE DEF o
  <2> QED  BY <1>4, <2>1, <2>2
<1> QED  BY <1>2, <1>3, <1>6, <1>7, <1>8, <1>9 DEF Owner

\* Every message is about an instance that the stored object has an event of.
LEMMA ToldIds ==
  ASSUME HistoryInv, NEW m \in Told
  PROVE  m.id \in InstancesOf(srv)
BY DEF HistoryInv, Told, Messages, InstancesOf, AsMessage

\* The loops that enqueue creates and scales.
LEMMA SizesTell ==
  ASSUME IInv, KeepInv, LoopInv, CreateItem \/ ScaleItem
  PROVE  \E m : TellsSize(m)
<1>1. /\ obj \in Object /\ pc \in {"items", "scale"} /\ fresh /\ delivered' = delivered
      /\ now \in Nat /\ UNCHANGED history
  BY DEF IInv, TypeOK, CreateItem, ScaleItem, Update, unchangedByWrite, history
<1>2. obj = srv /\ todo \subseteq SpecItems(srv)
  BY <1>1, FreshIsStored DEF LoopInv, Looping
<1>3. ASSUME NEW it \in todo
      PROVE  it.id \in Listed(srv) /\ it.value = srv.items[it.id] /\ it.value \in Values
             /\ it.id \in Instances
  BY <1>1, <1>2 DEF SpecItems, Listed, Object
<1>4. ASSUME NEW it \in todo, NEW type \in {"create", "scale"}, NEW ts \in Nat,
             Update(EnqueueEvent(obj, type, it.id, it.value, ts)), MayEnqueue(obj),
             ts = now \/ (ts = 0 /\ \A n \in Told : n.id # it.id)
      PROVE  \E m : TellsSize(m)
  <2> DEFINE m == [id |-> it.id, type |-> type, value |-> it.value, ts |-> ts]
  <2>1. TellsOne(m)
    BY <1>1, <1>3, <1>4, EnqueueStepTells DEF EventTypes
  <2>2. TellsSize(m)
    BY <1>2, <1>3, <1>4, <2>1 DEF TellsSize
  <2> QED  BY <2>2
<1>5. CASE CreateItem
  <2>1. PICK it \in todo : /\ ~HasEvent(obj, "create", it.id) /\ Update(EnqueueCreate(it))
                           /\ MayEnqueue(obj)
    BY <1>5 DEF CreateItem
  <2>3. CASE branch = "initial"
    <3>1. delivered = {} /\ \A e \in srv.events : e.type = "create"
      BY <1>1, <1>2, <1>5, <2>3 DEF LoopInv, CreateItem
    <3>2. it.id \notin InstancesOf(srv)
      BY <1>2, <2>1, <3>1 DEF InstancesOf, HasEvent
    <3>3. \A n \in Told : n.id # it.id
      BY <3>2, ToldIds DEF KeepInv
    <3> QED  BY <1>4, <2>1, <2>3, <3>3 DEF EnqueueCreate, CreationTime
  <2>4. CASE branch # "initial"
    BY <1>1, <1>4, <2>1, <2>4 DEF EnqueueCreate, CreationTime
  <2> QED  BY <2>3, <2>4
<1>6. CASE ScaleItem
  <2>1. PICK it \in todo : Update(ScaleTo(it)) /\ MayEnqueue(obj)
    BY <1>6 DEF ScaleItem
  <2> QED  BY <1>1, <1>4, <2>1 DEF ScaleTo
<1> QED  BY <1>5, <1>6

\* The loops that enqueue deletes.
LEMMA DeletesTell ==
  ASSUME IInv, KeepInv, RemoveItem \/ DeleteItem
  PROVE  TellsNothing \/ \E m : TellsEnd(m)
<1>1. /\ TypeOK /\ obj \in Object /\ now \in Nat /\ delivered' = delivered
      /\ Sane(obj, delivered) /\ todo \subseteq Item /\ UNCHANGED history
  BY DEF IInv, TypeOK, RemoveItem, DeleteItem, unchangedByWrite, history
<1>2. ASSUME UNCHANGED <<apiVars, obj, now>>
      PROVE  TellsNothing
  <2>1. srv' = srv /\ cache' = cache /\ obj' = obj /\ now' = now
    BY <1>2 DEF apiVars
  <2> QED  BY <1>1, <2>1, ReadTells DEF Told
<1>3. ASSUME NEW it \in todo, NEW v \in Values, NEW ts \in Nat,
             Update(EnqueueEvent(obj, "delete", it.id, v, ts)), MayEnqueue(obj),
             ts \in {now, obj.deletedAt}
      PROVE  \E m : TellsEnd(m)
  <2> DEFINE m == [id |-> it.id, type |-> "delete", value |-> v, ts |-> ts]
  <2>1. it.id \in Instances /\ fresh
    BY <1>1, <1>3 DEF Item, Update
  <2>2. TellsOne(m)
    BY <1>1, <1>3, <2>1, EnqueueStepTells DEF EventTypes
  <2>3. srv.deletedAt = obj.deletedAt
    BY <2>1, FreshTells DEF NothingNew
  <2> QED  BY <1>3, <2>2, <2>3 DEF TellsEnd
<1>4. CASE RemoveItem
  <2>1. PICK it \in todo :
          IF HasEvent(obj, "delete", it.id)
          THEN UNCHANGED <<apiVars, obj, now>>
          ELSE MayEnqueue(obj) /\ Update(RemoveLeftover(it))
    BY <1>4 DEF RemoveItem
  <2>2. it.value \in Values
    BY <1>1 DEF Item
  <2> QED  BY <1>1, <1>2, <1>3, <2>1, <2>2 DEF RemoveLeftover
<1>5. CASE DeleteItem
  <2>1. PICK it \in todo :
          IF HasEvent(obj, "delete", it.id)
          THEN UNCHANGED <<apiVars, obj, now>>
          ELSE MayEnqueue(obj) /\ Update(EnqueueDelete(it))
    BY <1>5 DEF DeleteItem
  <2>2. LastObservedValue(obj, it) \in Values
    BY <1>1, LastObservedValueType
  <2>3. obj.deletedAt \in Nat
    BY <1>1 DEF Object
  <2> QED  BY <1>1, <1>2, <1>3, <2>1, <2>2, <2>3 DEF EnqueueDelete
<1> QED  BY <1>4, <1>5

\* Every step tells nothing new, one size or one end.
LEMMA NextTells ==
  ASSUME IInv, KeepInv, LoopInv, [Next]_vars
  PROVE  Tells
<1>1. CASE Next
  BY <1>1, WritesTell, ReadsTell, WorldTells, SizesTell, DeletesTell
  DEF Tells, Next, Reconcile, Refused
<1>2. CASE UNCHANGED vars
  <2>1. UNCHANGED <<srv, cache, obj, delivered, now, history>> /\ TypeOK
    BY <1>2 DEF vars, apiVars, localVars, envVars, history, IInv
  <2> QED  BY <2>1, ReadTells DEF Told, Tells
<1> QED  BY <1>1, <1>2
-----------------------------------------------------------------------------
(* What Odoo is told, in time: ClockInv, ChainInv.                         *)

\* What is told are messages.
LEMMA ToldType ==
  ASSUME TypeOK
  PROVE  Told \subseteq Message
<1>1. ASSUME NEW o \in Object PROVE Messages(o) \subseteq Message
  BY DEF Object, Event, Messages, AsMessage, Message
<1> QED  BY <1>1 DEF Told, TypeOK

\* No message has a time that is still to come.
LEMMA NextClock ==
  ASSUME TypeOK, TypeOK', ClockInv, Tells
  PROVE  ClockInv'
<1>1. /\ now \in Nat /\ now' \in Nat /\ srv.deletedAt \in Nat /\ srv'.deletedAt \in Nat
      /\ \A m \in Told : m.ts \in Nat
  BY ToldType DEF TypeOK, Object, Message
<1>2. CASE TellsNothing
  BY <1>1, <1>2 DEF TellsNothing, ClockInv
<1>3. ASSUME NEW m, TellsSize(m) \/ TellsEnd(m)
      PROVE  ClockInv'
  <2>1. Told' \subseteq Told \cup {m} /\ now' >= now /\ srv'.deletedAt = srv.deletedAt
    BY <1>3 DEF TellsSize, TellsEnd, TellsOne
  <2>2. m.ts <= now /\ m.ts \in Nat
    BY <1>1, <1>3 DEF TellsSize, TellsEnd, ClockInv
  <2> QED  BY <1>1, <2>1, <2>2 DEF ClockInv
<1> QED  BY <1>2, <1>3 DEF Tells

\* What an edit of item j makes of the items.
LEMMA EditItems ==
  ASSUME TypeOK, NEW j \in Instances, NEW v, Edit([srv EXCEPT !.items[j] = v])
  PROVE  srv'.items = [srv.items EXCEPT ![j] = v]
<1>1. srv \in Object /\ srv' = [srv EXCEPT !.items[j] = v]
  BY DEF TypeOK, Edit, Stored
<1> QED  BY <1>1 DEF Object

\* The owner gives item j the value v after another one.
Replaces(j, v) ==
  /\ j \in Listed(srv) /\ v \in Values
  /\ srv'.items = [srv.items EXCEPT ![j] = v]
  /\ past' = past \cup {<<j, u, v>> : u \in Before(j, srv.items[j])}
  /\ UNCHANGED dropped

\* The owner lists item j, or drops it.
Lists(j, v) ==
  /\ j \in Instances /\ srv'.items = [srv.items EXCEPT ![j] = v]
  /\ j \notin Listed(srv) \/ j \in dropped'
  /\ past' = past /\ dropped \subseteq dropped'

\* What becomes of the items and their history in a step.
LEMMA ItemsNext ==
  ASSUME TypeOK, ItemsStay \/ SetValue \/ AddItem \/ DropItem
  PROVE  ItemsStay \/ \E j, v : Replaces(j, v) \/ Lists(j, v)
<1>1. CASE SetValue
  <2>1. PICK j \in Listed(srv), v \in Values :
          /\ Edit([srv EXCEPT !.items[j] = v])
          /\ past' = past \cup {<<j, u, v>> : u \in Before(j, srv.items[j])}
    BY <1>1 DEF SetValue
  <2>2. j \in Instances
    BY DEF Listed
  <2>3. Replaces(j, v)
    BY <1>1, <2>1, <2>2, EditItems DEF Replaces, SetValue
  <2> QED  BY <2>3
<1>2. CASE AddItem
  <2>1. PICK j \in Instances \ Listed(srv), v \in Values : Edit([srv EXCEPT !.items[j] = v])
    BY <1>2 DEF AddItem
  <2>2. Lists(j, v)
    BY <1>2, <2>1, EditItems DEF Lists, AddItem, history
  <2> QED  BY <2>2
<1>3. CASE DropItem
  <2>1. PICK j \in Listed(srv) : Edit([srv EXCEPT !.items[j] = Unlisted])
                                 /\ dropped' = dropped \cup {j}
    BY <1>3 DEF DropItem
  <2>2. j \in Instances
    BY DEF Listed
  <2>3. Lists(j, Unlisted)
    BY <1>3, <2>1, <2>2, EditItems DEF Lists, DropItem
  <2> QED  BY <2>3
<1> QED  BY <1>1, <1>2, <1>3

\* An item that was never dropped moves on from its value, or stays.
LEMMA AtMostNext ==
  ASSUME TypeOK, ItemsStay \/ SetValue \/ AddItem \/ DropItem,
         NEW i \in Listed(srv), i \notin dropped', NEW u \in Values,
         AtMost(i, u, srv.items[i])
  PROVE  /\ i \in Listed(srv')
         /\ u = srv'.items[i] \/ <<i, u, srv'.items[i]>> \in past'
         /\ <<i, u, srv.items[i]>> \in past => <<i, u, srv'.items[i]>> \in past'
<1>1. srv.items \in [Instances -> Values \cup {Unlisted}] /\ i \in Instances
      /\ srv.items[i] \in Values
  BY DEF TypeOK, Object, Listed
<1>2. u = srv.items[i] \/ <<i, u, srv.items[i]>> \in past
  BY DEF AtMost
<1>3. CASE ItemsStay
  BY <1>2, <1>3 DEF ItemsStay, history, Listed
<1>4. ASSUME NEW j, NEW v, Lists(j, v)
      PROVE  srv'.items[i] = srv.items[i] /\ past' = past
  <2>1. j # i
    BY <1>4 DEF Lists
  <2> QED  BY <1>1, <1>4, <2>1 DEF Lists
<1>5. ASSUME NEW j, NEW v, Replaces(j, v), i # j
      PROVE  srv'.items[i] = srv.items[i] /\ past \subseteq past'
  BY <1>1, <1>5 DEF Replaces
<1>6. ASSUME NEW v, Replaces(i, v)
      PROVE  srv'.items[i] = v /\ <<i, u, v>> \in past' /\ v \in Values
  <2>1. u \in Before(i, srv.items[i])
    BY <1>2 DEF Before
  <2> QED  BY <1>1, <1>6, <2>1 DEF Replaces
<1>7. ASSUME NEW j, NEW v, Replaces(j, v) \/ Lists(j, v)
      PROVE  /\ i \in Listed(srv')
             /\ u = srv'.items[i] \/ <<i, u, srv'.items[i]>> \in past'
             /\ <<i, u, srv.items[i]>> \in past => <<i, u, srv'.items[i]>> \in past'
  <2>1. CASE srv'.items[i] = srv.items[i] /\ past \subseteq past'
    BY <1>1, <1>2, <2>1 DEF Listed
  <2>2. CASE i = j /\ Replaces(i, v)
    BY <1>1, <1>6, <2>2, BillingAssumption DEF Listed
  <2> QED  BY <1>4, <1>5, <1>7, <2>1, <2>2
<1> QED  BY <1>3, <1>7, ItemsNext

\* Every step preserves PastInv.
LEMMA NextPast ==
  ASSUME TypeOK, PastInv, ItemsStay \/ SetValue \/ AddItem \/ DropItem
  PROVE  PastInv'
<1>1. dropped \subseteq dropped'
  BY DEF ItemsStay, history, SetValue, AddItem, DropItem
<1> DEFINE Fits(q) == \/ q[1] \in dropped'
                      \/ /\ q[1] \in Listed(srv')
                         /\ <<q[1], q[2], srv'.items[q[1]]>> \in past'
                         /\ q[3] = srv'.items[q[1]] \/ <<q[1], q[3], srv'.items[q[1]]>> \in past'
<1>2. ASSUME NEW p \in past
      PROVE  Fits(p)
  <2>1. p[2] \in Values /\ p[3] \in Values
    BY DEF TypeOK
  <2>2. CASE p[1] \notin dropped'
    <3>1. /\ p[1] \in Listed(srv) /\ <<p[1], p[2], srv.items[p[1]]>> \in past
          /\ AtMost(p[1], p[3], srv.items[p[1]])
      BY <1>1, <2>2 DEF PastInv
    <3>2. AtMost(p[1], p[2], srv.items[p[1]])
      BY <3>1 DEF AtMost
    <3> QED  BY <2>1, <2>2, <3>1, <3>2, AtMostNext
  <2> QED  BY <2>2
<1>3. ASSUME NEW j, NEW v, Replaces(j, v), NEW p \in past', p \notin past
      PROVE  Fits(p)
  <2>1. PICK u : u \in Before(j, srv.items[j]) /\ p = <<j, u, v>>
    BY <1>3 DEF Replaces
  <2>2. srv'.items[j] = v /\ v # Unlisted /\ j \in Instances
    BY <1>3, BillingAssumption DEF Replaces, TypeOK, Object, Listed
  <2>3. p[1] = j /\ p[2] = u /\ p[3] = v
    BY <2>1
  <2> QED  BY <1>3, <2>1, <2>2, <2>3 DEF Listed
<1>4. ASSUME NEW p \in past'
      PROVE  Fits(p)
  <2>1. CASE p \in past
    BY <1>2, <2>1
  <2>2. CASE p \notin past
    <3>1. \E j, v : Replaces(j, v)
      BY <2>2, ItemsNext DEF ItemsStay, history, Lists
    <3> QED  BY <1>3, <2>2, <3>1
  <2> QED  BY <2>1, <2>2
<1> QED  BY <1>4 DEF PastInv, AtMost, Listed

\* The values of an item follow each other in time as the owner of the spec
\* changes them.
LEMMA NextChain ==
  ASSUME TypeOK, KeepInv, OpenInv, ClockInv, ChainInv, Tells
  PROVE  ChainInv'
<1>1. /\ now \in Nat
      /\ \A m \in Told : m.ts \in Nat /\ m.ts <= now /\ m.value \in Values
  BY ToldType DEF TypeOK, Message, ClockInv
<1>2. \A m \in Sizes : m.id \in Listed(srv) \/ m.id \in dropped
  BY ToldIds DEF KeepInv, Sizes, OpenInv
<1>3. ItemsStay \/ SetValue \/ AddItem \/ DropItem
  BY DEF Tells, TellsNothing, TellsSize, TellsEnd, TellsOne
<1>4. PastInv'
  BY <1>3, NextPast DEF ChainInv
<1>5. dropped \subseteq dropped' /\ past \subseteq past'
  BY <1>3 DEF ItemsStay, history, SetValue, AddItem, DropItem
<1>6. ASSUME NEW m \in Sizes, m.id \notin dropped'
      PROVE  m.value = srv'.items[m.id] \/ <<m.id, m.value, srv'.items[m.id]>> \in past'
  <2>1. m.id \in Listed(srv) /\ AtMost(m.id, m.value, srv.items[m.id])
    BY <1>2, <1>5, <1>6 DEF ChainInv
  <2>2. m.value \in Values
    BY <1>1 DEF Sizes
  <2> QED  BY <1>3, <1>6, <2>1, <2>2, AtMostNext
<1>7. ASSUME NEW m \in Sizes, NEW n \in Sizes, m.id = n.id, m.ts < n.ts, m.id \notin dropped'
      PROVE  m.value = n.value \/ <<m.id, m.value, n.value>> \in past'
  BY <1>5, <1>7 DEF ChainInv, AtMost
<1>8. CASE Sizes' \subseteq Sizes
  BY <1>4, <1>6, <1>7, <1>8 DEF ChainInv, AtMost
<1>9. ASSUME NEW s, TellsSize(s)
      PROVE  ChainInv'
  <2>1. Sizes' \subseteq Sizes \cup {s}
    BY <1>9 DEF TellsSize, TellsOne, Sizes
  <2>2. srv'.items = srv.items /\ s.value = srv.items[s.id] /\ s.ts \in Nat
    BY <1>9 DEF TellsSize, TellsOne, ItemsStay, Message
  <2>3. \A n \in Sizes : n.id = s.id => ~(s.ts < n.ts)
    BY <1>1, <1>9 DEF TellsSize, Sizes
  <2>4. \A m \in Sizes' : m.id \in dropped' \/ m.value = srv'.items[m.id]
                          \/ <<m.id, m.value, srv'.items[m.id]>> \in past'
    BY <1>6, <2>1, <2>2
  <2>5. \A m, n \in Sizes' :
          m.id = n.id /\ m.ts < n.ts =>
            m.id \in dropped' \/ m.value = n.value \/ <<m.id, m.value, n.value>> \in past'
    <3> SUFFICES ASSUME NEW m \in Sizes', NEW n \in Sizes', m.id = n.id, m.ts < n.ts,
                        m.id \notin dropped'
                 PROVE  m.value = n.value \/ <<m.id, m.value, n.value>> \in past'
      OBVIOUS
    <3>1. CASE n \in Sizes
      <4>1. m \in Sizes
        BY <2>1, <2>3, <3>1
      <4> QED  BY <1>7, <3>1, <4>1
    <3>2. CASE n = s
      <4>1. m \in Sizes
        BY <2>1, <2>2, <3>2
      <4> QED  BY <1>6, <2>2, <3>2, <4>1
    <3> QED  BY <2>1, <3>1, <3>2
  <2> QED  BY <1>4, <2>4, <2>5 DEF ChainInv, AtMost
<1>10. TellsNothing \/ (\E m : TellsEnd(m)) => Sizes' \subseteq Sizes
  BY DEF TellsNothing, TellsEnd, TellsOne, Sizes
<1> QED  BY <1>8, <1>9, <1>10 DEF Tells
-----------------------------------------------------------------------------
(* The loops and what they charge for: LoopInv and ChargeInv.              *)

\* The next call is one for the copy o.
LEMMA LoopMoves ==
  ASSUME NEW o, obj' = o, pc' # "idle", Looping(o, pc', todo'), Charging(o, pc', todo', sent'),
         pc' \in {"items", "scale"} /\ branch' = "initial" /\ fresh' =>
           delivered' = {} /\ \A e \in o.events : e.type = "create" /\ e.state = "pending"
  PROVE  LoopInv' /\ ChargeInv'
BY DEF LoopInv, ChargeInv, Looping, Charging, ChargedBut, Charged, HasBacklog, IsUndelivered, SpecItems,
       Listed, HasEvent, NeedsScale, SentSizes, HasEventWithValue, Newest

\* The next call is in none of the loops, and does not end the reconcile.
LEMMA LoopLeft ==
  ASSUME pc' \notin {"items", "scale", "removed", "delete", "deleteSent", "status", "idle"}
  PROVE  LoopInv' /\ ChargeInv'
BY DEF LoopInv, ChargeInv, Looping, Charging

\* The reconcile ends, and another one is asked for.
LEMMA LoopEnds ==
  ASSUME EndReconcile(TRUE)
  PROVE  LoopInv' /\ ChargeInv'
BY DEF EndReconcile, LoopInv, ChargeInv, Looping, Charging

\* Leaving the loop over removed items.
LEMMA EnterRemovedCharges ==
  ASSUME NEW o, NEW its, NEW s, ChargedBut(o, {}), EnterRemoved(o, its)
  PROVE  Looping(o, pc', todo') /\ Charging(o, pc', todo', s)
         /\ pc' \notin {"items", "scale", "idle"}
BY DEF EnterRemoved, EnterQueue, AfterQueue, Looping, Charging

\* Leaving the loop over the items of the spec.
LEMMA EnterItemsCharges ==
  ASSUME NEW o, NEW its, NEW s, ~o.deleting, its \subseteq SpecItems(o), ChargedBut(o, its),
         EnterItems(o, its)
  PROVE  Looping(o, pc', todo') /\ Charging(o, pc', todo', s) /\ pc' \notin {"scale", "idle"}
<1>1. CASE its = {}
  BY <1>1, EnterRemovedCharges DEF EnterItems
<1>2. CASE its # {}
  BY <1>2 DEF EnterItems, Looping, Charging
<1> QED  BY <1>1, <1>2

\* The loops of a deletion.
LEMMA EnterDeleteCharges ==
  ASSUME NEW o, NEW its, NEW s, o.deleting, EnterDelete(o, its) \/ EnterDeleteSent(o, its)
  PROVE  Looping(o, pc', todo') /\ Charging(o, pc', todo', s)
         /\ pc' \notin {"items", "scale", "idle"}
BY DEF EnterDelete, EnterDeleteSent, EnterQueue, AfterQueue, Looping, Charging

\* Every way into the loops: all items of the spec are to be visited.
LEMMA EnterBranchCharges ==
  ASSUME NEW o, NEW s,
         EnterBranch(o) \/ EnterResend(o) \/ EnterFinalizer(o) \/ EnterOrder(o)
  PROVE  /\ Looping(o, pc', todo') /\ Charging(o, pc', todo', s) /\ pc' \notin {"scale", "idle"}
         /\ pc' = "items" /\ branch' = "initial" => o.events = {}
<1>1. CASE EnterBranch(o) /\ o.deleting
  <2>1. EnterDelete(o, SpecItems(o)) /\ o.deleting
    BY <1>1 DEF EnterBranch
  <2> QED  BY <2>1, EnterDeleteCharges
<1>2. CASE EnterBranch(o) /\ ~o.deleting
  <2>1. EnterItems(o, SpecItems(o)) /\ (branch' = "initial" => o.events = {})
    BY <1>2 DEF EnterBranch
  <2>2. ASSUME NEW i \in Listed(o)
        PROVE  \E it \in SpecItems(o) : it.id = i
    <3>1. [id |-> i, value |-> o.items[i]] \in SpecItems(o)
      BY DEF SpecItems
    <3> QED  BY <3>1
  <2>3. ChargedBut(o, SpecItems(o))
    BY <2>2 DEF ChargedBut
  <2> QED  BY <1>2, <2>1, <2>3, EnterItemsCharges
<1>3. CASE pc' \in {"order", "finalizer", "resend", "annotation"}
  BY <1>3 DEF Looping, Charging
<1> QED  BY <1>1, <1>2, <1>3 DEF EnterResend, EnterFinalizer, EnterOrder

\* Into the loops, from the calls that come before them.
LEMMA StartsCharge ==
  ASSUME KeepInv', NEW o, obj' = o,
         EnterBranch(o) \/ EnterResend(o) \/ EnterFinalizer(o) \/ EnterOrder(o)
  PROVE  LoopInv' /\ ChargeInv'
<1>1. /\ Looping(o, pc', todo') /\ Charging(o, pc', todo', sent') /\ pc' \notin {"scale", "idle"}
      /\ pc' = "items" /\ branch' = "initial" => o.events = {}
  BY EnterBranchCharges
<1>2. ASSUME pc' = "items", branch' = "initial", fresh'
      PROVE  delivered' = {} /\ o.events = {}
  <2>1. obj' = srv' /\ o.events = {}
    BY <1>1, <1>2 DEF KeepInv, CopyInv
  <2> QED  BY <2>1 DEF KeepInv, HistoryInv, InstancesOf
<1> QED  BY <1>1, <1>2, LoopMoves

\* Steps that lead into the loops or past them.
LEMMA WritesCharge ==
  ASSUME KeepInv, KeepInv', LoopInv, ChargeInv,
         StartReconcile \/ SetSalesOrder \/ AddFinalizer \/ HandleResend \/ DropAnnotation
  PROVE  LoopInv' /\ ChargeInv'
<1>1. CASE StartReconcile
  <2>1. CASE cache.exists
    BY <1>1, <2>1, StartsCharge DEF StartReconcile
  <2>2. CASE ~cache.exists
    <3>1. UNCHANGED <<srv, notify, pc, obj, fresh, todo, branch, sent>> /\ pc = "idle"
          /\ ~srv.exists
      BY <1>1, <2>2 DEF StartReconcile, apiVars, KeepInv, HistoryInv
    <3> QED  BY <3>1 DEF LoopInv, Looping, ChargeInv, Charging
  <2> QED  BY <2>1, <2>2
<1>2. CASE SetSalesOrder
  BY <1>2, StartsCharge DEF SetSalesOrder, Update
<1>3. CASE AddFinalizer
  BY <1>3, StartsCharge DEF AddFinalizer, Update
<1>4. CASE HandleResend
  BY <1>4, LoopLeft DEF HandleResend
<1>5. CASE DropAnnotation
  BY <1>5, StartsCharge DEF DropAnnotation, Update
<1> QED  BY <1>1, <1>2, <1>3, <1>4, <1>5

\* An enqueued event is in the list, and undelivered.
LEMMA EnqueueCharges ==
  ASSUME NEW o \in Object, NEW type, NEW i, NEW v, NEW ts
  PROVE  LET p == EnqueueEvent(o, type, i, v, ts)
         IN /\ HasBacklog(p) /\ SpecItems(p) = SpecItems(o) /\ p.deleting = o.deleting
            /\ \A e \in p.events : e \in o.events \/ (e.type = type /\ e.state = "pending")
<1> DEFINE n == NewEvent(o, type, i, v, ts)
           p == EnqueueEvent(o, type, i, v, ts)
<1>1. n.state = "pending" /\ n.type = type
  BY DEF NewEvent
<1>2. p.events = PruneEvents(o.events \cup {n}) /\ p.items = o.items /\ p.deleting = o.deleting
  BY DEF EnqueueEvent, Object
<1> HIDE DEF n, p
<1>3. p.events \subseteq o.events \cup {n} /\ n \in p.events
  BY <1>1, <1>2 DEF PruneEvents, IsPruned
<1>4. HasBacklog(p) /\ SpecItems(p) = SpecItems(o)
  BY <1>1, <1>2, <1>3 DEF HasBacklog, IsUndelivered, SpecItems, Listed
<1> QED  BY <1>1, <1>2, <1>3, <1>4 DEF p

\* The loops: an item that is left behind has an event to be delivered or
\* needs none.
LEMMA LoopsCharge ==
  ASSUME IInv, KeepInv, LoopInv, ChargeInv,
         CreateItem \/ ScaleItem \/ SkipItem \/ RemoveItem \/ DeleteItem
  PROVE  LoopInv' /\ ChargeInv'
<1>1. /\ obj \in Object /\ UNCHANGED <<delivered, branch, sent>>
      /\ Looping(obj, pc, todo) /\ Charging(obj, pc, todo, sent)
  BY DEF IInv, TypeOK, LoopInv, ChargeInv, CreateItem, ScaleItem, SkipItem, RemoveItem,
         DeleteItem, unchangedByWrite, history
<1>2. ASSUME NEW o, HasBacklog(o), NEW its
      PROVE  ChargedBut(o, its)
  BY <1>2 DEF ChargedBut
<1>3. CASE CreateItem
  <2>1. PICK it \in todo :
          /\ Update(EnqueueCreate(it))
          /\ IF NeedsScale(EnqueueCreate(it), it)
             THEN pc' = "scale" /\ UNCHANGED todo
             ELSE EnterItems(EnqueueCreate(it), todo \ {it})
    BY <1>3 DEF CreateItem
  <2> DEFINE o == EnqueueCreate(it)
  <2>2. pc = "items" /\ ~obj.deleting /\ todo \subseteq SpecItems(obj)
    BY <1>1, <1>3 DEF CreateItem, Looping
  <2>3. /\ HasBacklog(o) /\ SpecItems(o) = SpecItems(obj) /\ o.deleting = obj.deleting
        /\ \A e \in o.events : e \in obj.events \/ (e.type = "create" /\ e.state = "pending")
    BY <1>1, EnqueueCharges DEF EnqueueCreate
  <2>4. obj' = o /\ fresh
    BY <2>1 DEF Update
  <2>5. \/ pc' = "scale" /\ todo' = todo
        \/ EnterItems(o, todo \ {it})
    BY <2>1
  <2> HIDE DEF o
  <2>6. Looping(o, pc', todo') /\ Charging(o, pc', todo', sent') /\ pc' # "idle"
    <3>1. CASE pc' = "scale" /\ todo' = todo
      BY <2>2, <2>3, <3>1 DEF Looping, Charging
    <3>2. CASE EnterItems(o, todo \ {it})
      BY <1>2, <2>2, <2>3, <3>2, EnterItemsCharges
    <3> QED  BY <2>5, <3>1, <3>2
  <2>7. branch = "initial" =>
          delivered = {} /\ \A e \in obj.events : e.type = "create" /\ e.state = "pending"
    BY <2>2, <2>4 DEF LoopInv
  <2> QED  BY <1>1, <2>3, <2>4, <2>6, <2>7, LoopMoves
<1>4. CASE ScaleItem
  <2>1. PICK it \in todo : /\ NeedsScale(obj, it) /\ Update(ScaleTo(it))
                           /\ EnterItems(ScaleTo(it), todo \ {it})
    BY <1>4 DEF ScaleItem
  <2> DEFINE o == ScaleTo(it)
  <2>2. pc \in {"items", "scale"} /\ ~obj.deleting /\ todo \subseteq SpecItems(obj)
    BY <1>1, <1>4 DEF ScaleItem, Looping
  <2>3. HasBacklog(o) /\ SpecItems(o) = SpecItems(obj) /\ o.deleting = obj.deleting
    BY <1>1, EnqueueCharges DEF ScaleTo
  <2>4. obj' = o /\ fresh /\ EnterItems(o, todo \ {it})
    BY <2>1 DEF Update
  <2> HIDE DEF o
  <2>5. Looping(o, pc', todo') /\ Charging(o, pc', todo', sent') /\ pc' # "idle"
    BY <1>2, <2>2, <2>3, <2>4, EnterItemsCharges
  <2>6. \E e \in obj.events : e.state = "sent"
    BY <2>1 DEF NeedsScale, SentSizes
  <2>7. branch # "initial"
    BY <2>2, <2>4, <2>6 DEF LoopInv
  <2> QED  BY <1>1, <2>4, <2>5, <2>7, LoopMoves
<1>5. CASE SkipItem
  <2>1. PICK it \in todo : /\ HasEvent(obj, "create", it.id) /\ ~NeedsScale(obj, it)
                           /\ EnterItems(obj, todo \ {it})
    BY <1>5 DEF SkipItem
  <2>2. /\ pc = "items" /\ ~obj.deleting /\ todo \subseteq SpecItems(obj)
        /\ ChargedBut(obj, todo) /\ obj' = obj /\ fresh' = fresh
    BY <1>1, <1>5 DEF SkipItem, Looping, Charging
  <2>3. it = [id |-> it.id, value |-> obj.items[it.id]]
    BY <2>2 DEF SpecItems
  <2>4. Charged(obj, it.id)
    BY <2>1, <2>3 DEF Charged
  <2>5. ChargedBut(obj, todo \ {it})
    BY <2>2, <2>4 DEF ChargedBut
  <2>6. Looping(obj, pc', todo') /\ Charging(obj, pc', todo', sent') /\ pc' \notin {"idle", "scale"}
    BY <2>1, <2>2, <2>5, EnterItemsCharges
  <2> QED  BY <1>1, <2>2, <2>6, LoopMoves DEF LoopInv
<1>6. CASE RemoveItem
  <2>1. PICK it \in todo :
          IF HasEvent(obj, "delete", it.id)
          THEN EnterRemoved(obj, todo \ {it}) /\ UNCHANGED obj
          ELSE Update(RemoveLeftover(it)) /\ EnterRemoved(RemoveLeftover(it), todo \ {it})
    BY <1>6 DEF RemoveItem
  <2>2. ChargedBut(obj, {})
    BY <1>1, <1>6 DEF RemoveItem, Charging
  <2> DEFINE o == RemoveLeftover(it)
  <2>3. ChargedBut(o, {})
    BY <1>1, <1>2, EnqueueCharges DEF RemoveLeftover
  <2>4. ASSUME NEW p, obj' = p, ChargedBut(p, {}), EnterRemoved(p, todo \ {it})
        PROVE  LoopInv' /\ ChargeInv'
    BY <2>4, EnterRemovedCharges, LoopMoves
  <2> HIDE DEF o
  <2> QED  BY <2>1, <2>2, <2>3, <2>4 DEF o, Update
<1>7. CASE DeleteItem
  <2>1. PICK it \in todo :
          IF HasEvent(obj, "delete", it.id)
          THEN /\ EnterDelete(obj, todo \ {it}) \/ EnterDeleteSent(obj, todo \ {it})
               /\ UNCHANGED obj
          ELSE /\ EnterDelete(EnqueueDelete(it), todo \ {it})
                    \/ EnterDeleteSent(EnqueueDelete(it), todo \ {it})
               /\ Update(EnqueueDelete(it))
    BY <1>7 DEF DeleteItem
  <2>2. obj.deleting
    BY <1>1, <1>7 DEF DeleteItem, Looping
  <2> DEFINE o == EnqueueDelete(it)
  <2>3. o.deleting
    BY <1>1, <2>2, EnqueueCharges DEF EnqueueDelete
  <2>4. ASSUME NEW p, obj' = p, p.deleting,
               EnterDelete(p, todo \ {it}) \/ EnterDeleteSent(p, todo \ {it})
        PROVE  LoopInv' /\ ChargeInv'
    BY <2>4, EnterDeleteCharges, LoopMoves
  <2> HIDE DEF o
  <2> QED  BY <2>1, <2>2, <2>3, <2>4 DEF o, Update
<1> QED  BY <1>3, <1>4, <1>5, <1>6, <1>7

\* Deliveries, and what ends a reconcile: it asks for no other one only if
\* there is nothing left to enqueue.
LEMMA EndsCharge ==
  ASSUME IInv, KeepInv, LoopInv, ChargeInv,
         \/ SendEvent \/ SendFails \/ SaveFailed \/ PersistSent \/ PersistNotFound
         \/ PersistConflict \/ FailStatus \/ UpdateStatus \/ RemoveFinalizer
         \/ WaitForStamp \/ WriteFails \/ Crash
  PROVE  LoopInv' /\ ChargeInv'
<1>1. CASE pc' \in {"persist", "saveFailed", "failStatus"}
  BY <1>1, LoopLeft
<1>2. CASE EndReconcile(TRUE)
  BY <1>2, LoopEnds
<1>3. CASE PersistSent
  <2>1. sent' = TRUE /\ pc' \in {"status", "statusKeep", "finalize"}
    BY <1>3 DEF PersistSent, AfterQueue
  <2> QED  BY <2>1 DEF LoopInv, Looping, ChargeInv, Charging
<1>4. CASE RemoveFinalizer
  <2> DEFINE o == [obj EXCEPT !.finalizer = FALSE, !.exists = FALSE]
  <2>1. obj' = o /\ pc' = "status"
    BY <1>4 DEF RemoveFinalizer, Update
  <2>2. ~o.exists
    BY DEF IInv, TypeOK, Object
  <2> HIDE DEF o
  <2> QED  BY <2>1, <2>2 DEF LoopInv, Looping, ChargeInv, Charging
<1>5. CASE UpdateStatus
  <2> DEFINE o == SetConditions(obj)
  <2>1. /\ pc \in {"status", "statusKeep"} /\ fresh /\ srv' = o /\ pc' = "idle" /\ todo' = {}
        /\ queued' = (queued \/ NeedsRequeue)
    BY <1>5 DEF UpdateStatus, EndReconcile, Stored
  <2>2. /\ o.events = obj.events /\ o.items = obj.items /\ o.deleting = obj.deleting
        /\ o.exists = obj.exists
    BY DEF SetConditions, IInv, TypeOK, Object
  <2> HIDE DEF o
  <2>3. ASSUME ~queued', o.exists, ~o.deleting, NEW i \in Listed(o)
        PROVE  Charged(o, i)
    <3>1. ~sent /\ ~HasBacklog(obj) /\ pc = "status"
      BY <2>1, <2>3 DEF NeedsRequeue
    <3>2. ChargedBut(obj, {})
      BY <2>2, <2>3, <3>1 DEF ChargeInv, Charging
    <3>3. Charged(obj, i)
      BY <2>2, <2>3, <3>1, <3>2 DEF ChargedBut, Listed
    <3> QED  BY <2>2, <3>3 DEF Charged, HasEvent, NeedsScale, SentSizes, HasEventWithValue
  <2>4. LoopInv' /\ Charging(obj', pc', todo', sent')
    BY <2>1 DEF LoopInv, Looping, Charging
  <2>5. ~queued' /\ srv'.exists /\ ~srv'.deleting => \A i \in Listed(srv') : Charged(srv', i)
    BY <2>1, <2>3
  <2> QED  BY <2>4, <2>5 DEF ChargeInv, Charging, Listed, Charged, HasEvent, NeedsScale, SentSizes,
              HasEventWithValue
<1> QED
  BY <1>1, <1>2, <1>3, <1>4, <1>5
  DEF SendEvent, SendFails, SaveFailed, PersistNotFound, PersistConflict, FailStatus,
      WaitForStamp, WriteFails, Crash

\* The informer, the clock and the other clients: a change of the items wakes
\* the reconciler.
LEMMA WorldCharges ==
  ASSUME IInv, LoopInv, ChargeInv, Refresh \/ Tick \/ Owner \/ Stamp \/ UNCHANGED vars
  PROVE  LoopInv' /\ ChargeInv'
<1>1. /\ UNCHANGED <<pc, todo, branch, sent, delivered>> /\ (fresh' => fresh)
      /\ obj' = obj \/ pc = "idle"
  <2>1. CASE Refresh
    BY <2>1 DEF Refresh
  <2>2. CASE Tick \/ UNCHANGED vars
    BY <2>2 DEF Tick, vars, localVars
  <2>3. CASE Owner \/ Stamp
    BY <2>3 DEF Owner, SetValue, AddItem, DropItem, Annotate, Delete, Edit, Stamp
  <2> QED  BY <2>1, <2>2, <2>3
<1>2. LoopInv' /\ Charging(obj', pc', todo', sent')
  <2>1. CASE obj' = obj
    BY <1>1, <2>1 DEF LoopInv, Looping, ChargeInv, Charging, ChargedBut, Charged, HasBacklog, IsUndelivered,
       SpecItems, Listed, HasEvent, NeedsScale, SentSizes, HasEventWithValue, Newest
  <2>2. CASE pc = "idle"
    BY <1>1, <2>2 DEF LoopInv, Looping, Charging
  <2> QED  BY <1>1, <2>1, <2>2
<1>3. ASSUME \/ srv' = srv
             \/ srv'.events = srv.events /\ notify' = (notify \/ Wakes(srv, srv')),
             ~queued' /\ ~notify' => ~queued /\ ~notify
      PROVE  ChargeInv'
  <2>1. ASSUME pc' = "idle", ~queued', ~notify', srv'.exists, ~srv'.deleting,
               NEW i \in Listed(srv')
        PROVE  Charged(srv', i)
    <3>1. /\ srv'.events = srv.events /\ srv'.items = srv.items
          /\ srv'.exists = srv.exists /\ srv'.deleting = srv.deleting
      BY <1>3, <2>1 DEF Wakes
    <3>2. Charged(srv, i)
      BY <1>1, <1>3, <2>1, <3>1 DEF ChargeInv, Listed
    <3> QED  BY <3>1, <3>2 DEF Charged, HasEvent, NeedsScale, SentSizes, HasEventWithValue
  <2> QED  BY <1>2, <2>1 DEF ChargeInv, Charging, Listed, Charged, HasEvent, NeedsScale, SentSizes,
              HasEventWithValue
<1>4. CASE Refresh \/ Tick \/ UNCHANGED vars
  <2>1. srv' = srv /\ (~queued' /\ ~notify' => ~queued /\ ~notify)
    <3>1. CASE Refresh
      BY <3>1 DEF Refresh
    <3>2. CASE Tick \/ UNCHANGED vars
      BY <3>2 DEF Tick, vars, apiVars
    <3> QED  BY <1>4, <3>1, <3>2
  <2> QED  BY <1>2, <1>3, <2>1
<1>5. ASSUME NEW o, Stored(o), o.events = srv.events, UNCHANGED queued
      PROVE  ChargeInv'
  BY <1>3, <1>5 DEF Stored
<1>6. srv \in Object
  BY DEF IInv, TypeOK
<1>7. CASE SetValue \/ AddItem \/ DropItem
  <2>1. PICK i \in Instances, v \in Values \cup {Unlisted} : Edit([srv EXCEPT !.items[i] = v])
    BY <1>7 DEF SetValue, AddItem, DropItem, Listed
  <2>2. [srv EXCEPT !.items[i] = v].events = srv.events
    BY <1>6 DEF Object
  <2> QED  BY <1>2, <1>5, <2>1, <2>2 DEF Edit
<1>8. CASE Annotate
  <2>1. PICK mode : Edit([srv EXCEPT !.resend = mode])
    BY <1>8 DEF Annotate
  <2>2. [srv EXCEPT !.resend = mode].events = srv.events
    BY <1>6 DEF Object
  <2> QED  BY <1>2, <1>5, <2>1, <2>2 DEF Edit
<1>9. CASE Delete
  <2> DEFINE o == [srv EXCEPT !.deleting = TRUE, !.deletedAt = now, !.exists = srv.finalizer]
  <2>1. o.events = srv.events
    BY <1>6 DEF Object
  <2>2. Stored(o) /\ UNCHANGED queued
    BY <1>9 DEF Delete, Edit
  <2> HIDE DEF o
  <2> QED  BY <1>2, <1>5, <2>1, <2>2
<1>10. CASE Stamp
  <2>1. [srv EXCEPT !.stamped = TRUE].events = srv.events
    BY <1>6 DEF Object
  <2> QED  BY <1>2, <1>5, <1>10, <2>1 DEF Stamp
<1> QED  BY <1>2, <1>4, <1>7, <1>8, <1>9, <1>10 DEF Owner

-----------------------------------------------------------------------------
(* What is called sent was delivered: SentInv.                             *)

\* What is undelivered in o is so in p, and what p calls sent is called so in o.
Carries(o, p) ==
  Follows(p, o) /\ \A f \in p.events : f.state = "sent" => f \in o.events

\* p has the events of o, some of them in other states: none is called sent or
\* superseded that was not.
Relabels(o, p) ==
  /\ \A f \in p.events : \E e \in o.events : f.seq = e.seq /\ AsMessage(f) = AsMessage(e)
  /\ \A e \in o.events : \E f \in p.events : f.seq = e.seq /\ AsMessage(f) = AsMessage(e)
                                             /\ (IsUndelivered(e) => IsUndelivered(f))
  /\ \A f \in p.events : f.state = "sent" => f \in o.events
  /\ Numbered(o) => Numbered(p)

\* Events that tell the same have the same key.
LEMMA MessageKey ==
  ASSUME NEW e, NEW f, AsMessage(e) = AsMessage(f)
  PROVE  Key(e) = Key(f)
BY DEF AsMessage, Key

\* Following is transitive.
LEMMA FollowsTrans ==
  ASSUME NEW o, NEW p, NEW q, Follows(o, p), Follows(p, q)
  PROVE  Follows(o, q)
<1> SUFFICES ASSUME NEW e \in q.events, IsUndelivered(e)
             PROVE  \E f \in o.events : f.seq = e.seq /\ AsMessage(f) = AsMessage(e)
                                        /\ IsUndelivered(f)
  BY DEF Follows
<1>1. PICK g \in p.events : g.seq = e.seq /\ AsMessage(g) = AsMessage(e) /\ IsUndelivered(g)
  BY DEF Follows
<1> QED  BY <1>1 DEF Follows

\* Other fields of a copy are of no account.
LEMMA RelabelsSame ==
  ASSUME NEW o, NEW p, p.events = o.events
  PROVE  Relabels(o, p)
BY DEF Relabels, Numbered

\* One relabelling after another is one.
LEMMA RelabelsTrans ==
  ASSUME NEW o, NEW p, NEW q, Relabels(o, p), Relabels(p, q)
  PROVE  Relabels(o, q)
<1>1. ASSUME NEW f \in q.events
      PROVE  \E e \in o.events : f.seq = e.seq /\ AsMessage(f) = AsMessage(e)
  <2>1. PICK g \in p.events : f.seq = g.seq /\ AsMessage(f) = AsMessage(g)
    BY DEF Relabels
  <2> QED  BY <2>1 DEF Relabels
<1>2. ASSUME NEW e \in o.events
      PROVE  \E f \in q.events : f.seq = e.seq /\ AsMessage(f) = AsMessage(e)
                                 /\ (IsUndelivered(e) => IsUndelivered(f))
  <2>1. PICK g \in p.events : g.seq = e.seq /\ AsMessage(g) = AsMessage(e)
                              /\ (IsUndelivered(e) => IsUndelivered(g))
    BY DEF Relabels
  <2>2. PICK f \in q.events : f.seq = g.seq /\ AsMessage(f) = AsMessage(g)
                              /\ (IsUndelivered(g) => IsUndelivered(f))
    BY DEF Relabels
  <2> QED  BY <2>1, <2>2
<1>3. \A f \in q.events : f.state = "sent" => f \in o.events
  BY DEF Relabels
<1> QED  BY <1>1, <1>2, <1>3 DEF Relabels

\* A relabelling loses nothing.
LEMMA RelabelsCarries ==
  ASSUME NEW o, NEW p, Relabels(o, p)
  PROVE  Carries(o, p)
BY DEF Relabels, Carries, Follows

\* The outcome of a failed delivery.
LEMMA FailedRelabels ==
  ASSUME NEW o \in Object, NEW e \in o.events, IsUndelivered(e)
  PROVE  Relabels(o, SetState(o, e, "failed"))
<1> DEFINE f == [e EXCEPT !.state = "failed"]
           p == SetState(o, e, "failed")
<1>1. e \in Event
  BY DEF Object
<1>2. AsMessage(f) = AsMessage(e) /\ f.state = "failed" /\ f.seq = e.seq
  BY <1>1 DEF AsMessage, Event
<1>3. p.events = (o.events \ {e}) \cup {f}
  BY DEF SetState, Object
<1>4. IsUndelivered(f) /\ f.state # "sent"
  BY <1>2 DEF IsUndelivered
<1> HIDE DEF f, p
<1>5. Numbered(o) => Numbered(p)
  BY <1>2, <1>3 DEF Numbered
<1>6. \A g \in p.events : g \in o.events \/ g = f
  BY <1>3
<1>7. \A g \in o.events : g \in p.events \/ g = e
  BY <1>3
<1>8. f \in p.events
  BY <1>3
<1>9. \A g \in p.events : \E h \in o.events : g.seq = h.seq /\ AsMessage(g) = AsMessage(h)
  BY <1>2, <1>6
<1>10. \A g \in o.events : \E h \in p.events : h.seq = g.seq /\ AsMessage(h) = AsMessage(g)
                                              /\ (IsUndelivered(g) => IsUndelivered(h))
  BY <1>2, <1>4, <1>7, <1>8
<1> QED  BY <1>4, <1>5, <1>6, <1>9, <1>10 DEF Relabels, p

\* The resend annotation.
LEMMA ResendRelabels ==
  ASSUME NEW o \in Object
  PROVE  Relabels(o, MarkResend(o))
<1> DEFINE Mark(e) == IF e.state \in ResendStates(o.resend)
                      THEN [e EXCEPT !.state = "resend"] ELSE e
           p == MarkResend(o)
<1>1. o.events \subseteq Event
  BY DEF Object
<1>2. p.events = {Mark(e) : e \in o.events}
  BY DEF MarkResend, Object
<1>3. \A e \in o.events : /\ AsMessage(Mark(e)) = AsMessage(e) /\ Mark(e).seq = e.seq
                          /\ Mark(e) = e \/ Mark(e).state = "resend"
  BY <1>1 DEF Event, AsMessage
<1>4. \A e \in o.events : IsUndelivered(e) => IsUndelivered(Mark(e))
  BY <1>3 DEF IsUndelivered
<1>5. \A e \in o.events : Mark(e).state = "sent" => Mark(e) = e
  BY <1>3
<1> HIDE DEF Mark, p
<1>6. Numbered(o) => Numbered(p)
  BY <1>2, <1>3 DEF Numbered
<1> QED  BY <1>2, <1>3, <1>4, <1>5, <1>6 DEF Relabels, p

\* A copy with the current resource version.
LEMMA FreshRelabels ==
  ASSUME IInv, KeepInv, fresh
  PROVE  Relabels(srv, obj)
<1>1. srv \in Object
  BY DEF IInv, TypeOK
<1> QED  BY <1>1, RelabelsSame, FailedRelabels DEF KeepInv, CopyInv

\* Where e is still to be delivered, it will be marked, or one that is newer.
LEMMA FollowMarks ==
  ASSUME srv' \in Object, Numbered(srv'), NEW e, NEW f \in srv'.events,
         f.seq = e.seq, AsMessage(f) = AsMessage(e), IsUndelivered(f)
  PROVE  Marks(e)'
<1> SUFFICES ASSUME NEW g \in srv'.events, Key(g) = Key(e)
             PROVE  \/ AsMessage(g) = AsMessage(e)
                    \/ \E h \in srv'.events : Key(h) = Key(e) /\ g.seq < h.seq
                    \/ \E h \in srv'.events : Key(h) = Key(e) /\ h.seq < g.seq /\ IsUndelivered(h)
  BY DEF Marks, Matching
<1>1. f.seq \in Nat /\ g.seq \in Nat
  BY DEF Object, Event
<1>2. Key(f) = Key(e)
  BY MessageKey
<1>3. CASE g.seq = f.seq
  BY <1>3 DEF Numbered
<1> QED  BY <1>1, <1>2, <1>3

\* The stored object satisfies MarksInv as it is.
LEMMA StoredMarks ==
  ASSUME srv' \in Object, Numbered(srv')
  PROVE  \A e \in srv'.events : IsUndelivered(e) => Marks(e)'
BY FollowMarks

\* Relabelling changes nothing about what is marked.
LEMMA RelabelMarks ==
  ASSUME Relabels(srv, srv'), NEW e, Marks(e)
  PROVE  Marks(e)'
<1> SUFFICES ASSUME NEW g \in srv'.events, Key(g) = Key(e)
             PROVE  \/ AsMessage(g) = AsMessage(e)
                    \/ \E h \in srv'.events : Key(h) = Key(e) /\ g.seq < h.seq
                    \/ \E h \in srv'.events : Key(h) = Key(e) /\ h.seq < g.seq /\ IsUndelivered(h)
  BY DEF Marks, Matching
<1>1. PICK f \in srv.events : g.seq = f.seq /\ AsMessage(g) = AsMessage(f)
  BY DEF Relabels
<1>2. Key(f) = Key(e)
  BY <1>1, MessageKey
<1>3. \/ AsMessage(f) = AsMessage(e)
      \/ \E h \in srv.events : Key(h) = Key(e) /\ f.seq < h.seq
      \/ \E h \in srv.events : Key(h) = Key(e) /\ h.seq < f.seq /\ IsUndelivered(h)
  BY <1>2 DEF Marks, Matching
<1>4. ASSUME NEW h \in srv.events, Key(h) = Key(e)
      PROVE  \E k \in srv'.events : Key(k) = Key(e) /\ k.seq = h.seq
                                    /\ (IsUndelivered(h) => IsUndelivered(k))
  BY <1>4, MessageKey DEF Relabels
<1> QED  BY <1>1, <1>3, <1>4

\* No event is called sent for no reason if none is lost.
LEMMA CarriesSent ==
  ASSUME SentEventWasDelivered, Carries(srv, srv'), delivered \subseteq delivered'
  PROVE  SentEventWasDelivered'
<1> SUFFICES ASSUME NEW e \in srv'.events, e.state = "sent", AsMessage(e) \notin delivered
             PROVE  \E f \in srv'.events : Key(f) = Key(e) /\ f.seq < e.seq /\ IsUndelivered(f)
  BY DEF SentEventWasDelivered
<1>1. PICK h \in srv.events : Key(h) = Key(e) /\ h.seq < e.seq /\ IsUndelivered(h)
  BY DEF SentEventWasDelivered, Carries
<1>2. PICK f \in srv'.events : f.seq = h.seq /\ AsMessage(f) = AsMessage(h) /\ IsUndelivered(f)
  BY <1>1 DEF Carries, Follows
<1> QED  BY <1>1, <1>2, MessageKey

\* A step that writes the events of the stored object, some of them in other states.
LEMMA RelabelSends ==
  ASSUME SentInv, srv' \in Object, Relabels(srv, srv'), cache' = cache,
         obj' \in {srv', obj, cache}, delivered \subseteq delivered',
         pc' = "persist" => pc = "persist" /\ obj' = obj,
         pc' \in BeforeQueue /\ fresh' => pc \in BeforeQueue /\ fresh /\ obj = srv /\ obj' = srv'
  PROVE  SentInv'
<1>1. Numbered(srv') /\ Numbered(cache') /\ Numbered(obj')
  BY DEF SentInv, Relabels
<1>2. \A e \in cache.events \cup obj.events : IsUndelivered(e) => Marks(e)'
  BY RelabelMarks DEF SentInv, MarksInv
<1>3. \A e \in srv'.events : IsUndelivered(e) => Marks(e)'
  BY <1>1, StoredMarks
<1>4. MarksInv(cache)' /\ MarksInv(obj)'
  BY <1>2, <1>3 DEF MarksInv
<1>5. pc' \in BeforeQueue /\ fresh' => Follows(obj', cache')
  BY RelabelsCarries, FollowsTrans DEF Carries, SentInv
<1>6. pc' = "persist" => AsMessage(NextToSend(obj)) \in delivered' /\ obj' = obj
  BY DEF SentInv
<1>7. SentEventWasDelivered'
  BY RelabelsCarries, CarriesSent DEF SentInv
<1> QED  BY <1>1, <1>4, <1>5, <1>6, <1>7 DEF SentInv, NextToSend, InState, PendingDeletes, Oldest

\* A step that writes nothing.
LEMMA ReadSends ==
  ASSUME SentInv, srv \in Object, srv' = srv, cache' \in {cache, srv},
         obj' \in {obj, cache, srv} \/ Relabels(obj, obj'),
         \A e \in obj'.events : IsUndelivered(e) => Marks(e),
         delivered \subseteq delivered',
         pc' = "persist" => AsMessage(NextToSend(obj)) \in delivered' /\ obj' = obj,
         pc' \in BeforeQueue /\ fresh' =>
           \/ obj' = cache'
           \/ pc \in BeforeQueue /\ fresh /\ obj' = obj /\ cache' = cache
  PROVE  SentInv'
<1>1. Numbered(srv') /\ Numbered(cache') /\ Numbered(obj')
  BY DEF SentInv, Relabels
<1>2. Relabels(srv, srv')
  BY RelabelsSame
<1>3. \A e \in srv.events : IsUndelivered(e) => Marks(e)'
  BY <1>1, StoredMarks
<1>4. \A e \in cache.events \cup obj'.events : IsUndelivered(e) => Marks(e)'
  BY <1>2, RelabelMarks DEF SentInv, MarksInv
<1>5. MarksInv(cache)' /\ MarksInv(obj)'
  BY <1>3, <1>4 DEF MarksInv
<1>6. pc' \in BeforeQueue /\ fresh' => Follows(obj', cache')
  BY DEF SentInv, Follows
<1>7. SentEventWasDelivered'
  BY <1>2, RelabelsCarries, CarriesSent DEF SentInv
<1>8. pc' = "persist" => AsMessage(NextToSend(obj))' \in delivered'
  BY DEF NextToSend, InState, PendingDeletes, Oldest, AsMessage
<1> QED  BY <1>1, <1>5, <1>6, <1>7, <1>8 DEF SentInv

\* The copies know of no undelivered event that is not marked.
LEMMA StoredMarksNow ==
  ASSUME srv \in Object, Numbered(srv), NEW e \in srv.events, IsUndelivered(e)
  PROVE  Marks(e)
<1> SUFFICES ASSUME NEW g \in srv.events, Key(g) = Key(e)
             PROVE  \/ AsMessage(g) = AsMessage(e)
                    \/ \E h \in srv.events : Key(h) = Key(e) /\ g.seq < h.seq
                    \/ \E h \in srv.events : Key(h) = Key(e) /\ h.seq < g.seq /\ IsUndelivered(h)
  BY DEF Marks, Matching
<1>1. e.seq \in Nat /\ g.seq \in Nat
  BY DEF Object, Event
<1>2. CASE g.seq = e.seq
  BY <1>2 DEF Numbered
<1> QED  BY <1>1, <1>2

\* A write of the local copy with one event enqueued.
LEMMA EnqueueSends ==
  ASSUME IInv, KeepInv, SentInv, pc \in BeforeQueue, NEW type \in EventTypes,
         NEW i \in Instances, NEW v \in Values, NEW ts \in Nat,
         Update(EnqueueEvent(obj, type, i, v, ts)), srv' \in Object,
         delivered' = delivered, pc' # "persist"
  PROVE  SentInv'
<1> DEFINE n == NewEvent(obj, type, i, v, ts)
           o == EnqueueEvent(obj, type, i, v, ts)
<1>1. obj = srv /\ obj \in Object /\ fresh /\ Follows(obj, cache) /\ Numbered(obj)
  BY FreshIsStored DEF Update, BeforeQueue, SentInv, IInv, TypeOK
<1>2. srv' = o /\ obj' = o /\ cache' = cache
  BY DEF Update, Stored
<1>3. n.seq = obj.next /\ n.state = "pending"
  BY DEF NewEvent
<1>4. o.events = PruneEvents(obj.events \cup {n})
  BY <1>1 DEF EnqueueEvent, Object
<1>5. \A e \in obj.events : e.seq \in Nat /\ e.seq < obj.next /\ obj.next \in Nat
  BY <1>1 DEF IInv, Sane, Object, Event
<1> HIDE DEF n, o
<1>6. /\ o.events \subseteq obj.events \cup {n} /\ n.state # "sent"
      /\ \A e \in obj.events : IsUndelivered(e) => e \in o.events
  BY <1>3, <1>4 DEF PruneEvents, IsPruned, IsUndelivered
<1>7. Numbered(o)
  BY <1>1, <1>3, <1>5, <1>6 DEF Numbered
<1>8. Follows(o, obj) /\ Carries(obj, o)
  BY <1>6 DEF Follows, Carries
<1>9. Follows(o, cache)
  BY <1>1, <1>8, FollowsTrans
<1>10. \A e \in cache.events : IsUndelivered(e) => Marks(e)'
  BY <1>2, <1>7, <1>9, FollowMarks DEF Follows
<1>11. \A e \in o.events : IsUndelivered(e) => Marks(e)'
  BY <1>2, <1>7, StoredMarks
<1>12. SentEventWasDelivered'
  BY <1>1, <1>2, <1>8, CarriesSent DEF SentInv
<1> QED  BY <1>2, <1>7, <1>9, <1>10, <1>11, <1>12 DEF SentInv, MarksInv

\* Steps of Reconcile that write the local copy but enqueue nothing.
LEMMA WritesSend ==
  ASSUME IInv, KeepInv, SentInv, srv' \in Object,
         \/ SetSalesOrder \/ AddFinalizer \/ HandleResend \/ DropAnnotation
         \/ SaveFailed \/ RemoveFinalizer \/ FailStatus \/ UpdateStatus
  PROVE  SentInv'
<1>1. /\ obj \in Object /\ fresh /\ delivered' = delivered
  BY DEF IInv, TypeOK, SetSalesOrder, AddFinalizer, HandleResend, DropAnnotation, SaveFailed,
         RemoveFinalizer, FailStatus, UpdateStatus, Update, unchangedByWrite
<1>2. pc' # "persist"
  BY DEF SetSalesOrder, AddFinalizer, HandleResend, DropAnnotation, SaveFailed, RemoveFinalizer,
         FailStatus, UpdateStatus, EndReconcile, EnterFinalizer, EnterResend, EnterBranch,
         EnterItems, EnterRemoved, EnterDelete, EnterDeleteSent, EnterQueue, AfterQueue
<1>3. ASSUME NEW o, Stored(o), Relabels(obj, o), obj' \in {o, cache},
             pc' \notin BeforeQueue \/ (pc \in BeforeQueue /\ obj' = o)
      PROVE  SentInv'
  <2>1. srv' = o /\ cache' = cache
    BY <1>3 DEF Stored
  <2>2. Relabels(srv, srv')
    BY <1>1, <1>3, <2>1, FreshRelabels, RelabelsTrans
  <2>3. pc \in BeforeQueue => obj = srv
    BY <1>1, FreshIsStored DEF BeforeQueue
  <2> QED  BY <1>1, <1>2, <1>3, <2>1, <2>2, <2>3, RelabelSends
<1>4. ASSUME NEW o, Update(o), Relabels(obj, o), pc' \notin BeforeQueue \/ pc \in BeforeQueue
      PROVE  SentInv'
  BY <1>3, <1>4 DEF Update
<1>5. CASE SetSalesOrder
  <2>1. Relabels(obj, [obj EXCEPT !.order = TRUE])
    BY <1>1, RelabelsSame DEF Object
  <2> QED  BY <1>4, <1>5, <2>1 DEF SetSalesOrder, BeforeQueue
<1>6. CASE AddFinalizer
  <2>1. Relabels(obj, [obj EXCEPT !.finalizer = TRUE])
    BY <1>1, RelabelsSame DEF Object
  <2> QED  BY <1>4, <1>6, <2>1 DEF AddFinalizer, BeforeQueue
<1>7. CASE HandleResend
  BY <1>1, <1>4, <1>7, ResendRelabels DEF HandleResend, BeforeQueue
<1>8. CASE DropAnnotation
  <2>1. Relabels(obj, [obj EXCEPT !.resend = "none"])
    BY <1>1, RelabelsSame DEF Object
  <2> QED  BY <1>4, <1>8, <2>1 DEF DropAnnotation, BeforeQueue
<1>9. CASE SaveFailed
  BY <1>4, <1>9, RelabelsSame DEF SaveFailed, BeforeQueue
<1>10. CASE RemoveFinalizer
  <2> DEFINE o == [obj EXCEPT !.finalizer = FALSE, !.exists = FALSE]
  <2>1. o.events = obj.events
    BY <1>1 DEF Object
  <2>2. Update(o) /\ pc' = "status"
    BY <1>10 DEF RemoveFinalizer
  <2> HIDE DEF o
  <2> QED  BY <1>4, <2>1, <2>2, RelabelsSame DEF BeforeQueue
<1>11. CASE FailStatus \/ UpdateStatus
  <2> DEFINE o == SetConditions(obj)
  <2>1. o.events = obj.events
    BY <1>1 DEF Object, SetConditions
  <2>2. Stored(o) /\ pc' \notin BeforeQueue /\ obj' = cache
    BY <1>11 DEF FailStatus, UpdateStatus, EndReconcile, BeforeQueue
  <2> HIDE DEF o
  <2> QED  BY <1>3, <2>1, <2>2, RelabelsSame
<1> QED  BY <1>5, <1>6, <1>7, <1>8, <1>9, <1>10, <1>11

\* The loops enqueue events that are still to be delivered.
LEMMA LoopsSend ==
  ASSUME IInv, KeepInv, SentInv, srv' \in Object,
         CreateItem \/ ScaleItem \/ RemoveItem \/ DeleteItem
  PROVE  SentInv'
<1>1. /\ obj \in Object /\ Sane(obj, delivered) /\ now \in Nat /\ todo \subseteq Item
      /\ delivered' = delivered /\ pc \in BeforeQueue /\ srv \in Object
  BY DEF IInv, TypeOK, CreateItem, ScaleItem, RemoveItem, DeleteItem, unchangedByWrite, BeforeQueue
<1>2. pc' # "persist"
  BY DEF CreateItem, ScaleItem, RemoveItem, DeleteItem, EnterItems, EnterRemoved, EnterDelete,
         EnterDeleteSent, EnterQueue, AfterQueue
<1>3. PICK it \in todo :
        \/ UNCHANGED <<apiVars, obj, fresh>>
        \/ Update(EnqueueCreate(it)) \/ Update(ScaleTo(it))
        \/ Update(RemoveLeftover(it)) \/ Update(EnqueueDelete(it))
  BY DEF CreateItem, ScaleItem, RemoveItem, DeleteItem
<1>4. it \in Item /\ it.id \in Instances /\ it.value \in Values
  BY <1>1 DEF Item
<1>5. CASE UNCHANGED <<apiVars, obj, fresh>>
  BY <1>1, <1>2, <1>5, ReadSends DEF apiVars, SentInv, MarksInv
<1>6. CASE Update(EnqueueCreate(it))
  <2>1. CreationTime \in Nat
    BY <1>1 DEF CreationTime
  <2> QED  BY <1>1, <1>2, <1>4, <1>6, <2>1, EnqueueSends DEF EnqueueCreate, EventTypes
<1>7. CASE Update(ScaleTo(it))
  BY <1>1, <1>2, <1>4, <1>7, EnqueueSends DEF ScaleTo, EventTypes
<1>8. CASE Update(RemoveLeftover(it))
  BY <1>1, <1>2, <1>4, <1>8, EnqueueSends DEF RemoveLeftover, EventTypes
<1>9. CASE Update(EnqueueDelete(it))
  <2>1. LastObservedValue(obj, it) \in Values /\ obj.deletedAt \in Nat
    BY <1>1, <1>4, LastObservedValueType DEF Object
  <2> QED  BY <1>1, <1>2, <1>4, <1>9, <2>1, EnqueueSends DEF EnqueueDelete, EventTypes
<1> QED  BY <1>3, <1>5, <1>6, <1>7, <1>8, <1>9

\* What is recorded as sent is the delivered event itself, unless an older one of
\* its second is still to be delivered.
LEMMA PersistSends ==
  ASSUME IInv, KeepInv, SentInv, srv' \in Object, PersistSent
  PROVE  SentInv'
<1> DEFINE e == NextToSend(obj)
           S == Matching(cache, e)
           f == Newest(S)
           g == [f EXCEPT !.state = "sent"]
<1>1. /\ srv \in Object /\ cache = srv /\ Sane(srv, delivered) /\ S # {}
      /\ AsMessage(e) \in delivered /\ srv' = SetState(srv, f, "sent")
      /\ delivered' = delivered /\ cache' = cache /\ obj' = srv'
      /\ pc' \in {"status", "statusKeep", "finalize"} /\ Numbered(srv)
  BY DEF IInv, TypeOK, KeepInv, CopyInv, SentInv, PersistSent, MarkSent, Stored, AfterQueue
<1>2. S = {h \in srv.events : Key(h) = Key(e)}
  BY <1>1 DEF Matching
<1>3. Marks(e)
  BY <1>1, NextToSendIn DEF IInv, SendInv, PersistSent, SentInv, MarksInv, TypeOK
<1> HIDE DEF e, S
<1>4. f \in S /\ \A h \in S : h.seq <= f.seq
  BY <1>1, <1>2, NewestIs
<1> HIDE DEF f
<1>5. f \in srv.events /\ Key(f) = Key(e) /\ f \in Event
  BY <1>1, <1>2, <1>4 DEF Object
<1>6. AsMessage(g) = AsMessage(f) /\ g.state = "sent" /\ g.seq = f.seq
  BY <1>5 DEF AsMessage, Event
<1>7. srv'.events = (srv.events \ {f}) \cup {g}
  BY <1>1 DEF SetState, Object
<1> HIDE DEF g
<1>8. Key(g) = Key(f)
  BY <1>6, MessageKey
<1>9. \A h \in srv.events : h.seq \in Nat
  BY <1>1 DEF Object, Event
<1>10. Numbered(srv')
  BY <1>1, <1>5, <1>6, <1>7 DEF Numbered
<1>11. \A h \in srv'.events : IsUndelivered(h) => Marks(h)'
  BY <1>10, StoredMarks
<1>12. \A h \in srv.events : IsUndelivered(h) => Marks(h)'
  <2> SUFFICES ASSUME NEW m \in srv.events, m = f
               PROVE  Marks(m)'
    BY <1>7, <1>11
  <2>1. ASSUME NEW h \in srv'.events, Key(h) = Key(m)
        PROVE  AsMessage(h) = AsMessage(m) \/ h.seq < g.seq
    <3>1. CASE h = g
      BY <1>6, <3>1
    <3>2. CASE h # g
      <4>1. h \in S /\ h # f /\ h \in srv.events
        BY <1>2, <1>5, <1>7, <2>1, <3>2
      <4>2. h.seq <= f.seq /\ h.seq # f.seq
        BY <1>1, <1>4, <1>5, <4>1 DEF Numbered
      <4> QED  BY <1>5, <1>6, <1>9, <4>1, <4>2
    <3> QED  BY <3>1, <3>2
  <2>2. g \in srv'.events /\ Key(g) = Key(m)
    BY <1>7, <1>8
  <2> QED  BY <2>1, <2>2 DEF Marks, Matching
<1>13. SentEventWasDelivered'
  <2> SUFFICES ASSUME NEW s \in srv'.events, s.state = "sent", AsMessage(s) \notin delivered
               PROVE  \E h \in srv'.events : Key(h) = Key(s) /\ h.seq < s.seq /\ IsUndelivered(h)
    BY <1>1 DEF SentEventWasDelivered
  <2>1. CASE s = g
    <3>1. AsMessage(f) # AsMessage(e)
      BY <1>1, <1>6, <2>1
    <3>2. \A h \in S : ~(f.seq < h.seq)
      BY <1>2, <1>4, <1>5, <1>9
    <3>3. PICK h \in S : h.seq < f.seq /\ IsUndelivered(h)
      BY <1>1, <1>3, <1>4, <3>1, <3>2 DEF Marks, S
    <3>4. h \in srv'.events
      BY <1>2, <1>5, <1>7, <1>9, <3>3
    <3> QED  BY <1>2, <1>5, <1>6, <1>8, <2>1, <3>3, <3>4
  <2>2. CASE s # g
    <3>1. s \in srv.events
      BY <1>7, <2>2
    <3>2. PICK h \in srv.events : Key(h) = Key(s) /\ h.seq < s.seq /\ IsUndelivered(h)
      BY <3>1 DEF SentInv, SentEventWasDelivered
    <3>3. h # f
      <4>1. h = f => s \in S
        BY <1>2, <1>5, <3>1, <3>2
      <4> QED  BY <1>4, <1>5, <1>9, <3>1, <3>2, <4>1
    <3> QED  BY <1>7, <3>2, <3>3
  <2> QED  BY <2>1, <2>2
<1> QED  BY <1>1, <1>10, <1>11, <1>12, <1>13 DEF SentInv, MarksInv, BeforeQueue

\* What would be marked depends on what an event tells.
LEMMA MarksLike ==
  ASSUME NEW e, NEW f, AsMessage(e) = AsMessage(f), Marks(e)
  PROVE  Marks(f)
<1>1. Key(e) = Key(f)
  BY MessageKey
<1>2. Matching(srv, e) = Matching(srv, f)
  BY <1>1 DEF Matching
<1> QED  BY <1>2 DEF Marks

\* Steps of the reconciler that write nothing.
LEMMA ReadsSend ==
  ASSUME IInv, KeepInv, SentInv,
         \/ StartReconcile \/ SkipItem \/ WaitForStamp \/ SendEvent \/ SendFails
         \/ PersistNotFound \/ PersistConflict \/ WriteFails \/ Crash
  PROVE  SentInv'
<1>1. /\ srv' = srv /\ cache' = cache /\ srv \in Object
      /\ \A e \in cache.events \cup obj.events : IsUndelivered(e) => Marks(e)
  BY DEF StartReconcile, SkipItem, WaitForStamp, SendEvent, SendFails, PersistNotFound,
         PersistConflict, WriteFails, Crash, apiVars, SentInv, MarksInv, IInv, TypeOK
<1>2. CASE StartReconcile
  <2>1. delivered' = delivered /\ pc' # "persist"
    BY <1>2 DEF StartReconcile, EnterOrder, EnterFinalizer, EnterResend, EnterBranch,
       EnterItems, EnterRemoved, EnterDelete, EnterDeleteSent, EnterQueue, AfterQueue
  <2>2. obj' = cache \/ (obj' = obj /\ pc' = "idle")
    BY <1>2 DEF StartReconcile
  <2> QED  BY <1>1, <2>1, <2>2, ReadSends DEF BeforeQueue
<1>3. CASE SkipItem
  <2>1. /\ delivered' = delivered /\ pc' # "persist" /\ pc \in BeforeQueue
        /\ obj' = obj /\ (fresh' => fresh)
    BY <1>3 DEF SkipItem, EnterItems, EnterRemoved, EnterQueue, AfterQueue, BeforeQueue
  <2> QED  BY <1>1, <2>1, ReadSends
<1>4. CASE SendEvent
  <2>1. pc' = "persist" /\ obj' = obj /\ delivered' = delivered \cup {AsMessage(NextToSend(obj))}
    BY <1>4 DEF SendEvent, Received
  <2> QED  BY <1>1, <2>1, ReadSends DEF BeforeQueue
<1>5. CASE SendFails
  <2> DEFINE e == NextToSend(obj)
             f == [e EXCEPT !.state = "failed"]
  <2>1. pc' = "saveFailed" /\ delivered \subseteq delivered' /\ obj' = SetState(obj, e, "failed")
    BY <1>5 DEF SendFails, Received
  <2>2. obj \in Object /\ e \in obj.events /\ IsUndelivered(e)
    BY <1>5, NextToSendIn DEF IInv, SendInv, SendFails, TypeOK
  <2> HIDE DEF e
  <2>3. obj'.events = (obj.events \ {e}) \cup {f} /\ AsMessage(f) = AsMessage(e)
    BY <2>1, <2>2 DEF SetState, Object, Event, AsMessage
  <2>4. Relabels(obj, obj')
    BY <2>1, <2>2, FailedRelabels
  <2> HIDE DEF f
  <2>5. Marks(f)
    BY <1>1, <2>2, <2>3, MarksLike
  <2>6. \A h \in obj'.events : IsUndelivered(h) => Marks(h)
    BY <1>1, <2>3, <2>5
  <2> QED  BY <1>1, <2>1, <2>4, <2>6, ReadSends DEF BeforeQueue
<1>6. CASE PersistConflict
  <2>1. pc = "persist" /\ pc' \in {"persist", "failStatus"} /\ obj' = obj
        /\ delivered' = delivered
    BY <1>6 DEF PersistConflict
  <2> QED  BY <1>1, <2>1, ReadSends DEF BeforeQueue, SentInv
<1>7. CASE WaitForStamp \/ PersistNotFound \/ WriteFails \/ Crash
  <2>1. pc' \in {"idle", "failStatus"} /\ delivered' = delivered /\ obj' \in {obj, cache}
    BY <1>7 DEF WaitForStamp, PersistNotFound, WriteFails, Crash, EndReconcile
  <2> QED  BY <1>1, <2>1, ReadSends DEF BeforeQueue
<1> QED  BY <1>2, <1>3, <1>4, <1>5, <1>6, <1>7

\* The informer, the clock and the other clients.
LEMMA WorldSends ==
  ASSUME IInv, KeepInv, SentInv, srv' \in Object,
         Refresh \/ Tick \/ Owner \/ Stamp \/ UNCHANGED vars
  PROVE  SentInv'
<1>1. /\ srv \in Object /\ Numbered(srv)
      /\ \A e \in cache.events \cup obj.events : IsUndelivered(e) => Marks(e)
  BY DEF IInv, TypeOK, SentInv, MarksInv
<1>2. CASE Refresh
  <2>1. /\ srv' = srv /\ cache' = srv /\ pc' = pc /\ (fresh' => fresh) /\ delivered' = delivered
        /\ obj' = IF pc = "idle" THEN srv ELSE obj
    BY <1>2 DEF Refresh
  <2>2. pc' \in BeforeQueue /\ fresh' => obj' = cache'
    BY <2>1, FreshIsStored DEF BeforeQueue
  <2>3. \A e \in obj'.events : IsUndelivered(e) => Marks(e)
    BY <1>1, <2>1, StoredMarksNow
  <2> QED  BY <1>1, <2>1, <2>2, <2>3, ReadSends DEF SentInv
<1>3. CASE Tick \/ UNCHANGED vars
  <2>1. UNCHANGED <<srv, cache, pc, obj, delivered>> /\ (fresh' => fresh)
    BY <1>3 DEF Tick, vars, apiVars, localVars
  <2> QED  BY <1>1, <2>1, ReadSends DEF SentInv
<1>4. CASE Owner \/ Stamp
  <2>1. /\ UNCHANGED <<pc, obj, delivered>> /\ fresh' = FALSE
        /\ \E o : Stored(o) /\ o.events = srv.events
    <3>1. ASSUME NEW i \in Instances, NEW v
          PROVE  [srv EXCEPT !.items[i] = v].events = srv.events
      BY <1>1 DEF Object
    <3>2. ASSUME NEW mode PROVE [srv EXCEPT !.resend = mode].events = srv.events
      BY <1>1 DEF Object
    <3>3. [srv EXCEPT !.stamped = TRUE].events = srv.events
      BY <1>1 DEF Object
    <3>4. [srv EXCEPT !.deleting = TRUE, !.deletedAt = now,
                      !.exists = srv.finalizer].events = srv.events
      BY <1>1 DEF Object
    <3>5. CASE SetValue \/ AddItem \/ DropItem
      BY <3>1, <3>5 DEF SetValue, AddItem, DropItem, Edit, Listed
    <3>6. CASE Annotate
      BY <3>2, <3>6 DEF Annotate, Edit
    <3>7. CASE Delete
      BY <3>4, <3>7 DEF Delete, Edit
    <3>8. CASE Stamp
      BY <3>3, <3>8 DEF Stamp
    <3> QED  BY <1>4, <3>5, <3>6, <3>7, <3>8 DEF Owner
  <2>2. srv'.events = srv.events /\ cache' = cache
    BY <2>1 DEF Stored
  <2>3. Relabels(srv, srv')
    BY <2>2, RelabelsSame
  <2> QED  BY <2>1, <2>2, <2>3, RelabelSends
<1> QED  BY <1>2, <1>3, <1>4
-----------------------------------------------------------------------------
(* What is told, in every reachable state.                                 *)

\* What holds of the controller's messages, on top of IInv, KeepInv and OpenInv.
TellInv == LoopInv /\ ChargeInv /\ ClockInv /\ ChainInv /\ SentInv

\* A BillingService that was just created.
LEMMA InitTells == Init => TellInv
<1> SUFFICES ASSUME Init PROVE TellInv
  OBVIOUS
<1>1. /\ srv.events = {} /\ cache = srv /\ obj = srv /\ delivered = {} /\ srv.deletedAt = 0
      /\ now = 1 /\ pc = "idle" /\ queued /\ past = {} /\ ~fresh
  BY DEF Init, NewObject
<1>2. Told = {}
  BY <1>1 DEF Told, Messages
<1>3. SentInv
  BY <1>1 DEF SentInv, Numbered, MarksInv, BeforeQueue, SentEventWasDelivered
<1>4. LoopInv /\ ChargeInv
  BY <1>1 DEF LoopInv, Looping, ChargeInv, Charging
<1>5. ClockInv /\ ChainInv
  BY <1>1, <1>2 DEF ClockInv, ChainInv, PastInv, Sizes
<1> QED  BY <1>3, <1>4, <1>5 DEF TellInv

\* Every step preserves LoopInv and ChargeInv.
LEMMA NextCharges ==
  ASSUME IInv, KeepInv, LoopInv, ChargeInv, [Next]_vars
  PROVE  LoopInv' /\ ChargeInv'
<1>1. KeepInv'
  BY NextKeeps DEF StepKeeps
<1> QED  BY <1>1, WritesCharge, LoopsCharge, EndsCharge, WorldCharges DEF Next, Reconcile, Refused

\* Every step preserves SentInv.
LEMMA NextSends ==
  ASSUME IInv, KeepInv, SentInv, [Next]_vars
  PROVE  SentInv'
<1>1. srv' \in Object
  BY NextOK DEF IInv, TypeOK
<1> QED  BY <1>1, WritesSend, LoopsSend, PersistSends, ReadsSend, WorldSends
         DEF Next, Reconcile, Refused

\* TellInv holds in every reachable state.
LEMMA TellsHold == Spec => [](OpenInv /\ TellInv)
<1>1. Init => OpenInv /\ TellInv
  BY InitOpen, InitTells
<1>2. IInv /\ KeepInv /\ OpenInv /\ TellInv /\ [Next]_vars => OpenInv' /\ TellInv'
  <2> SUFFICES ASSUME IInv, KeepInv, OpenInv, TellInv, [Next]_vars
               PROVE  OpenInv' /\ TellInv'
    OBVIOUS
  <2>1. Tells /\ TypeOK /\ TypeOK'
    BY NextTells, NextOK DEF TellInv, IInv
  <2> QED  BY <2>1, NextOpen, NextCharges, NextClock, NextChain, NextSends DEF TellInv
<1> QED  BY <1>1, <1>2, InvariantsHold, PTL DEF Spec

\* An instance with a greatest time among its sizes.
LEMMA LastSize ==
  ASSUME TypeOK, ClockInv, NEW S \in SUBSET Told, S # {}
  PROVE  \E m \in S : \A n \in S : n.ts <= m.ts
<1> DEFINE T == {m.ts : m \in S}
<1>1. T \in SUBSET Nat /\ T # {} /\ now + 1 \in Nat /\ \A t \in T : t < now + 1
  BY ToldType DEF Message, ClockInv, TypeOK
<1>2. \E x \in T : \A y \in T : y <= x
  <2> HIDE DEF T
  <2> QED  BY <1>1, GreatestNat
<1> QED  BY <1>2
-----------------------------------------------------------------------------
(* The theorems. *)

\* The state of the controller and of every copy of the resource keeps its
\* shape, whatever fails.
THEOREM TypeCorrect == Spec => []TypeOK
<1>1. IInv => TypeOK
  BY DEF IInv
<1> QED  BY <1>1, InitOK, NextOK, PTL DEF Spec

\* An event whose status says "sent" was delivered to Odoo: for any number of
\* instances, values, crashes, conflicts, stale reads and lost answers
\* (delivery.go, processQueue and persistEventSent).
THEOREM SentOnlyIfDelivered == Spec => []SentWasDelivered
<1>1. IInv => SentWasDelivered
  BY DEF IInv, Sane, SentWasDelivered
<1> QED  BY <1>1, InitOK, NextOK, PTL DEF Spec

\* Nothing that is not delivered is ever lost: no pruning, no write based on
\* an older copy, no crash and no removal of the finalizer drops the message
\* of an undelivered event, for any number of instances and faults (events.go,
\* pruneEvents; delivery.go, persistEventSent; delete.go, handleDeletion).
THEOREM UndeliveredIsKept == Spec => BacklogNeverDropped
<1>1. IInv /\ KeepInv /\ [Next]_vars =>
        [\A e \in srv.events : e.state \notin {"sent", "superseded"} =>
           srv'.exists /\ \E f \in srv'.events : AsMessage(f) = AsMessage(e)]_vars
  <2> SUFFICES ASSUME IInv, KeepInv, [Next]_vars, ~UNCHANGED vars,
                      NEW e \in srv.events, IsUndelivered(e)
               PROVE  srv'.exists /\ \E f \in srv'.events : AsMessage(f) = AsMessage(e)
    BY DEF IsUndelivered
  <2>1. srv' = srv \/ Kept(srv, srv')
    BY NextKeeps DEF StepKeeps
  <2>2. CASE srv' = srv
    BY <2>2 DEF KeepInv, Guarded, HasBacklog, IsUndelivered
  <2>3. CASE Kept(srv, srv')
    BY <2>3 DEF Kept
  <2> QED  BY <2>1, <2>2, <2>3
<1> QED  BY <1>1, InvariantsHold, PTL DEF Spec, BacklogNeverDropped

\* When nothing is scheduled any more, every event is delivered, the resend
\* annotation is dropped and the conditions say so: no wake-up is lost, for
\* any interleaving of edits, conflicts, crashes and late informer events
\* (billing_controller.go, Reconcile and the watch predicates).
THEOREM QuietIsSynced == Spec => []QuietMeansSynced
<1>1. KeepInv => QuietMeansSynced
  BY DEF KeepInv, QuietMeansSynced, Quiet, Settled, HasBacklog, IsUndelivered, Undelivered, InState
<1> QED  BY <1>1, InvariantsHold, PTL

\* When nothing is scheduled any more, Odoo was told of the end of every
\* instance it was ever told of and the spec no longer lists, even where
\* pruning has removed the instance's older events (remove.go,
\* handleRemovedItems; events.go, pruneEvents).
THEOREM QuietIsEnded == Spec => []QuietMeansEnded
<1>1. IInv /\ KeepInv => QuietMeansEnded
  <2> SUFFICES ASSUME IInv, KeepInv, Quiet, srv.exists, NEW m \in delivered,
                      m.id \notin Listed(srv)
               PROVE  \E d \in delivered : d.type = "delete" /\ d.id = m.id
    BY DEF QuietMeansEnded, EndTold
  <2>1. Settled(srv) /\ Guarded(srv) /\ Sane(srv, delivered)
    BY DEF KeepInv, Quiet, IInv
  <2>2. PICK e \in srv.events : e.id = m.id
    BY DEF KeepInv, HistoryInv, InstancesOf
  <2>3. \A f \in srv.events : f.state = "sent"
    BY <2>1 DEF Settled, HasBacklog, IsUndelivered, Guarded
  <2>4. HasEvent(srv, "delete", m.id)
    <3>1. CASE e.type = "delete"
      BY <2>2, <3>1 DEF HasEvent
    <3>2. CASE e.type # "delete"
      <4>1. e \in SentSizes(srv, m.id) /\ m.id \in Instances
        BY <2>1, <2>2, <2>3, <3>2 DEF SentSizes, Sane, Object, Event, EventTypes
      <4> QED  BY <2>1, <4>1 DEF Settled, Ended
    <3> QED  BY <3>1, <3>2
  <2>5. PICK d \in srv.events : d.type = "delete" /\ d.id = m.id
    BY <2>4 DEF HasEvent
  <2>6. PICK n \in delivered : Key(n) = Key(d)
    BY <2>1, <2>3, <2>5 DEF Sane
  <2> QED  BY <2>5, <2>6 DEF Key
<1> QED  BY <1>1, InvariantsHold, PTL

\* Until the resource is deleted, Odoo is told of the end of dropped instances only,
\* whatever is stale or crashes: an item that was listed all along is billed on
\* (remove.go, handleRemovedItems).
THEOREM EndedIsDropped == Spec => []EndedWasDropped
<1>1. OpenInv => EndedWasDropped
  BY DEF OpenInv, EndedWasDropped, EndsDropped
<1> QED  BY <1>1, TellsHold, PTL

\* A resource that is gone was ended at Odoo: the finalizer is removed only after
\* Odoo was told of the end of every instance it was ever told of, whatever
\* conflicts, crashes, prunings and changes of the spec came before.  What escapes
\* is an instance that the spec dropped while all of its sizes were still to be
\* sent, or sent again (delete.go, handleDeletion; events.go, pruneEvents).
THEOREM GoneIsEnded == Spec => []GoneMeansDeleted
<1>1. KeepInv /\ GoneInv => GoneMeansDeleted
  BY DEF KeepInv, HistoryInv, GoneInv, GoneMeansDeleted, Charges
<1>2. IInv /\ KeepInv /\ OpenInv /\ GoneInv /\ [Next]_vars => GoneInv'
  BY NextGone
<1>3. Spec => [](OpenInv /\ GoneInv)
  BY <1>2, InvariantsHold, TellsHold, InitGone, PTL DEF Spec
<1> QED  BY <1>1, <1>3, InvariantsHold, PTL

\* The very event whose status says "sent" was delivered, value included, also
\* when several events of an instance and type have one second: the newest of them
\* may be marked for an older one, but then an older one is still to be delivered
\* (delivery.go, processQueue and persistEventSent).
THEOREM SentEventIsDelivered == Spec => []SentEventWasDelivered
<1>1. TellInv => SentEventWasDelivered
  BY DEF TellInv, SentInv
<1> QED  BY <1>1, TellsHold, PTL

\* Odoo bills every item that was never dropped at the value of the spec once nothing
\* is scheduled any more, unless the spec had left that value and come back to it:
\* whatever is stale, lost, repeated or crashes, the last size told is the last one
\* listed (create.go, handleItemCreation; scale.go, handleItemScaling).
THEOREM QuietIsBilled == Spec => []QuietMeansBilled
<1>1. IInv /\ KeepInv /\ TellInv => QuietMeansBilled
  <2> SUFFICES ASSUME IInv, KeepInv, TellInv, Quiet, srv.exists, ~srv.deleting,
                      NEW i \in Listed(srv) \ dropped
               PROVE  Returned(i) \/ srv.items[i] \in Billed(i)
    BY DEF QuietMeansBilled
  <2> DEFINE w == srv.items[i]
             S == {m \in delivered : m.id = i /\ m.type # "delete"}
  <2>1. /\ Charged(srv, i) /\ i \in Instances /\ w \in Values
        /\ \A e \in srv.events : e.state = "sent"
    BY DEF TellInv, ChargeInv, Quiet, KeepInv, Settled, HasBacklog, IsUndelivered, Guarded, Listed,
           IInv, TypeOK, Object
  \* An event of the listed value was sent ...
  <2>2. \E e \in srv.events : e.id = i /\ e.type # "delete" /\ e.value = w
    <3>1. PICK c \in srv.events : c.type = "create" /\ c.id = i
      BY <2>1 DEF Charged, HasEvent
    <3>2. c \in SentSizes(srv, i)
      BY <2>1, <3>1 DEF SentSizes
    <3>3. \/ Newest(SentSizes(srv, i)).value = w
          \/ HasEventWithValue(srv, "scale", i, w)
      BY <2>1, <3>2 DEF Charged, NeedsScale
    <3>4. Newest(SentSizes(srv, i)) \in SentSizes(srv, i)
      BY <3>2, NewestIn DEF SentSizes, IInv
    <3> QED  BY <3>3, <3>4 DEF SentSizes, HasEventWithValue
  \* ... so Odoo has its message: no other one of its second is to be delivered.
  <2>3. \E m \in S : m.value = w
    <3>1. PICK e \in srv.events : e.id = i /\ e.type # "delete" /\ e.value = w
      BY <2>2
    <3>2. AsMessage(e) \in delivered
      BY <2>1, <3>1 DEF TellInv, SentInv, SentEventWasDelivered, IsUndelivered
    <3>3. AsMessage(e).id = i /\ AsMessage(e).type # "delete" /\ AsMessage(e).value = w
      BY <3>1 DEF AsMessage
    <3> QED  BY <3>2, <3>3
  <2>4. PICK m \in S : m.value = w
    BY <2>3
  \* If the last size has another value, the present one came before it.
  <2>5. PICK k \in S : \A n \in S : n.ts <= k.ts
    BY <2>4, LastSize DEF Told, IInv, TellInv
  <2>6. CASE k.value = w
    BY <2>5, <2>6 DEF Billed
  <2>7. CASE k.value # w /\ m.ts < k.ts
    <3>1. m \in Sizes /\ k \in Sizes /\ m.id = i /\ k.id = i
      BY DEF Sizes, Told
    <3>2. AtMost(i, w, k.value)
      BY <2>4, <2>7, <3>1 DEF TellInv, ChainInv
    <3>3. <<i, w, k.value>> \in past
      BY <2>7, <3>2 DEF AtMost
    <3>4. <<i, w, w>> \in past
      BY <3>3 DEF TellInv, ChainInv, PastInv
    <3> QED  BY <3>4 DEF Returned
  <2>8. CASE ~(m.ts < k.ts)
    <3>1. m.ts \in Nat /\ \A n \in S : n.ts \in Nat
      BY ToldType DEF Told, IInv, Message
    <3>2. \A n \in S : n.ts <= m.ts
      BY <2>5, <2>8, <3>1
    <3> QED  BY <2>4, <3>2 DEF Billed
  <2> QED  BY <2>6, <2>7, <2>8
<1> QED  BY <1>1, TellsHold, InvariantsHold, PTL
============================================================================
