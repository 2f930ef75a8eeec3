----------------------------- MODULE TcpGateway -----------------------------
(***************************************************************************)
(* TCP ports for service instances: the mutating webhook that allocates a  *)
(* port and a gateway when an XListenerSet is created                      *)
(* (pkg/controller/webhooks/tcpgateway), the composition function that     *)
(* reads the result back (functions/common/tcproute), and                  *)
(* provider-kubernetes between the two.                                    *)
(*                                                                         *)
(* A port is reserved by creating a Lease; the XListenerSet is stored some *)
(* time later, or never.  Requests run concurrently, and a lease whose     *)
(* holder does not exist is taken over once it is old enough.              *)
(***************************************************************************)
EXTENDS Naturals, FiniteSets

CONSTANTS
  Services,      \* service instances, each with one XListenerSet
  Requests,      \* bound: admission requests in progress
  Uids,          \* bound: UIDs of leases somebody knows of
  NumPorts,      \* size of the port range
  NumGateways,   \* gateways, in the order of the configuration
  Capacity,      \* listeners per gateway
  MaxRequest,    \* ticks after which a request is given up
  Grace,         \* ticks after which a lease without a holder is stale
  None           \* no object

ASSUME TcpGatewayAssumption ==
  /\ {NumPorts, NumGateways, Capacity, MaxRequest, Grace} \subseteq Nat \ {0}
  /\ MaxRequest < Grace
  /\ IsFiniteSet(Services)

VARIABLES
  xls,       \* stored XListenerSets
  desired,   \* what the composition wants to be applied
  observed,  \* what the composition was last told of the XListenerSet
  lease,     \* the Lease of every port
  req        \* admission requests

vars == <<xls, desired, observed, lease, req>>

Ports == 1..NumPorts
Gateways == 1..NumGateways

\* spec.listeners[0].port and spec.parentRef.
Spec0 == [port: 0..NumPorts, gw: Gateways]
\* ann is the allocated-port annotation, applied the last applied configuration.
XListenerSet == [port: 0..NumPorts, gw: Gateways, ann: 0..NumPorts, applied: Spec0]
\* ObservedState: the gateway and the annotation.
Observed == [gw: Gateways, ann: 0..NumPorts]
Lease == [holder: Services, uid: Uids, age: 0..Grace]
\* used is the result of the scan, read the lease found in the way.
Request == [svc: Services, pc: {"list", "lease", "get", "holder", "delete", "again",
                                "persist", "exhausted"},
            want: Spec0, gw: Gateways, port: 0..NumPorts + 1, used: SUBSET Ports,
            read: Lease \cup {None}, age: 0..MaxRequest]

ASSUME NoneAssumption ==
  None \notin XListenerSet \cup Spec0 \cup Observed \cup Lease \cup Request

Stored == {s \in Services : xls[s] # None}
Active == {r \in Requests : req[r] # None}
-----------------------------------------------------------------------------
(* What the webhook computes from the list of XListenerSets. *)

UsedPorts == {xls[s].port : s \in Stored} \ {0}

ListenerCount(g) == Cardinality({s \in Stored : xls[s].gw = g})

HasRoom(g) == ListenerCount(g) + 1 <= Capacity

\* Fewest listeners first, then the order of the configuration.
Best(gws) == CHOOSE g \in gws : \A h \in gws :
               \/ ListenerCount(g) < ListenerCount(h)
               \/ ListenerCount(g) = ListenerCount(h) /\ g <= h

SelectGateway(g) == IF HasRoom(g) THEN g ELSE Best({h \in Gateways : HasRoom(h)})

\* The first port from p on that the scan did not find in use.
NextPort(p, used) ==
  CHOOSE q \in p..NumPorts + 1 : q \notin used /\ \A h \in p..(q - 1) : h \in used
-----------------------------------------------------------------------------
(* Handle and AllocatePort. *)

SetReq(r, q) == req' = [req EXCEPT ![r] = q]
EndReq(r) == SetReq(r, None)

\* A fresh UID: one that no lease has and no request remembers.
FreshUids == Uids \ ({lease[p].uid : p \in {p \in Ports : lease[p] # None}}
                       \cup {req[r].read.uid : r \in {r \in Active : req[r].read # None}})

TryPort(q, p) ==
  LET n == NextPort(p, q.used)
  IN [q EXCEPT !.port = n, !.read = None, !.pc = IF n > NumPorts THEN "exhausted" ELSE "lease"]

\* List, SelectGateway, and the port unless one is requested.
Handle(r) ==
  /\ req[r] # None /\ req[r].pc = "list"
  /\ LET q == req[r]
         placed == [q EXCEPT !.gw = SelectGateway(q.want.gw), !.used = UsedPorts]
     IN IF \E g \in Gateways : HasRoom(g)
        THEN SetReq(r, IF q.want.port = 0 THEN TryPort(placed, 1)
                       ELSE [placed EXCEPT !.pc = "persist", !.used = {}])
        ELSE EndReq(r)
  /\ UNCHANGED <<xls, desired, observed, lease>>

\* Create the lease of the port, at first or after a stale one was deleted.
\* AcquireTime was taken when the allocation began.
CreateLease(r) ==
  /\ req[r] # None /\ req[r].pc \in {"lease", "again"}
  /\ LET q == req[r]
     IN IF lease[q.port] = None
        THEN /\ \E u \in FreshUids :
                  lease' = [lease EXCEPT ![q.port] = [holder |-> q.svc, uid |-> u, age |-> q.age]]
             /\ SetReq(r, [q EXCEPT !.pc = "persist", !.read = None, !.used = {}])
        ELSE /\ SetReq(r, IF q.pc = "lease" THEN [q EXCEPT !.pc = "get"]
                          ELSE TryPort(q, q.port + 1))
             /\ UNCHANGED lease
  /\ UNCHANGED <<xls, desired, observed>>

\* tryReclaimStaleLease reads the lease from the cache, which may not have it.
GetLease(r) ==
  /\ req[r] # None /\ req[r].pc = "get"
  /\ LET q == req[r]
     IN \/ lease[q.port] # None /\ SetReq(r, [q EXCEPT !.pc = "holder", !.read = lease[q.port]])
        \/ SetReq(r, TryPort(q, q.port + 1))
  /\ UNCHANGED <<xls, desired, observed, lease>>

\* Mutant: the age of the lease is not looked at.
IsStale_AnyAge(l) == xls[l.holder] = None

\* The holder does not exist and the lease is old.
IsStale(l) == xls[l.holder] = None /\ l.age >= Grace

GetHolder(r) ==
  /\ req[r] # None /\ req[r].pc = "holder"
  /\ SetReq(r, IF IsStale(req[r].read) THEN [req[r] EXCEPT !.pc = "delete"]
               ELSE TryPort(req[r], req[r].port + 1))
  /\ UNCHANGED <<xls, desired, observed, lease>>

\* Mutant: the lease is deleted by its name.
MayDeleteLease_ByName(p, l) == lease[p] # None

\* Preconditions.UID
MayDeleteLease(p, l) == lease[p] # None /\ lease[p].uid = l.uid

DeleteLease(r) ==
  /\ req[r] # None /\ req[r].pc = "delete"
  /\ LET q == req[r]
     IN IF MayDeleteLease(q.port, q.read)
        THEN /\ lease' = [lease EXCEPT ![q.port] = None]
             /\ SetReq(r, [q EXCEPT !.pc = "again", !.read = None])
        ELSE SetReq(r, TryPort(q, q.port + 1)) /\ UNCHANGED lease
  /\ UNCHANGED <<xls, desired, observed>>

\* The patched object is stored: the port goes into the annotation, the
\* listener keeps the port that was requested.
Persist(r) ==
  /\ req[r] # None /\ req[r].pc = "persist"
  /\ LET q == req[r]
     IN /\ xls[q.svc] = None
        /\ xls' = [xls EXCEPT ![q.svc] =
             [port |-> q.want.port, gw |-> q.gw, applied |-> q.want,
              ann |-> IF q.want.port = 0 THEN q.port ELSE 0]]
  /\ EndReq(r)
  /\ UNCHANGED <<desired, observed, lease>>

\* The request ends without an object: denied, timed out, refused by another
\* webhook, a dry run, or the name is taken.
Fail(r) ==
  /\ req[r] # None
  /\ EndReq(r)
  /\ UNCHANGED <<xls, desired, observed, lease>>
-----------------------------------------------------------------------------
(* The composition function and provider-kubernetes. *)

\* Mutant: the gateway the webhook chose is not read back.
ReadBack_DefaultGateway(s) ==
  IF observed[s] = None THEN [port |-> 0, gw |-> 1]
  ELSE [port |-> observed[s].ann, gw |-> 1]

\* What the manifest asks for before anything was observed.
Default == [port |-> 0, gw |-> 1]

\* AddTCPRoute: the observed gateway and port, or the defaults.
ReadBack(s) ==
  IF observed[s] = None THEN Default
  ELSE [port |-> observed[s].ann, gw |-> observed[s].gw]

\* A new service does not share its name with one that is not gone yet.
IsNew(s) == desired[s] = None /\ xls[s] = None /\ \A r \in Active : req[r].svc # s

Compose(s) ==
  /\ desired[s] # None \/ IsNew(s)
  /\ desired' = [desired EXCEPT ![s] = ReadBack(s)]
  /\ UNCHANGED <<xls, observed, lease, req>>

\* provider-kubernetes reports what is stored.
Observe(s) ==
  /\ desired[s] # None /\ xls[s] # None
  /\ observed' = [observed EXCEPT ![s] = [gw |-> xls[s].gw, ann |-> xls[s].ann]]
  /\ UNCHANGED <<xls, desired, lease, req>>

\* A request for an object that is not there; a request that timed out may
\* still be in progress.
BeginCreate(r, s) ==
  /\ req[r] = None /\ desired[s] # None /\ xls[s] = None
  /\ SetReq(r, [svc |-> s, pc |-> "list", want |-> desired[s], gw |-> desired[s].gw,
                port |-> 0, used |-> {}, read |-> None, age |-> 0])
  /\ UNCHANGED <<xls, desired, observed, lease>>

\* An update when the manifest differs from the last one applied.
Apply(s) ==
  /\ desired[s] # None /\ xls[s] # None
  /\ xls[s].applied # desired[s]
  /\ xls' = [xls EXCEPT ![s] = [port |-> desired[s].port, gw |-> desired[s].gw,
                                ann |-> xls[s].ann, applied |-> desired[s]]]
  /\ UNCHANGED <<desired, observed, lease, req>>

\* The service is deleted, then its XListenerSet.
RemoveService(s) ==
  /\ desired[s] # None
  /\ desired' = [desired EXCEPT ![s] = None]
  /\ observed' = [observed EXCEPT ![s] = None]
  /\ UNCHANGED <<xls, lease, req>>
DeleteXls(s) ==
  /\ desired[s] = None /\ xls[s] # None
  /\ xls' = [xls EXCEPT ![s] = None]
  /\ UNCHANGED <<desired, observed, lease, req>>

\* Somebody deletes an XListenerSet that is still wanted.
Lose(s) ==
  /\ desired[s] # None /\ xls[s] # None
  /\ xls' = [xls EXCEPT ![s] = None]
  /\ UNCHANGED <<desired, observed, lease, req>>

Older(l) == [l EXCEPT !.age = IF @ < Grace THEN @ + 1 ELSE @]

\* Time passes; no request outlives MaxRequest.
Tick ==
  /\ \A r \in Active : req[r].age < MaxRequest
  /\ lease' = [p \in Ports |-> IF lease[p] = None THEN None ELSE Older(lease[p])]
  /\ req' = [r \in Requests |->
       IF req[r] = None THEN None
       ELSE [req[r] EXCEPT !.age = @ + 1, !.read = IF @ = None THEN None ELSE Older(@)]]
  /\ UNCHANGED <<xls, desired, observed>>
-----------------------------------------------------------------------------
Init ==
  /\ xls = [s \in Services |-> None]
  /\ desired = [s \in Services |-> None]
  /\ observed = [s \in Services |-> None]
  /\ lease = [p \in Ports |-> None]
  /\ req = [r \in Requests |-> None]

Webhook(r) ==
  \/ Handle(r) \/ CreateLease(r) \/ GetLease(r) \/ GetHolder(r) \/ DeleteLease(r)
  \/ Persist(r) \/ Fail(r)
Owner(s) ==
  Compose(s) \/ Observe(s) \/ Apply(s) \/ RemoveService(s) \/ DeleteXls(s)

Next ==
  \/ \E r \in Requests : Webhook(r) \/ \E s \in Services : BeginCreate(r, s)
  \/ \E s \in Services : Owner(s)
  \/ Tick

Spec == Init /\ [][Next]_vars

\* ... in a cluster where XListenerSets are deleted out of band.
LossySpec == Init /\ [][Next \/ \E s \in Services : Lose(s)]_vars
-----------------------------------------------------------------------------
(* Properties. *)

TypeOK ==
  /\ xls \in [Services -> XListenerSet \cup {None}]
  /\ desired \in [Services -> Spec0 \cup {None}]
  /\ observed \in [Services -> Observed \cup {None}]
  /\ lease \in [Ports -> Lease \cup {None}]
  /\ req \in [Requests -> Request \cup {None}]

\* The ports a stored XListenerSet was given or listens on.
PortsOf(s) == {xls[s].port, xls[s].ann} \ {0}

\* No two services share a port, however requests, retries and takeovers of
\* stale leases interleave.
UniquePorts ==
  \A s, t \in Stored : s # t => PortsOf(s) \cap PortsOf(t) = {}

\* A stored XListenerSet keeps the lease of its port: nobody takes it over.
PortIsLeased ==
  \A s \in Stored : \A p \in PortsOf(s) : lease[p] # None /\ lease[p].holder = s

\* Once it is stored, an XListenerSet stays at its gateway and keeps its port:
\* reading back late never moves it.
NeverMoved ==
  [][\A s \in Services : xls[s] # None /\ xls'[s] # None =>
       /\ xls'[s].gw = xls[s].gw /\ xls'[s].ann = xls[s].ann
       /\ xls[s].port # 0 => xls'[s].port = xls[s].port]_vars

\* What the users of a service see of its XListenerSet: the port it was given
\* and its gateway.
PlaceOf(s) ==
  IF xls[s] = None THEN None
  ELSE [port |-> IF xls[s].ann # 0 THEN xls[s].ann ELSE xls[s].port, gw |-> xls[s].gw]

places == [s \in Services |-> PlaceOf(s)]

Allocation == INSTANCE PortAllocation WITH place <- places

\* The webhook, its leases and the readback together implement the abstract
\* allocation: a stored XListenerSet takes a port nobody has, and port and
\* gateway stay until it is deleted.
ImplementsAllocation == Allocation!Spec

-----------------------------------------------------------------------------
(* The inductive invariant. *)

\* What a request can rely on.  A lease with the UID it has read is the one it
\* has read, and stays without a user once it was found stale; the lease of the
\* port it is going to store is its own and too young to be taken over.
RequestInv(q) ==
  /\ q.want = Default
  /\ q.pc \notin {"list", "exhausted"} => q.port \in Ports
  /\ q.read # None <=> q.pc \in {"holder", "delete"}
  /\ q.read # None /\ lease[q.port] # None /\ lease[q.port].uid = q.read.uid
       => lease[q.port] = q.read
  /\ q.pc = "delete" =>
       /\ q.read.age >= Grace
       /\ lease[q.port] = q.read => \A s \in Stored : xls[s].ann # q.port
  /\ q.pc = "persist" =>
       /\ lease[q.port] # None
       /\ lease[q.port].holder = q.svc /\ lease[q.port].age = q.age

\* A stored XListenerSet holds the lease of its port, and what was read back
\* from it is what is stored.
StoredInv(s) ==
  LET x == xls[s]
      place == [port |-> x.ann, gw |-> x.gw]
  IN /\ x.ann \in Ports /\ x.port \in {0, x.ann}
     /\ lease[x.ann] # None /\ lease[x.ann].holder = s
     /\ observed[s] # None => observed[s] = [gw |-> x.gw, ann |-> x.ann]
     /\ desired[s] # None => \/ desired[s] = Default /\ x.applied = Default
                             \/ desired[s] = place /\ observed[s] # None

\* Nothing was read back of what is not stored.
MissingInv(s) ==
  /\ desired[s] = None \/ xls[s] = None => observed[s] = None
  /\ desired[s] # None /\ xls[s] = None => desired[s] = Default

IInv ==
  /\ TypeOK
  /\ \A r \in Active : RequestInv(req[r])
  /\ \A s \in Stored : StoredInv(s)
  /\ \A s \in Services : MissingInv(s)
-----------------------------------------------------------------------------
\* "capacity is the maximum number of listeners per gateway."
CapacityRespected == \A g \in Gateways : ListenerCount(g) <= Capacity

\* "port range exhausted: all ports in %d-%d are in use": by a stored
\* XListenerSet or by a request in progress.
ExhaustedMeansUsed ==
  \A r \in Active : req[r].pc = "exhausted" =>
    \A p \in Ports : \/ \E s \in Stored : p \in PortsOf(s)
                     \/ \E q \in Active : req[q].pc = "persist" /\ req[q].port = p
                     \/ lease[p] = None
                     \/ lease[p].age < Grace
=============================================================================
