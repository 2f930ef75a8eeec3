-------------------------- MODULE TcpGatewayProofs --------------------------
(***************************************************************************)
(* Proofs about the TCP gateway of module TcpGateway, for any number of    *)
(* services, requests, ports and gateways and any capacity and grace       *)
(* period: its invariants, and that it implements PortAllocation.          *)
(***************************************************************************)
EXTENDS TcpGateway, WellFoundedInduction, FiniteSetTheorems, TLAPS

\* Every non-empty set of naturals has a least element.
LEMMA LeastNat ==
  ASSUME NEW T \in SUBSET Nat, T # {}
  PROVE  \E x \in T : \A y \in T : x <= y
<1>1. \E x \in T : \A y \in T : ~ (<<y, x>> \in OpToRel(<, Nat))
  BY NatLessThanWellFounded, WFMin
<1>2. PICK x \in T : \A y \in T : ~ (<<y, x>> \in OpToRel(<, Nat))
  BY <1>1
<1>3. \A y \in T : ~(y < x)
  BY <1>2 DEF OpToRel
<1> QED  BY <1>3
-----------------------------------------------------------------------------
(* What the webhook computes. *)

\* There is a next port: the end of the range when all of it is in use.
LEMMA NextPortIn ==
  ASSUME NEW used \in SUBSET Ports, NEW p \in 1..NumPorts + 1
  PROVE  NextPort(p, used) \in p..NumPorts + 1
<1> DEFINE T == {q \in p..NumPorts + 1 : q \notin used}
<1>1. NumPorts \in Nat
  BY TcpGatewayAssumption
<1>2. NumPorts + 1 \in T
  BY <1>1 DEF Ports
<1>3. T \in SUBSET Nat
  BY <1>1
<1>4. PICK q \in T : \A t \in T : q <= t
  BY <1>2, <1>3, LeastNat
<1>5. \A h \in p..(q - 1) : h \in used
  BY <1>1, <1>4
<1>6. \E x \in p..NumPorts + 1 : x \notin used /\ \A h \in p..(x - 1) : h \in used
  BY <1>4, <1>5
<1> QED  BY <1>6 DEF NextPort

\* A request that goes on to another port has that port in the range, or
\* learns that the range is exhausted.
LEMMA TryPortInv ==
  ASSUME NEW q \in Request, q.want = Default, NEW p \in 1..NumPorts + 1
  PROVE  TryPort(q, p) \in Request /\ RequestInv(TryPort(q, p))
<1> DEFINE n == NextPort(p, q.used)
           t == TryPort(q, p)
<1>1. NumPorts \in Nat /\ None \notin Lease
  BY TcpGatewayAssumption, NoneAssumption
<1>2. q.used \in SUBSET Ports
  BY DEF Request
<1>3. n \in p..NumPorts + 1
  BY <1>2, NextPortIn
<1>4. n \in 1..NumPorts + 1 /\ n \in 0..NumPorts + 1
  BY <1>1, <1>3
<1>5. t = [q EXCEPT !.port = n, !.read = None,
                    !.pc = IF n > NumPorts THEN "exhausted" ELSE "lease"]
  BY DEF TryPort
<1> HIDE DEF n, t
<1>6. t \in Request
  <2>1. ASSUME NEW c \in {"exhausted", "lease"}
        PROVE  [q EXCEPT !.port = n, !.read = None, !.pc = c] \in Request
    BY <1>4 DEF Request
  <2> QED  BY <1>5, <2>1
<1>7. t.want = Default /\ t.port = n /\ t.read = None
  BY <1>5 DEF Request
<1>8. t.pc = IF n > NumPorts THEN "exhausted" ELSE "lease"
  BY <1>5 DEF Request
<1>9. RequestInv(t)
  BY <1>1, <1>4, <1>7, <1>8 DEF RequestInv, Ports
<1> QED  BY <1>6, <1>9 DEF t

\* The webhook chooses one of the configured gateways.
LEMMA SelectIn ==
  ASSUME NEW g \in Gateways, \E h \in Gateways : HasRoom(h)
  PROVE  SelectGateway(g) \in Gateways
<1> DEFINE gws == {h \in Gateways : HasRoom(h)}
           counts == {ListenerCount(h) : h \in gws}
<1>1. \A h \in gws : ListenerCount(h) \in Nat
  BY TcpGatewayAssumption, FS_Subset, FS_CardinalityType DEF ListenerCount, Stored
<1>2. counts \in SUBSET Nat /\ counts # {}
  BY <1>1
<1>3. PICK c \in counts : \A d \in counts : c <= d
  BY <1>2, LeastNat
<1> DEFINE least == {h \in gws : ListenerCount(h) = c}
<1>4. least \in SUBSET Nat /\ least # {}
  BY <1>3, TcpGatewayAssumption DEF Gateways
<1>5. PICK b \in least : \A h \in least : b <= h
  BY <1>4, LeastNat
<1>6. \A h \in gws : \/ ListenerCount(b) < ListenerCount(h)
                     \/ ListenerCount(b) = ListenerCount(h) /\ b <= h
  <2> SUFFICES ASSUME NEW h \in gws
               PROVE  \/ ListenerCount(b) < ListenerCount(h)
                      \/ ListenerCount(b) = ListenerCount(h) /\ b <= h
    OBVIOUS
  <2>1. ListenerCount(b) = c /\ c <= ListenerCount(h)
    BY <1>3
  <2>2. ListenerCount(h) = c => b <= h
    BY <1>5
  <2>3. c \in Nat /\ ListenerCount(h) \in Nat
    BY <1>1, <1>2
  <2> QED  BY <2>1, <2>2, <2>3
<1>7. \E x \in gws : \A h \in gws :
        \/ ListenerCount(x) < ListenerCount(h)
        \/ ListenerCount(x) = ListenerCount(h) /\ x <= h
  BY <1>5, <1>6
<1>8. Best(gws) \in gws
  BY <1>7 DEF Best
<1> QED  BY <1>8 DEF SelectGateway
-----------------------------------------------------------------------------
(* Steps of the webhook that change one request and nothing else. *)

\* If the request a step leaves behind is sound, so is the state.
LEMMA OnlyRequest ==
  ASSUME IInv, NEW r \in Requests, NEW q \in Request \cup {None},
         q # None => RequestInv(q), SetReq(r, q),
         UNCHANGED <<xls, desired, observed, lease>>
  PROVE  IInv'
<1>1. TypeOK'
  BY DEF IInv, TypeOK, SetReq
<1>2. ASSUME NEW t \in Active' PROVE RequestInv(req[t])'
  <2>1. CASE t = r
    <3>1. req'[t] = q /\ q # None
      BY <1>2, <2>1 DEF Active, SetReq, IInv, TypeOK
    <3> QED  BY <3>1 DEF RequestInv, Stored
  <2>2. CASE t # r
    <3>1. req'[t] = req[t] /\ t \in Active
      BY <1>2, <2>2 DEF Active, SetReq, IInv, TypeOK
    <3> QED  BY <3>1 DEF IInv, RequestInv, Stored
  <2> QED  BY <2>1, <2>2
<1>3. \A s \in Stored' : StoredInv(s)'
  BY DEF IInv, StoredInv, Stored
<1>4. \A s \in Services : MissingInv(s)'
  BY DEF IInv, MissingInv
<1> QED  BY <1>1, <1>2, <1>3, <1>4 DEF IInv

\* What is known of a request in progress.
LEMMA ActiveRequest ==
  ASSUME IInv, NEW r \in Requests, req[r] # None
  PROVE  /\ req[r] \in Request
         /\ RequestInv(req[r])
         /\ req[r].want = Default
         /\ req[r].pc \notin {"list", "exhausted"} =>
              /\ req[r].port \in Ports
              /\ req[r].port + 1 \in 1..NumPorts + 1
              /\ TryPort(req[r], req[r].port + 1) \in Request
              /\ RequestInv(TryPort(req[r], req[r].port + 1))
<1>1. req[r] \in Request /\ RequestInv(req[r])
  BY DEF IInv, TypeOK, Active
<1>2. req[r].want = Default
  BY <1>1 DEF RequestInv
<1>3. ASSUME req[r].pc \notin {"list", "exhausted"}
      PROVE  req[r].port \in Ports /\ req[r].port + 1 \in 1..NumPorts + 1
  BY <1>1, <1>3, TcpGatewayAssumption DEF RequestInv, Ports
<1> QED  BY <1>1, <1>2, <1>3, TryPortInv

LEMMA HandleInv ==
  ASSUME IInv, NEW r \in Requests, Handle(r)
  PROVE  IInv'
<1> DEFINE q == req[r]
           placed == [q EXCEPT !.gw = SelectGateway(q.want.gw), !.used = UsedPorts]
<1>1. q # None /\ q.pc = "list" /\ q \in Request /\ q.want = Default /\ RequestInv(q)
  BY ActiveRequest DEF Handle
<1>2. q.want.port = 0 /\ q.want.gw \in Gateways
  BY <1>1 DEF Request, Spec0, Default
<1>3. NumPorts \in Nat
  BY TcpGatewayAssumption
<1>4. CASE \E g \in Gateways : HasRoom(g)
  <2>1. SelectGateway(q.want.gw) \in Gateways
    BY <1>2, <1>4, SelectIn
  <2>2. UsedPorts \in SUBSET Ports
    BY <1>3, NoneAssumption DEF IInv, TypeOK, UsedPorts, Stored, XListenerSet, Ports
  <2>3. placed \in Request /\ placed.want = Default
    BY <1>1, <2>1, <2>2 DEF Request
  <2> HIDE DEF placed
  <2>4. TryPort(placed, 1) \in Request /\ RequestInv(TryPort(placed, 1))
    <3>1. 1 \in 1..NumPorts + 1
      BY <1>3
    <3> QED  BY <2>3, <3>1, TryPortInv
  <2>5. SetReq(r, TryPort(placed, 1)) /\ UNCHANGED <<xls, desired, observed, lease>>
    BY <1>2, <1>4 DEF Handle, placed
  <2> QED  BY <2>4, <2>5, OnlyRequest
<1>5. CASE ~ \E g \in Gateways : HasRoom(g)
  <2>1. SetReq(r, None) /\ UNCHANGED <<xls, desired, observed, lease>>
    BY <1>5 DEF Handle, EndReq
  <2> QED  BY <2>1, OnlyRequest
<1> QED  BY <1>4, <1>5

LEMMA GetLeaseInv ==
  ASSUME IInv, NEW r \in Requests, GetLease(r)
  PROVE  IInv'
<1> DEFINE q == req[r]
           found == [q EXCEPT !.pc = "holder", !.read = lease[q.port]]
<1>1. q # None /\ q.pc = "get" /\ q \in Request /\ q.want = Default /\ RequestInv(q)
      /\ q.port \in Ports
  BY ActiveRequest DEF GetLease
<1>2. CASE lease[q.port] # None /\ SetReq(r, found)
  <2>1. lease[q.port] \in Lease
    BY <1>1, <1>2 DEF IInv, TypeOK
  <2>2. found \in Request
    BY <1>1, <2>1 DEF Request
  <2>3. /\ found.want = Default /\ found.pc = "holder"
        /\ found.port = q.port /\ found.read = lease[q.port]
    BY <1>1 DEF Request
  <2>4. RequestInv(found)
    BY <1>1, <1>2, <2>3 DEF RequestInv
  <2> QED  BY <1>2, <2>2, <2>4, OnlyRequest DEF GetLease
<1>3. CASE SetReq(r, TryPort(q, q.port + 1))
  BY <1>1, <1>3, ActiveRequest, OnlyRequest DEF GetLease
<1> QED  BY <1>2, <1>3 DEF GetLease

LEMMA GetHolderInv ==
  ASSUME IInv, NEW r \in Requests, GetHolder(r)
  PROVE  IInv'
<1> DEFINE q == req[r]
           stale == [q EXCEPT !.pc = "delete"]
<1>1. q # None /\ q.pc = "holder" /\ q \in Request /\ q.want = Default /\ RequestInv(q)
      /\ q.port \in Ports
  BY ActiveRequest DEF GetHolder
<1>2. CASE IsStale(q.read)
  <2>1. stale \in Request
    BY <1>1 DEF Request
  <2>2. /\ stale.want = Default /\ stale.pc = "delete"
        /\ stale.port = q.port /\ stale.read = q.read
    BY <1>1 DEF Request
  <2>3. q.read # None /\ q.read.age >= Grace /\ xls[q.read.holder] = None
    BY <1>1, <1>2 DEF IsStale, RequestInv
  <2>4. ASSUME lease[q.port] = q.read, NEW s \in Stored, xls[s].ann = q.port PROVE FALSE
    <3>1. lease[q.port].holder = s
      BY <2>4 DEF IInv, StoredInv
    <3> QED  BY <2>3, <2>4, <3>1 DEF Stored
  <2>5. RequestInv(stale)
    BY <1>1, <2>2, <2>3, <2>4 DEF RequestInv
  <2> QED  BY <1>2, <2>1, <2>5, OnlyRequest DEF GetHolder
<1>3. CASE ~IsStale(q.read)
  BY <1>1, <1>3, ActiveRequest, OnlyRequest DEF GetHolder
<1> QED  BY <1>2, <1>3

LEMMA FailInv ==
  ASSUME IInv, NEW r \in Requests, Fail(r)
  PROVE  IInv'
BY OnlyRequest DEF Fail, EndReq

LEMMA BeginCreateInv ==
  ASSUME IInv, NEW r \in Requests, NEW s \in Services, BeginCreate(r, s)
  PROVE  IInv'
<1> DEFINE q == [svc |-> s, pc |-> "list", want |-> desired[s], gw |-> desired[s].gw,
                 port |-> 0, used |-> {}, read |-> None, age |-> 0]
<1>1. desired[s] = Default
  BY DEF BeginCreate, IInv, MissingInv
<1>2. desired[s] \in Spec0 /\ desired[s].gw \in Gateways
  BY DEF BeginCreate, IInv, TypeOK, Spec0
<1>3. q \in Request
  BY <1>2, TcpGatewayAssumption DEF Request
<1>4. RequestInv(q)
  BY <1>1 DEF RequestInv
<1> HIDE DEF q
<1>5. SetReq(r, q) /\ UNCHANGED <<xls, desired, observed, lease>>
  BY DEF BeginCreate, q
<1> QED  BY <1>3, <1>4, <1>5, OnlyRequest
-----------------------------------------------------------------------------
(* Steps that change a lease. *)

\* A request that is going to be stored holds a lease that is too young to be
\* taken over.
LEMMA PersistHolds ==
  ASSUME IInv, NEW r \in Requests, req[r] # None, req[r].pc = "persist"
  PROVE  LET q == req[r]
         IN /\ q.port \in Ports
            /\ lease[q.port] # None /\ lease[q.port] \in Lease
            /\ lease[q.port].holder = q.svc
            /\ lease[q.port].age = q.age
            /\ q.age < Grace
<1>1. req[r] \in Request /\ RequestInv(req[r]) /\ req[r].port \in Ports
  BY ActiveRequest
<1>2. req[r].age \in 0..MaxRequest /\ MaxRequest \in Nat /\ Grace \in Nat /\ MaxRequest < Grace
  BY <1>1, TcpGatewayAssumption DEF Request
<1>3. lease[req[r].port] \in Lease \cup {None}
  BY <1>1 DEF IInv, TypeOK
<1> QED  BY <1>1, <1>2, <1>3 DEF RequestInv

LEMMA CreateLeaseInv ==
  ASSUME IInv, NEW r \in Requests, CreateLease(r)
  PROVE  IInv'
<1> DEFINE q == req[r]
           held == [q EXCEPT !.pc = "persist", !.read = None, !.used = {}]
           get == [q EXCEPT !.pc = "get"]
<1>1. /\ q # None /\ q.pc \in {"lease", "again"} /\ q \in Request
      /\ q.want = Default /\ RequestInv(q) /\ q.port \in Ports /\ q.read = None
  <2>1. q # None /\ q.pc \in {"lease", "again"}
    BY DEF CreateLease
  <2> QED  BY <2>1, ActiveRequest DEF RequestInv
<1>2. CASE lease[q.port] = None
  <2>1. PICK u \in FreshUids :
          lease' = [lease EXCEPT ![q.port] = [holder |-> q.svc, uid |-> u, age |-> q.age]]
    BY <1>2 DEF CreateLease
  <2> DEFINE l == [holder |-> q.svc, uid |-> u, age |-> q.age]
  <2>2. SetReq(r, held) /\ UNCHANGED <<xls, desired, observed>>
    BY <1>2 DEF CreateLease
  <2>3. q.age \in 0..Grace /\ q.svc \in Services
    BY <1>1, TcpGatewayAssumption DEF Request
  <2>4. l \in Lease
    BY <2>3 DEF Lease, FreshUids
  <2>5. l # None /\ l.holder = q.svc /\ l.age = q.age /\ l.uid = u
    BY <2>4, NoneAssumption
  <2>6. /\ held \in Request /\ held.pc = "persist" /\ held.read = None
        /\ held.want = Default /\ held.port = q.port /\ held.svc = q.svc
        /\ held.age = q.age
    BY <1>1 DEF Request
  <2> HIDE DEF held, l
  <2>7. lease' = [lease EXCEPT ![q.port] = l] /\ lease \in [Ports -> Lease \cup {None}]
    BY <2>1 DEF l, IInv, TypeOK
  <2>8. lease'[q.port] = l /\ \A p \in Ports \ {q.port} : lease'[p] = lease[p]
    BY <1>1, <2>7
  <2>9. req' = [req EXCEPT ![r] = held] /\ req \in [Requests -> Request \cup {None}]
    BY <2>2 DEF SetReq, IInv, TypeOK
  <2>10. TypeOK'
    BY <2>2, <2>4, <2>6, <2>7, <2>9 DEF IInv, TypeOK
  <2>11. ASSUME NEW t \in Active' PROVE RequestInv(req[t])'
    <3>1. CASE t = r
      <4>1. req'[t] = held
        BY <2>9, <3>1
      <4> QED  BY <1>1, <2>5, <2>6, <2>8, <4>1 DEF RequestInv
    <3>2. CASE t # r
      <4>1. req'[t] = req[t] /\ t \in Requests /\ req[t] # None /\ t \in Active
        BY <2>9, <2>11, <3>2 DEF Active
      <4>2. req[t].read # None => req[t].read.uid # u
        BY <4>1 DEF FreshUids
      <4>3. RequestInv(req[t]) /\ (req[t].pc \notin {"list", "exhausted"} => req[t].port \in Ports)
        BY <4>1, ActiveRequest
      <4>4. req[t].read # None => l # req[t].read
        BY <2>5, <4>2
      <4>5. req[t].pc = "persist" => req[t].port # q.port
        BY <1>2, <4>1, PersistHolds
      <4>6. req[t].read # None => req[t].pc \in {"holder", "delete"}
        BY <4>3 DEF RequestInv
      <4>7. CASE req[t].port = q.port
        BY <2>2, <2>5, <2>8, <4>1, <4>2, <4>3, <4>4, <4>5, <4>7 DEF RequestInv, Stored
      <4>8. CASE req[t].port # q.port
        BY <2>2, <2>8, <4>1, <4>3, <4>6, <4>8 DEF RequestInv, Stored
      <4> QED  BY <4>7, <4>8
    <3> QED  BY <3>1, <3>2
  <2>12. ASSUME NEW s \in Stored' PROVE StoredInv(s)'
    <3>1. s \in Stored /\ StoredInv(s) /\ xls[s].ann \in Ports /\ xls[s].ann # q.port
      BY <1>2, <2>2 DEF Stored, IInv, StoredInv
    <3> QED  BY <2>2, <2>8, <3>1 DEF StoredInv
  <2>13. \A s \in Services : MissingInv(s)'
    BY <2>2 DEF IInv, MissingInv
  <2> QED  BY <2>10, <2>11, <2>12, <2>13 DEF IInv
<1>3. CASE lease[q.port] # None /\ q.pc = "lease"
  <2>1. SetReq(r, get) /\ UNCHANGED <<xls, desired, observed, lease>>
    BY <1>3 DEF CreateLease
  <2>2. /\ get \in Request /\ get.pc = "get" /\ get.read = None
        /\ get.want = Default /\ get.port = q.port
    BY <1>1 DEF Request
  <2>3. RequestInv(get)
    BY <1>1, <2>2 DEF RequestInv
  <2> QED  BY <2>1, <2>2, <2>3, OnlyRequest
<1>4. CASE lease[q.port] # None /\ q.pc = "again"
  <2>1. SetReq(r, TryPort(q, q.port + 1)) /\ UNCHANGED <<xls, desired, observed, lease>>
    BY <1>4 DEF CreateLease
  <2> QED  BY <1>1, <1>4, <2>1, ActiveRequest, OnlyRequest
<1> QED  BY <1>1, <1>2, <1>3, <1>4

LEMMA DeleteLeaseInv ==
  ASSUME IInv, NEW r \in Requests, DeleteLease(r)
  PROVE  IInv'
<1> DEFINE q == req[r]
           freed == [q EXCEPT !.pc = "again", !.read = None]
<1>1. /\ q # None /\ q.pc = "delete" /\ q \in Request
      /\ q.want = Default /\ RequestInv(q) /\ q.port \in Ports
  BY ActiveRequest DEF DeleteLease
<1>2. CASE MayDeleteLease(q.port, q.read)
  <2>1. /\ lease' = [lease EXCEPT ![q.port] = None]
        /\ SetReq(r, freed) /\ UNCHANGED <<xls, desired, observed>>
    BY <1>2 DEF DeleteLease
  <2>2. /\ lease[q.port] # None /\ lease[q.port] = q.read /\ q.read.age >= Grace
        /\ \A s \in Stored : xls[s].ann # q.port
    BY <1>1, <1>2 DEF MayDeleteLease, RequestInv
  <2>3. /\ freed \in Request /\ freed.pc = "again" /\ freed.read = None
        /\ freed.want = Default /\ freed.port = q.port
    BY <1>1 DEF Request
  <2> HIDE DEF freed
  <2>4. lease'[q.port] = None /\ \A p \in Ports \ {q.port} : lease'[p] = lease[p]
    BY <1>1, <2>1 DEF IInv, TypeOK
  <2>5. req' = [req EXCEPT ![r] = freed] /\ req \in [Requests -> Request \cup {None}]
    BY <2>1 DEF SetReq, IInv, TypeOK
  <2>6. TypeOK'
    BY <2>1, <2>3, <2>5 DEF IInv, TypeOK
  <2>7. ASSUME NEW t \in Active' PROVE RequestInv(req[t])'
    <3>1. CASE t = r
      <4>1. req'[t] = freed
        BY <2>5, <3>1
      <4> QED  BY <1>1, <2>3, <4>1 DEF RequestInv
    <3>2. CASE t # r
      <4>1. req'[t] = req[t] /\ t \in Requests /\ req[t] # None
        BY <2>5, <2>7, <3>2 DEF Active
      <4>2. RequestInv(req[t]) /\ (req[t].pc \notin {"list", "exhausted"} => req[t].port \in Ports)
        BY <4>1, ActiveRequest
      <4>3. req[t].pc = "persist" => req[t].port # q.port
        <5> SUFFICES ASSUME req[t].pc = "persist", req[t].port = q.port PROVE FALSE
          OBVIOUS
        <5>1. lease[q.port].age < Grace /\ lease[q.port] \in Lease
          BY <4>1, PersistHolds
        <5>2. lease[q.port].age \in Nat /\ Grace \in Nat
          BY <5>1, TcpGatewayAssumption DEF Lease
        <5> QED  BY <2>2, <5>1, <5>2
      <4>4. req[t].read # None => req[t].pc \in {"holder", "delete"}
        BY <4>2 DEF RequestInv
      <4>5. CASE req[t].port = q.port
        BY <2>1, <2>4, <4>1, <4>2, <4>3, <4>5 DEF RequestInv, Stored
      <4>6. CASE req[t].port # q.port
        BY <2>1, <2>4, <4>1, <4>2, <4>4, <4>6 DEF RequestInv, Stored
      <4> QED  BY <4>5, <4>6
    <3> QED  BY <3>1, <3>2
  <2>8. ASSUME NEW s \in Stored' PROVE StoredInv(s)'
    <3>1. s \in Stored /\ StoredInv(s) /\ xls[s].ann \in Ports /\ xls[s].ann # q.port
      BY <2>1, <2>2 DEF Stored, IInv, StoredInv
    <3> QED  BY <2>1, <2>4, <3>1 DEF StoredInv
  <2>9. \A s \in Services : MissingInv(s)'
    BY <2>1 DEF IInv, MissingInv
  <2> QED  BY <2>6, <2>7, <2>8, <2>9 DEF IInv
<1>3. CASE ~MayDeleteLease(q.port, q.read)
  <2>1. SetReq(r, TryPort(q, q.port + 1)) /\ UNCHANGED <<xls, desired, observed, lease>>
    BY <1>3 DEF DeleteLease
  <2> QED  BY <1>1, <2>1, ActiveRequest, OnlyRequest
<1> QED  BY <1>2, <1>3
-----------------------------------------------------------------------------
(* Steps that change what is stored, desired or observed. *)

\* The object a request stores is sound and no request minds it.
LEMMA PersistInv ==
  ASSUME IInv, NEW r \in Requests, Persist(r)
  PROVE  IInv'
<1> DEFINE q == req[r]
           x == [port |-> 0, gw |-> q.gw, applied |-> Default, ann |-> q.port]
<1>1. /\ q # None /\ q.pc = "persist" /\ q \in Request
      /\ q.want = Default /\ q.port \in Ports /\ q.svc \in Services /\ q.gw \in Gateways
  BY ActiveRequest DEF Persist, Request
<1>2. /\ lease[q.port] # None /\ lease[q.port] \in Lease /\ lease[q.port].holder = q.svc
      /\ lease[q.port].age = q.age /\ q.age < Grace
  BY <1>1, PersistHolds
<1>3. xls[q.svc] = None /\ xls' = [xls EXCEPT ![q.svc] = x]
  BY <1>1 DEF Persist, Default
<1>4. req' = [req EXCEPT ![r] = None] /\ UNCHANGED <<desired, observed, lease>>
  BY DEF Persist, EndReq, SetReq
<1>5. Default \in Spec0 /\ q.port \in 0..NumPorts
  BY <1>1, TcpGatewayAssumption DEF Default, Spec0, Ports, Gateways
<1>6. x \in XListenerSet /\ x # None
  BY <1>1, <1>5, NoneAssumption, TcpGatewayAssumption DEF XListenerSet
<1>7. x.port = 0 /\ x.gw = q.gw /\ x.ann = q.port /\ x.applied = Default
  OBVIOUS
<1> HIDE DEF x
<1>8. TypeOK'
  BY <1>3, <1>4, <1>6 DEF IInv, TypeOK
<1>9. /\ xls'[q.svc] = x /\ \A s \in Services \ {q.svc} : xls'[s] = xls[s]
      /\ Stored' = Stored \cup {q.svc}
  BY <1>1, <1>3, <1>6 DEF IInv, TypeOK, Stored
<1>10. ASSUME NEW t \in Active' PROVE RequestInv(req[t])'
  <2>1. t # r /\ req'[t] = req[t] /\ t \in Requests /\ req[t] # None
    BY <1>4, <1>10 DEF Active, IInv, TypeOK
  <2>2. RequestInv(req[t])
    BY <2>1, ActiveRequest
  <2>3. req[t].pc = "delete" /\ lease[req[t].port] = req[t].read => req[t].port # q.port
    <3> SUFFICES ASSUME req[t].pc = "delete", lease[req[t].port] = req[t].read,
                        req[t].port = q.port
                 PROVE  FALSE
      OBVIOUS
    <3>1. lease[q.port].age >= Grace
      BY <2>2 DEF RequestInv
    <3>2. lease[q.port].age \in Nat /\ Grace \in Nat
      BY <1>2, TcpGatewayAssumption DEF Lease
    <3> QED  BY <1>2, <3>1, <3>2
  <2>4. req[t].pc = "delete" /\ lease[req[t].port] = req[t].read
          => \A s \in Stored' : xls'[s].ann # req[t].port
    <3> SUFFICES ASSUME req[t].pc = "delete", lease[req[t].port] = req[t].read,
                        NEW s \in Stored'
                 PROVE  xls'[s].ann # req[t].port
      OBVIOUS
    <3>1. CASE s = q.svc
      BY <1>7, <1>9, <2>3, <3>1
    <3>2. CASE s # q.svc
      BY <1>9, <2>2, <3>2 DEF RequestInv, Stored
    <3> QED  BY <3>1, <3>2
  <2> QED  BY <1>4, <2>1, <2>2, <2>4 DEF RequestInv
<1>11. ASSUME NEW s \in Stored' PROVE StoredInv(s)'
  <2>1. CASE s = q.svc
    <3>1. observed[s] = None /\ (desired[s] # None => desired[s] = Default)
      BY <1>1, <1>3, <2>1 DEF IInv, MissingInv
    <3> QED  BY <1>1, <1>2, <1>4, <1>7, <1>9, <2>1, <3>1 DEF StoredInv
  <2>2. CASE s # q.svc
    <3>1. s \in Stored /\ StoredInv(s) /\ xls'[s] = xls[s]
      BY <1>9, <2>2 DEF IInv, Stored
    <3> QED  BY <1>4, <3>1 DEF StoredInv
  <2> QED  BY <2>1, <2>2
<1>12. ASSUME NEW s \in Services PROVE MissingInv(s)'
  <2>1. xls'[s] = None => xls[s] = None
    BY <1>6, <1>9
  <2>2. MissingInv(s)
    BY DEF IInv
  <2> QED  BY <1>4, <2>1, <2>2 DEF MissingInv
<1> QED  BY <1>8, <1>10, <1>11, <1>12 DEF IInv

\* Requests do not depend on what is desired or observed, and not on objects
\* that go away.
LEMMA RequestsStay ==
  ASSUME IInv, UNCHANGED <<lease, req>>,
         \A s \in Stored' : s \in Stored /\ xls'[s].ann = xls[s].ann
  PROVE  \A r \in Active' : RequestInv(req[r])'
<1> SUFFICES ASSUME NEW r \in Active' PROVE RequestInv(req[r])'
  OBVIOUS
<1>1. RequestInv(req[r]) /\ req'[r] = req[r]
  BY DEF IInv, Active
<1> QED  BY <1>1 DEF RequestInv

LEMMA ComposeInv ==
  ASSUME IInv, NEW s \in Services, Compose(s)
  PROVE  IInv'
<1>1. UNCHANGED <<xls, observed, lease, req>> /\ desired' = [desired EXCEPT ![s] = ReadBack(s)]
  BY DEF Compose
<1>2. ReadBack(s) \in Spec0 /\ (observed[s] = None => ReadBack(s) = Default)
      /\ (observed[s] # None => ReadBack(s) = [port |-> observed[s].ann, gw |-> observed[s].gw])
  BY TcpGatewayAssumption DEF ReadBack, Default, Spec0, Gateways, Observed, IInv, TypeOK
<1>3. TypeOK'
  BY <1>1, <1>2 DEF IInv, TypeOK
<1>4. \A r \in Active' : RequestInv(req[r])'
  BY <1>1, RequestsStay DEF Stored
<1>5. ReadBack(s) # None
  BY <1>2, NoneAssumption
<1>6. desired'[s] = ReadBack(s) /\ \A t \in Services \ {s} : desired'[t] = desired[t]
  BY <1>1 DEF IInv, TypeOK
<1>7. MissingInv(s) /\ (xls[s] # None => StoredInv(s))
  BY DEF IInv, Stored
<1>8. desired[s] = None => observed[s] = None /\ xls[s] = None
  BY <1>7 DEF Compose, IsNew, MissingInv
<1>9. ASSUME NEW t \in Stored' PROVE StoredInv(t)'
  <2>1. t \in Stored /\ StoredInv(t)
    BY <1>1, <1>9 DEF IInv, Stored
  <2>2. CASE t = s
    <3>1. CASE observed[s] = None
      <4>1. desired[s] = Default /\ xls[s].applied = Default
        BY <1>8, <2>1, <2>2, <3>1 DEF StoredInv, Stored
      <4> QED  BY <1>1, <1>2, <1>6, <2>1, <2>2, <3>1, <4>1 DEF StoredInv
    <3>2. CASE observed[s] # None
      <4>1. ReadBack(s) = [port |-> xls[s].ann, gw |-> xls[s].gw]
        BY <1>2, <2>1, <2>2, <3>2 DEF StoredInv
      <4> QED  BY <1>1, <1>6, <2>1, <2>2, <3>2, <4>1 DEF StoredInv
    <3> QED  BY <3>1, <3>2
  <2>3. CASE t # s
    BY <1>1, <1>6, <2>1, <2>3 DEF StoredInv, Stored
  <2> QED  BY <2>2, <2>3
<1>10. ASSUME NEW t \in Services PROVE MissingInv(t)'
  <2>1. MissingInv(t)
    BY DEF IInv
  <2>2. CASE t = s
    BY <1>1, <1>2, <1>5, <1>6, <1>7, <1>8, <2>2 DEF MissingInv
  <2>3. CASE t # s
    BY <1>1, <1>6, <2>1, <2>3 DEF MissingInv
  <2> QED  BY <2>2, <2>3
<1> QED  BY <1>3, <1>4, <1>9, <1>10 DEF IInv

LEMMA ObserveInv ==
  ASSUME IInv, NEW s \in Services, Observe(s)
  PROVE  IInv'
<1> DEFINE o == [gw |-> xls[s].gw, ann |-> xls[s].ann]
<1>1. /\ UNCHANGED <<xls, desired, lease, req>> /\ observed' = [observed EXCEPT ![s] = o]
      /\ desired[s] # None /\ xls[s] # None
  BY DEF Observe
<1>2. o \in Observed /\ o # None
  BY <1>1, NoneAssumption DEF IInv, TypeOK, XListenerSet, Observed
<1>3. TypeOK'
  BY <1>1, <1>2 DEF IInv, TypeOK
<1>4. \A r \in Active' : RequestInv(req[r])'
  BY <1>1, RequestsStay DEF Stored
<1>5. observed'[s] = o /\ \A t \in Services \ {s} : observed'[t] = observed[t]
  BY <1>1 DEF IInv, TypeOK
<1>6. ASSUME NEW t \in Stored' PROVE StoredInv(t)'
  <2>1. StoredInv(t)
    BY <1>1, <1>6 DEF IInv, Stored
  <2>2. CASE t = s
    BY <1>1, <1>2, <1>5, <2>1, <2>2 DEF StoredInv
  <2>3. CASE t # s
    BY <1>1, <1>5, <2>1, <2>3 DEF StoredInv, Stored
  <2> QED  BY <2>2, <2>3
<1>7. \A t \in Services : MissingInv(t)'
  BY <1>1, <1>5 DEF IInv, MissingInv
<1> QED  BY <1>3, <1>4, <1>6, <1>7 DEF IInv

\* An update only writes the port and gateway that were read back.
LEMMA ApplyWrites ==
  ASSUME IInv, NEW s \in Services, Apply(s)
  PROVE  /\ xls[s] # None /\ observed[s] # None
         /\ desired[s] = [port |-> xls[s].ann, gw |-> xls[s].gw]
         /\ xls' = [xls EXCEPT ![s] =
              [port |-> xls[s].ann, gw |-> xls[s].gw, ann |-> xls[s].ann,
               applied |-> desired[s]]]
<1>1. StoredInv(s) /\ xls[s] # None /\ desired[s] # None /\ xls[s].applied # desired[s]
  BY DEF Apply, IInv, Stored
<1>2. desired[s] = [port |-> xls[s].ann, gw |-> xls[s].gw] /\ observed[s] # None
  BY <1>1 DEF StoredInv
<1> QED  BY <1>1, <1>2 DEF Apply

LEMMA ApplyInv ==
  ASSUME IInv, NEW s \in Services, Apply(s)
  PROVE  IInv'
<1> DEFINE x == [port |-> xls[s].ann, gw |-> xls[s].gw, ann |-> xls[s].ann,
                 applied |-> desired[s]]
<1>1. /\ xls[s] # None /\ observed[s] # None
      /\ desired[s] = [port |-> xls[s].ann, gw |-> xls[s].gw]
      /\ xls' = [xls EXCEPT ![s] = x]
  BY ApplyWrites
<1>2. UNCHANGED <<desired, observed, lease, req>> /\ StoredInv(s) /\ desired[s] # None
  BY <1>1 DEF Apply, IInv, Stored
<1>3. x \in XListenerSet /\ x # None
  BY <1>1, <1>2, NoneAssumption DEF IInv, TypeOK, XListenerSet
<1>4. x.port = xls[s].ann /\ x.gw = xls[s].gw /\ x.ann = xls[s].ann /\ x.applied = desired[s]
  OBVIOUS
<1> HIDE DEF x
<1>5. TypeOK'
  BY <1>1, <1>2, <1>3 DEF IInv, TypeOK
<1>6. xls'[s] = x /\ (\A t \in Services \ {s} : xls'[t] = xls[t]) /\ Stored' = Stored
  BY <1>1, <1>3 DEF IInv, TypeOK, Stored
<1>7. \A r \in Active' : RequestInv(req[r])'
  BY <1>2, <1>4, <1>6, RequestsStay DEF Stored
<1>8. ASSUME NEW t \in Stored' PROVE StoredInv(t)'
  <2>1. StoredInv(t) /\ t \in Services
    BY <1>6 DEF IInv, Stored
  <2>2. CASE t = s
    BY <1>1, <1>2, <1>4, <1>6, <2>2 DEF StoredInv
  <2>3. CASE t # s
    BY <1>2, <1>6, <2>1, <2>3 DEF StoredInv
  <2> QED  BY <2>2, <2>3
<1>9. \A t \in Services : MissingInv(t)'
  BY <1>1, <1>2, <1>3, <1>6 DEF IInv, MissingInv
<1> QED  BY <1>5, <1>7, <1>8, <1>9 DEF IInv

LEMMA RemoveServiceInv ==
  ASSUME IInv, NEW s \in Services, RemoveService(s)
  PROVE  IInv'
<1>1. /\ UNCHANGED <<xls, lease, req>>
      /\ desired' = [desired EXCEPT ![s] = None] /\ observed' = [observed EXCEPT ![s] = None]
  BY DEF RemoveService
<1>2. TypeOK'
  BY <1>1 DEF IInv, TypeOK
<1>3. \A r \in Active' : RequestInv(req[r])'
  BY <1>1, RequestsStay DEF Stored
<1>4. /\ desired'[s] = None /\ observed'[s] = None
      /\ \A t \in Services \ {s} : desired'[t] = desired[t] /\ observed'[t] = observed[t]
  BY <1>1 DEF IInv, TypeOK
<1>5. \A t \in Stored' : StoredInv(t)'
  BY <1>1, <1>4 DEF IInv, StoredInv, Stored
<1>6. \A t \in Services : MissingInv(t)'
  BY <1>1, <1>4 DEF IInv, MissingInv
<1> QED  BY <1>2, <1>3, <1>5, <1>6 DEF IInv

LEMMA DeleteXlsInv ==
  ASSUME IInv, NEW s \in Services, DeleteXls(s)
  PROVE  IInv'
<1>1. /\ UNCHANGED <<desired, observed, lease, req>> /\ xls' = [xls EXCEPT ![s] = None]
      /\ desired[s] = None
  BY DEF DeleteXls
<1>2. TypeOK'
  BY <1>1 DEF IInv, TypeOK
<1>3. xls'[s] = None /\ \A t \in Services \ {s} : xls'[t] = xls[t]
  BY <1>1 DEF IInv, TypeOK
<1>4. \A r \in Active' : RequestInv(req[r])'
  BY <1>1, <1>3, RequestsStay DEF Stored
<1>5. \A t \in Stored' : StoredInv(t)'
  BY <1>1, <1>3 DEF IInv, StoredInv, Stored
<1>6. \A t \in Services : MissingInv(t)'
  BY <1>1, <1>3 DEF IInv, MissingInv
<1> QED  BY <1>2, <1>4, <1>5, <1>6 DEF IInv

\* A lease that gets older keeps its holder and UID, and one that is stale
\* stays so.
LEMMA OlderLease ==
  ASSUME NEW l \in Lease
  PROVE  /\ Older(l) \in Lease
         /\ Older(l).holder = l.holder /\ Older(l).uid = l.uid
         /\ l.age < Grace => Older(l).age = l.age + 1
         /\ l.age >= Grace => Older(l).age >= Grace
<1>1. Grace \in Nat /\ l.age \in 0..Grace
  BY TcpGatewayAssumption DEF Lease
<1> QED  BY <1>1 DEF Older, Lease

LEMMA TickInv ==
  ASSUME IInv, Tick
  PROVE  IInv'
<1> DEFINE Aged(q) == [q EXCEPT !.age = @ + 1, !.read = IF @ = None THEN None ELSE Older(@)]
<1>1. /\ \A r \in Active : req[r].age < MaxRequest
      /\ lease' = [p \in Ports |-> IF lease[p] = None THEN None ELSE Older(lease[p])]
      /\ req' = [r \in Requests |-> IF req[r] = None THEN None ELSE Aged(req[r])]
      /\ UNCHANGED <<xls, desired, observed>>
  BY DEF Tick
<1>2. None \notin Lease /\ None \notin Request
  BY NoneAssumption
<1>3. \A p \in Ports : /\ lease[p] = None => lease'[p] = None
                       /\ lease[p] # None => /\ lease[p] \in Lease
                                             /\ lease'[p] = Older(lease[p])
                                             /\ lease'[p] \in Lease
  BY <1>1, OlderLease DEF IInv, TypeOK
<1>4. lease' \in [Ports -> Lease \cup {None}]
  BY <1>1, <1>3
<1>5. ASSUME NEW r \in Active
      PROVE  /\ req'[r] \in Request
             /\ req'[r].want = req[r].want /\ req'[r].pc = req[r].pc
             /\ req'[r].port = req[r].port /\ req'[r].svc = req[r].svc
             /\ req'[r].age = req[r].age + 1
             /\ req[r].read = None => req'[r].read = None
             /\ req[r].read # None => req[r].read \in Lease /\ req'[r].read = Older(req[r].read)
  <2> DEFINE q == req[r]
             read == IF q.read = None THEN None ELSE Older(q.read)
  <2>1. q \in Request /\ q.read \in Lease \cup {None} /\ q.age \in 0..MaxRequest
    BY DEF IInv, TypeOK, Active, Request
  <2>2. read \in Lease \cup {None}
    BY <2>1, OlderLease
  <2>3. q.age + 1 \in 0..MaxRequest
    <3>1. MaxRequest \in Nat /\ q.age < MaxRequest
      BY <1>1, TcpGatewayAssumption
    <3> QED  BY <2>1, <3>1
  <2>4. req'[r] = [q EXCEPT !.age = q.age + 1, !.read = read]
    BY <1>1, <2>1 DEF Active, Request
  <2> HIDE DEF read
  <2>5. req'[r] \in Request
    BY <2>1, <2>2, <2>3, <2>4 DEF Request
  <2>6. /\ req'[r].want = q.want /\ req'[r].pc = q.pc /\ req'[r].port = q.port
        /\ req'[r].svc = q.svc /\ req'[r].age = q.age + 1 /\ req'[r].read = read
    BY <2>1, <2>4 DEF Request
  <2> QED  BY <2>1, <2>5, <2>6 DEF read
<1>6. Active' = Active
  BY <1>1, <1>2, <1>5 DEF Active
<1>7. TypeOK'
  BY <1>1, <1>4, <1>5 DEF IInv, TypeOK, Active
<1>8. ASSUME NEW r \in Active' PROVE RequestInv(req[r])'
  <2> DEFINE q == req[r]
  <2>1. r \in Active /\ r \in Requests /\ q # None
    BY <1>6, <1>8 DEF Active
  <2>2. RequestInv(q) /\ q \in Request /\ (q.pc \notin {"list", "exhausted"} => q.port \in Ports)
    BY <2>1, ActiveRequest
  <2>3. /\ req'[r].want = Default /\ req'[r].pc = q.pc /\ req'[r].port = q.port
        /\ req'[r].svc = q.svc /\ req'[r].age = q.age + 1
    BY <1>5, <2>1, <2>2 DEF RequestInv
  <2>4. req'[r].read # None <=> q.read # None
    BY <1>2, <1>5, <2>1, OlderLease
  <2>5. q.read # None => /\ q.port \in Ports /\ q.read \in Lease
                         /\ req'[r].read = Older(q.read)
                         /\ Older(q.read).uid = q.read.uid
                         /\ q.read.age >= Grace => Older(q.read).age >= Grace
    BY <1>5, <2>1, <2>2, OlderLease DEF RequestInv
  <2>6. q.read # None /\ lease'[q.port] # None /\ lease'[q.port].uid = Older(q.read).uid
          => lease[q.port] = q.read
    BY <1>3, <2>2, <2>5, OlderLease DEF RequestInv
  <2>7. q.read # None /\ lease'[q.port] = Older(q.read) => lease[q.port] = q.read
    BY <1>2, <2>5, <2>6, OlderLease
  <2>8. q.read # None /\ lease'[q.port] # None /\ lease'[q.port].uid = Older(q.read).uid
          => lease'[q.port] = Older(q.read)
    BY <1>3, <2>5, <2>6
  <2>9. q.pc = "persist" => /\ lease'[q.port] # None
                            /\ lease'[q.port].holder = q.svc
                            /\ lease'[q.port].age = q.age + 1
    BY <1>2, <1>3, <2>1, PersistHolds, OlderLease
  <2>10. q.pc = "delete" => q.read # None
    BY <2>2 DEF RequestInv
  <2> QED  BY <1>1, <2>2, <2>3, <2>4, <2>5, <2>7, <2>8, <2>9, <2>10 DEF RequestInv, Stored
<1>9. ASSUME NEW s \in Stored' PROVE StoredInv(s)'
  <2>1. s \in Stored /\ StoredInv(s) /\ xls[s].ann \in Ports
        /\ lease[xls[s].ann] # None /\ lease[xls[s].ann].holder = s
    BY <1>1, <1>9 DEF IInv, Stored, StoredInv
  <2>2. lease'[xls[s].ann] # None /\ lease'[xls[s].ann].holder = s
    BY <1>2, <1>3, <2>1, OlderLease
  <2> QED  BY <1>1, <2>1, <2>2 DEF StoredInv
<1>10. \A s \in Services : MissingInv(s)'
  BY <1>1 DEF IInv, MissingInv
<1> QED  BY <1>7, <1>8, <1>9, <1>10 DEF IInv
-----------------------------------------------------------------------------
(* The inductive invariant. *)

LEMMA InitInv ==
  ASSUME Init
  PROVE  IInv
<1>1. TypeOK
  BY DEF Init, TypeOK
<1>2. Active = {} /\ Stored = {}
  BY DEF Init, Active, Stored
<1>3. \A s \in Services : MissingInv(s)
  BY DEF Init, MissingInv
<1> QED  BY <1>1, <1>2, <1>3 DEF IInv

LEMMA StutterInv ==
  ASSUME IInv, UNCHANGED vars
  PROVE  IInv'
<1>1. TypeOK' /\ Active' = Active /\ Stored' = Stored
  BY DEF vars, IInv, TypeOK, Active, Stored
<1>2. \A r \in Active' : RequestInv(req[r])'
  BY <1>1 DEF vars, IInv, RequestInv
<1>3. \A s \in Stored' : StoredInv(s)'
  BY <1>1 DEF vars, IInv, StoredInv
<1>4. \A s \in Services : MissingInv(s)'
  BY DEF vars, IInv, MissingInv
<1> QED  BY <1>1, <1>2, <1>3, <1>4 DEF IInv

LEMMA NextInv ==
  ASSUME IInv, Next
  PROVE  IInv'
<1>1. ASSUME NEW r \in Requests, Webhook(r) PROVE IInv'
  BY <1>1, HandleInv, CreateLeaseInv, GetLeaseInv, GetHolderInv, DeleteLeaseInv, PersistInv,
     FailInv DEF Webhook
<1>2. ASSUME NEW s \in Services, Owner(s) PROVE IInv'
  BY <1>2, ComposeInv, ObserveInv, ApplyInv, RemoveServiceInv, DeleteXlsInv DEF Owner
<1> QED  BY <1>1, <1>2, BeginCreateInv, TickInv DEF Next

LEMMA Inductive == Spec => []IInv
<1>1. IInv /\ [Next]_vars => IInv'
  BY NextInv, StutterInv
<1> QED  BY InitInv, <1>1, PTL DEF Spec

\* A stored XListenerSet has one port, and the lease of that port.
LEMMA StoredPort ==
  ASSUME IInv, NEW s \in Stored
  PROVE  /\ xls[s].ann \in Ports /\ xls[s].ann # 0 /\ xls[s].port \in {0, xls[s].ann}
         /\ \A p \in PortsOf(s) : p = xls[s].ann /\ lease[p] # None /\ lease[p].holder = s
<1>1. StoredInv(s)
  BY DEF IInv
<1>2. /\ xls[s].ann \in Ports /\ xls[s].port \in {0, xls[s].ann}
      /\ lease[xls[s].ann] # None /\ lease[xls[s].ann].holder = s
  BY <1>1 DEF StoredInv
<1> QED  BY <1>2, TcpGatewayAssumption DEF PortsOf, Ports

\* Everything stored, observed, leased or requested has its type at all times:
\* no allocation ever hands out a port outside the range, or a gateway that is
\* not configured.
THEOREM TypeCorrect == Spec => []TypeOK
<1>1. IInv => TypeOK
  BY DEF IInv
<1> QED  BY <1>1, Inductive, PTL

\* A stored XListenerSet holds the lease of its port at all times: however
\* requests race for a stale lease, none takes over one that is in use.
THEOREM LeaseIsHeld == Spec => []PortIsLeased
<1>1. IInv => PortIsLeased
  BY StoredPort DEF PortIsLeased
<1> QED  BY <1>1, Inductive, PTL

\* No two stored XListenerSets share a port, for any number of concurrent
\* admission requests.
THEOREM PortsAreUnique == Spec => []UniquePorts
<1>1. IInv => UniquePorts
  <2> SUFFICES ASSUME IInv, NEW s \in Stored, NEW t \in Stored, NEW p \in PortsOf(s),
                      p \in PortsOf(t)
               PROVE  s = t
    BY DEF UniquePorts
  <2>1. lease[p].holder = s /\ lease[p].holder = t
    BY StoredPort
  <2> QED  BY <2>1
<1> QED  BY <1>1, Inductive, PTL
-----------------------------------------------------------------------------
(* Steps, as the users of a service see them. *)

\* What a step does to the objects that are stored: nothing, it stores one
\* with a port that no other has, it leaves the place of one as it is, or it
\* deletes one.
LEMMA StoredSteps ==
  ASSUME IInv, [Next]_vars
  PROVE  \/ xls' = xls
         \/ \E s \in Services :
              /\ xls[s] = None /\ xls'[s] \in XListenerSet
              /\ xls'[s].port = 0 /\ xls'[s].ann \in Ports
              /\ \A t \in Stored : xls[t].ann # xls'[s].ann
              /\ xls' = [xls EXCEPT ![s] = xls'[s]]
         \/ \E s \in Services :
              /\ xls[s] # None /\ xls'[s] # None
              /\ xls'[s].ann = xls[s].ann /\ xls'[s].gw = xls[s].gw
              /\ xls'[s].port = xls[s].ann
              /\ xls' = [xls EXCEPT ![s] = xls'[s]]
         \/ \E s \in Services : xls[s] # None /\ xls' = [xls EXCEPT ![s] = None]
<1>1. ASSUME NEW r \in Requests, Persist(r)
      PROVE  \E s \in Services :
               /\ xls[s] = None /\ xls'[s] \in XListenerSet
               /\ xls'[s].port = 0 /\ xls'[s].ann \in Ports
               /\ \A t \in Stored : xls[t].ann # xls'[s].ann
               /\ xls' = [xls EXCEPT ![s] = xls'[s]]
  <2> DEFINE q == req[r]
             x == [port |-> 0, gw |-> q.gw, applied |-> Default, ann |-> q.port]
  <2>1. /\ q # None /\ q.pc = "persist" /\ q \in Request
        /\ q.want = Default /\ q.port \in Ports /\ q.svc \in Services
    BY <1>1, ActiveRequest DEF Persist, Request
  <2>2. xls[q.svc] = None /\ xls' = [xls EXCEPT ![q.svc] = x]
    BY <1>1, <2>1 DEF Persist, Default
  <2>3. xls'[q.svc] = x /\ x.port = 0 /\ x.ann = q.port /\ x # None
    BY <2>1, <2>2, <1>1, PersistInv, NoneAssumption, TcpGatewayAssumption
       DEF IInv, TypeOK, XListenerSet, Spec0, Default, Ports, Gateways, Request
  <2>4. x \in XListenerSet
    BY <1>1, <2>1, <2>3, PersistInv DEF IInv, TypeOK
  <2>5. lease[q.port].holder = q.svc
    BY <2>1, PersistHolds
  <2>6. \A t \in Stored : xls[t].ann # q.port
    <3> SUFFICES ASSUME NEW t \in Stored, xls[t].ann = q.port PROVE FALSE
      OBVIOUS
    <3>1. StoredInv(t)
      BY DEF IInv
    <3>2. t = q.svc
      BY <2>5, <3>1 DEF StoredInv
    <3> QED  BY <2>2, <3>2 DEF Stored
  <2> QED  BY <2>1, <2>2, <2>3, <2>4, <2>6
<1>2. ASSUME NEW s \in Services, Apply(s)
      PROVE  /\ xls[s] # None /\ xls'[s] # None
             /\ xls'[s].ann = xls[s].ann /\ xls'[s].gw = xls[s].gw
             /\ xls'[s].port = xls[s].ann
             /\ xls' = [xls EXCEPT ![s] = xls'[s]]
  <2> DEFINE x == [port |-> xls[s].ann, gw |-> xls[s].gw, ann |-> xls[s].ann,
                   applied |-> desired[s]]
  <2>1. xls[s] # None /\ xls' = [xls EXCEPT ![s] = x]
    BY <1>2, ApplyWrites
  <2>2. xls'[s] = x
    BY <2>1 DEF IInv, TypeOK
  <2>3. x \in XListenerSet
    BY <1>2, ApplyWrites DEF IInv, TypeOK, XListenerSet, Apply
  <2>4. /\ x.ann = xls[s].ann /\ x.gw = xls[s].gw /\ x.port = xls[s].ann
        /\ x # None
    BY <2>3, NoneAssumption
  <2> HIDE DEF x
  <2> QED  BY <2>1, <2>2, <2>4
<1>3. ASSUME NEW s \in Services, DeleteXls(s)
      PROVE  xls[s] # None /\ xls' = [xls EXCEPT ![s] = None]
  BY <1>3 DEF DeleteXls
<1>4. ASSUME NEW r \in Requests, Webhook(r), ~Persist(r) PROVE xls' = xls
  BY <1>4 DEF Webhook, Handle, CreateLease, GetLease, GetHolder, DeleteLease, Fail
<1>5. ASSUME NEW r \in Requests, NEW s \in Services, BeginCreate(r, s) PROVE xls' = xls
  BY <1>5 DEF BeginCreate
<1>6. ASSUME NEW s \in Services, Compose(s) \/ Observe(s) \/ RemoveService(s)
      PROVE  xls' = xls
  BY <1>6 DEF Compose, Observe, RemoveService
<1>7. CASE Tick
  BY <1>7 DEF Tick
<1>8. CASE UNCHANGED vars
  BY <1>8 DEF vars
<1> QED  BY <1>1, <1>2, <1>3, <1>4, <1>5, <1>6, <1>7, <1>8 DEF Next, Owner

\* No step moves a stored XListenerSet to another gateway, or gives it another
\* port than the one it has: what is read back late or out of date is never
\* applied.
THEOREM NothingMoves == Spec => NeverMoved
<1>1. IInv /\ [Next]_vars =>
        \A s \in Services : xls[s] # None /\ xls'[s] # None =>
          /\ xls'[s].gw = xls[s].gw /\ xls'[s].ann = xls[s].ann
          /\ xls[s].port # 0 => xls'[s].port = xls[s].port
  <2> SUFFICES ASSUME IInv, [Next]_vars, NEW s \in Services, xls[s] # None, xls'[s] # None
               PROVE  /\ xls'[s].gw = xls[s].gw /\ xls'[s].ann = xls[s].ann
                      /\ xls[s].port # 0 => xls'[s].port = xls[s].port
    OBVIOUS
  <2>1. xls[s].port \in {0, xls[s].ann} /\ xls \in [Services -> XListenerSet \cup {None}]
    BY DEF IInv, StoredInv, Stored, TypeOK
  <2> QED  BY <2>1, StoredSteps
<1> QED  BY <1>1, Inductive, PTL DEF Spec, NeverMoved

\* A place is not the absence of one.
LEMMA PlaceNotNone ==
  ASSUME NEW p \in Ports, NEW g \in Gateways
  PROVE  [port |-> p, gw |-> g] # None
BY NoneAssumption, TcpGatewayAssumption DEF Spec0, Ports

LEMMA PlacesInit ==
  ASSUME Init
  PROVE  Allocation!Init
BY DEF Init, Allocation!Init, places, PlaceOf

LEMMA PlacesNext ==
  ASSUME IInv, IInv', [Next]_vars
  PROVE  [Allocation!Next]_places
<1>1. /\ xls \in [Services -> XListenerSet \cup {None}]
      /\ xls' \in [Services -> XListenerSet \cup {None}]
  BY DEF IInv, TypeOK
<1>2. \A s \in Services :
        places[s] = IF xls[s] = None THEN None ELSE [port |-> xls[s].ann, gw |-> xls[s].gw]
  BY DEF IInv, StoredInv, Stored, Ports, places, PlaceOf
<1>3. \A s \in Services :
        places'[s] = IF xls'[s] = None THEN None ELSE [port |-> xls'[s].ann, gw |-> xls'[s].gw]
  BY DEF IInv, StoredInv, Stored, Ports, places, PlaceOf
<1>4. CASE xls' = xls
  BY <1>4 DEF places, PlaceOf
<1>5. ASSUME NEW s \in Services,
             xls[s] = None, xls'[s] \in XListenerSet, xls'[s].ann \in Ports,
             \A t \in Stored : xls[t].ann # xls'[s].ann,
             xls' = [xls EXCEPT ![s] = xls'[s]]
      PROVE  Allocation!Allocate(s)
  <2>1. xls'[s] # None /\ xls'[s].gw \in Gateways
    BY <1>5, NoneAssumption DEF XListenerSet
  <2>2. places[s] = None /\ places'[s] = [port |-> xls'[s].ann, gw |-> xls'[s].gw]
    BY <1>2, <1>3, <1>5, <2>1
  <2>3. places'[s] \in Allocation!Place
    BY <1>5, <2>1, <2>2 DEF Allocation!Place
  <2>4. \A t \in Services \ {s} : places'[t] = places[t]
    BY <1>1, <1>2, <1>3, <1>5
  <2>5. places' = [places EXCEPT ![s] = places'[s]]
    BY <2>4 DEF places
  <2>6. places'[s].port \notin Allocation!TakenPorts
    <3> SUFFICES ASSUME NEW t \in Allocation!Exposed, places[t].port = places'[s].port
                 PROVE  FALSE
      BY DEF Allocation!TakenPorts
    <3>1. t \in Services /\ places[t] # None
      BY DEF Allocation!Exposed
    <3>2. xls[t] # None /\ places[t] = [port |-> xls[t].ann, gw |-> xls[t].gw]
      BY <1>2, <3>1
    <3> QED  BY <1>5, <2>2, <3>1, <3>2 DEF Stored
  <2> QED  BY <2>2, <2>3, <2>5, <2>6 DEF Allocation!Allocate
<1>6. ASSUME NEW s \in Services, xls[s] # None, xls'[s] # None,
             xls'[s].ann = xls[s].ann, xls'[s].gw = xls[s].gw,
             xls' = [xls EXCEPT ![s] = xls'[s]]
      PROVE  places' = places
  <2>1. \A t \in Services : places'[t] = places[t]
    BY <1>1, <1>2, <1>3, <1>6
  <2> QED  BY <2>1 DEF places
<1>7. ASSUME NEW s \in Services, xls[s] # None, xls' = [xls EXCEPT ![s] = None]
      PROVE  Allocation!Release(s)
  <2>1. places[s] # None
    <3>1. StoredInv(s)
      BY <1>7 DEF IInv, Stored
    <3>2. xls[s].ann \in Ports /\ xls[s].gw \in Gateways
      BY <1>1, <1>7, <3>1 DEF StoredInv, XListenerSet
    <3> QED  BY <1>2, <1>7, <3>2, PlaceNotNone
  <2>2. places'[s] = None /\ \A t \in Services \ {s} : places'[t] = places[t]
    BY <1>1, <1>2, <1>3, <1>7
  <2>3. places' = [places EXCEPT ![s] = None]
    BY <2>2 DEF places
  <2> QED  BY <2>1, <2>3 DEF Allocation!Release
<1> QED
  <2>1. \/ xls' = xls
        \/ \E s \in Services : Allocation!Allocate(s) \/ Allocation!Release(s)
        \/ places' = places
    BY <1>5, <1>6, <1>7, StoredSteps
  <2> QED  BY <1>4, <2>1 DEF Allocation!Next

\* The webhook with its leases, the composition and the provider implement the
\* abstract allocation: all that users see is that services get a port nobody
\* has, keep it together with their gateway, and give it back.
THEOREM Refinement == Spec => ImplementsAllocation
<1>1. IInv /\ IInv' /\ [Next]_vars => [Allocation!Next]_places
  BY PlacesNext
<1> QED  BY PlacesInit, <1>1, Inductive, PTL DEF Spec, ImplementsAllocation, Allocation!Spec
=============================================================================
