------------------------ MODULE PortAllocationProofs ------------------------
(***************************************************************************)
(* What follows from the abstract allocation of ports, for any number of   *)
(* services, ports and gateways.  TcpGateway implements that               *)
(* specification, so what is proved here holds of its listeners.           *)
(***************************************************************************)
EXTENDS PortAllocation, TLAPS

\* At every time no two services listen on one port, which is what the
\* allocator with its leases is for.
THEOREM PortsAreUnique == Spec => [](TypeOK /\ Unique)
<1>1. Init => TypeOK /\ Unique
  BY DEF Init, TypeOK, Unique, Exposed
<1>2. TypeOK /\ Unique /\ [Next]_place => (TypeOK /\ Unique)'
  <2> SUFFICES ASSUME TypeOK, Unique, [Next]_place PROVE TypeOK' /\ Unique'
    OBVIOUS
  <2>1. CASE UNCHANGED place
    BY <2>1 DEF TypeOK, Unique, Exposed
  <2>2. ASSUME NEW s \in Services, Allocate(s) PROVE TypeOK' /\ Unique'
    <3>1. TypeOK'
      BY <2>2 DEF Allocate, TypeOK
    <3>2. \A t \in Exposed : place[t].port # place'[s].port
      BY <2>2 DEF Allocate, TakenPorts
    <3>3. \A t \in Services \ {s} : place'[t] = place[t]
      BY <2>2 DEF Allocate, TypeOK
    <3>4. Unique'
      BY <3>2, <3>3 DEF Unique, Exposed
    <3> QED BY <3>1, <3>4
  <2>3. ASSUME NEW s \in Services, Release(s) PROVE TypeOK' /\ Unique'
    <3>1. place'[s] = None /\ \A t \in Services \ {s} : place'[t] = place[t]
      BY <2>3 DEF Release, TypeOK
    <3>2. TypeOK'
      BY <2>3 DEF Release, TypeOK
    <3>3. Unique'
      BY <3>1 DEF Unique, Exposed
    <3> QED BY <3>2, <3>3
  <2> QED BY <2>1, <2>2, <2>3 DEF Next
<1> QED BY <1>1, <1>2, PTL DEF Spec

\* A service never changes its port or gateway while it is exposed: clients
\* keep the address they were given.
THEOREM PlacesStay == Spec => Stays
<1>1. TypeOK /\ [Next]_place
        => \A s \in Services : place[s] # None => place'[s] \in {place[s], None}
  <2> SUFFICES ASSUME TypeOK, [Next]_place, NEW s \in Services, place[s] # None
               PROVE  place'[s] \in {place[s], None}
    OBVIOUS
  <2>1. CASE UNCHANGED place
    BY <2>1
  <2>2. ASSUME NEW t \in Services, Allocate(t) PROVE place'[s] = place[s]
    BY <2>2 DEF Allocate, TypeOK
  <2>3. ASSUME NEW t \in Services, Release(t) PROVE place'[s] \in {place[s], None}
    BY <2>3 DEF Release, TypeOK
  <2> QED BY <2>1, <2>2, <2>3 DEF Next
<1> QED BY <1>1, PortsAreUnique, PTL DEF Spec, Stays
=============================================================================
