--------------------------- MODULE PortAllocation ---------------------------
(***************************************************************************)
(* What the TCP gateway promises its users: a service that is exposed has  *)
(* a port of its own at one gateway, and keeps both until it is gone.      *)
(* Leases, admission requests and manifests are not seen from here:        *)
(* TcpGateway implements this specification.                               *)
(***************************************************************************)
CONSTANTS
  Services,   \* service instances
  Ports,      \* the port range
  Gateways,   \* the gateways
  None        \* not exposed

VARIABLE place   \* the port and the gateway of every service

Place == [port: Ports, gw: Gateways]

Exposed == {s \in Services : place[s] # None}
TakenPorts == {place[s].port : s \in Exposed}

\* A service gets a port that nobody has.
Allocate(s) ==
  /\ place[s] = None
  /\ place'[s] \in Place
  /\ place'[s].port \notin TakenPorts
  /\ place' = [place EXCEPT ![s] = place'[s]]

\* It gives the port back when it goes.
Release(s) ==
  /\ place[s] # None
  /\ place' = [place EXCEPT ![s] = None]

Init == place = [s \in Services |-> None]
Next == \E s \in Services : Allocate(s) \/ Release(s)
Spec == Init /\ [][Next]_place
-----------------------------------------------------------------------------
\* Every service is unexposed or at a place.
TypeOK == place \in [Services -> Place \cup {None}]

\* No two exposed services have the same port.
Unique == \A s, t \in Exposed : s # t => place[s].port # place[t].port

\* A service stays where it is until it is gone.
Stays == [][\A s \in Services : place[s] # None => place'[s] \in {place[s], None}]_place
=============================================================================
