---------------------------- MODULE MCTcpGateway ----------------------------
(* Instances of TcpGateway for TLC. *)
EXTENDS TcpGateway, TLC

CONSTANTS s1, s2, s3, r1, r2, u1, u2, u3, u4, u5

Interchangeable ==
  Permutations(Services) \cup Permutations(Requests) \cup Permutations(Uids)
=============================================================================
