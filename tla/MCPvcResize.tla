---------------------------- MODULE MCPvcResize ----------------------------
(* Instances of PvcResize for TLC. *)
EXTENDS PvcResize
============================================================================
