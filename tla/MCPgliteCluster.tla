---------------------------- MODULE MCPgliteCluster ----------------------------
(* Instances of PgliteCluster for TLC. *)
EXTENDS PgliteCluster
===============================================================================
