------------------------------ MODULE MCReplica ------------------------------
(* A small primary and a replica, for TLC. *)
EXTENDS Replica
==============================================================================
