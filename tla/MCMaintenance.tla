--------------------------- MODULE MCMaintenance ---------------------------
(* Small instances of Maintenance for TLC. *)
EXTENDS Maintenance

CONSTANTS t1, t2
============================================================================
