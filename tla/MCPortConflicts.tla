--------------------------- MODULE MCPortConflicts ---------------------------
(* Instance of PortConflicts for TLC: every list of at most five ranges over
   four ports; one range may merge three groups and leave a fourth alone. *)
EXTENDS PortConflicts
=============================================================================
