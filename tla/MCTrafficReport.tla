--------------------------- MODULE MCTrafficReport ---------------------------
(* Instance of TrafficReport for TLC: one user whose counter may be replaced
   once, two runs that may overlap. *)
EXTENDS TrafficReport
=============================================================================
