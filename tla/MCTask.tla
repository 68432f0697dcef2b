------------------------------- MODULE MCTask -------------------------------
(* Instance of Task for TLC: with three slots two abandoned runs overlap a
   third one.  Its constants are model values given in MCTask.cfg. *)
EXTENDS Task
=============================================================================
