--------------------------- MODULE MCCertificates ---------------------------
(* Certificates with two runs of the renewal, so that one may be given up and
   overlap the next one and the restart between them, and as many pairs as
   there can be in files and hands at a time and one more. *)
EXTENDS Certificates
=============================================================================
