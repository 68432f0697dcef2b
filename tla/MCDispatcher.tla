---------------------------- MODULE MCDispatcher ----------------------------
(* Dispatcher with four chunks: two that are sniffed in turn, one that comes
   while the connection is routed and one behind it. *)
EXTENDS Dispatcher
=============================================================================
