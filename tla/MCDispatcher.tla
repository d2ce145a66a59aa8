---------------------------- MODULE MCDispatcher ----------------------------
(* Two clients and the dispatcher's thread.                                 *)
EXTENDS Dispatcher
=============================================================================
