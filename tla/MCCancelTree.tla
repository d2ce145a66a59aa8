---------------------------- MODULE MCCancelTree ----------------------------
(* Two threads over three nodes.                                            *)
EXTENDS CancelTree
=============================================================================
