----------------------------- MODULE MCWakeGate -----------------------------
(* Two signallers and a poster against one waiter.                          *)
EXTENDS WakeGate
=============================================================================
