------------------------------ MODULE MCEventBus ------------------------------
(* EventBus with a few workers and events.                                 *)
EXTENDS EventBus

CONSTANTS w1, w2, e1, e2, e3
=============================================================================
