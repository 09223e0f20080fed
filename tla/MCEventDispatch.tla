-------------------------- MODULE MCEventDispatch --------------------------
(* Instance of EventDispatch for TLC: one loop, one API goroutine and two  *)
(* handlers that register at any time.                                     *)
EXTENDS EventDispatch
=============================================================================
