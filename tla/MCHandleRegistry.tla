-------------------------- MODULE MCHandleRegistry --------------------------
(* A small registry for TLC: enough slots for the free list to hold several  *)
(* at once, and few enough generations for slots to retire.                  *)
EXTENDS HandleRegistry
=============================================================================
