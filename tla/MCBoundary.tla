----------------------------- MODULE MCBoundary -----------------------------
(* Small boundaries for TLC: two slots per registry so that free lists,      *)
(* reuse and cascades meet, two generations so that slots retire, and byte   *)
(* caps that two captures exceed.                                            *)
EXTENDS Boundary
=============================================================================
