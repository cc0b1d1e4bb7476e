------------------------ MODULE MCBoundaryTransfers ------------------------
(* The instances of BoundaryTransfers for TLC. *)
EXTENDS BoundaryTransfers
============================================================================
