----------------------------- MODULE MCIngestion -----------------------------
(* Small ingestions for TLC: a handful of jobs and requests, of every kind in *)
(* every order, over one port.                                                *)
EXTENDS Ingestion
=============================================================================
