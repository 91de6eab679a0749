---------------------------- MODULE MCGcpServer ----------------------------
(* Model-checking instances of GcpServer. *)
EXTENDS GcpServer
=============================================================================
