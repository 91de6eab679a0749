------------------------- MODULE MCGcpCreateServer -------------------------
(* Model-checking instances of GcpCreateServer. *)
EXTENDS GcpCreateServer

CONSTANTS p1, p2, s1, s2
=============================================================================
