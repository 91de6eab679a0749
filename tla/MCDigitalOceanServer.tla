------------------------ MODULE MCDigitalOceanServer ------------------------
(* Model-checking instances of DigitalOceanServer. *)
EXTENDS DigitalOceanServer

CONSTANTS p1, p2
=============================================================================
