------------------------- MODULE MCServerManagement -------------------------
EXTENDS ServerManagement
CONSTANTS s1, s2
=============================================================================
