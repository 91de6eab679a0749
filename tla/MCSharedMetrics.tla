--------------------------- MODULE MCSharedMetrics ---------------------------
(* Model-checking instances of SharedMetrics: two transfers of k1, others of *)
(* k2.                                                                       *)
EXTENDS SharedMetrics, TLC

CONSTANTS k1, k2, b1, b2, b3, b4, c1, c2

MCKeyOf == [b \in Transfers |-> IF b \in {b1, b2} THEN k1 ELSE k2]

Symmetry == Permutations({c1, c2})
=============================================================================
