------------------------ MODULE MCShadowsocksServer ------------------------
(* Model-checking instances of ShadowsocksServer. *)
EXTENDS ShadowsocksServer, TLC

CONSTANTS w1, w2, w3

Symmetry == Permutations({w1, w2, w3})
============================================================================
