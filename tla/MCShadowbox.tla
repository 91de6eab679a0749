---------------------------- MODULE MCShadowbox ----------------------------
(* Model-checking instances of Shadowbox. *)
EXTENDS Shadowbox, TLC

CONSTANTS t0, t1, w1, w2

Symmetry == Permutations({w1, w2})
============================================================================
