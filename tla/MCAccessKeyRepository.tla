----------------------- MODULE MCAccessKeyRepository -----------------------
(* Model-checking instances of AccessKeyRepository. *)
EXTENDS AccessKeyRepository, TLC

CONSTANT t0, t1, t2

Symmetry == Permutations({t1, t2})
============================================================================
