---------------------------- MODULE MCManagerApp ----------------------------
(* Model-checking instances of ManagerApp. *)
EXTENDS ManagerApp

CONSTANTS d1, i1, u1, ua, ub, f1

(* The servers that exist, or are created, belong to one of two users. *)
OneOwner == [s \in Managed |-> ua]
=============================================================================
