-------------------------- MODULE MCKindReconcile ---------------------------
(* Instances of KindReconcile for TLC. *)
EXTENDS KindReconcile, TLC
=============================================================================
