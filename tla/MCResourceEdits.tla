--------------------------- MODULE MCResourceEdits ---------------------------
(* Instances of ResourceEdits for TLC. *)
EXTENDS ResourceEdits, TLC

SessionSymmetry == Permutations(Sessions)
=============================================================================
