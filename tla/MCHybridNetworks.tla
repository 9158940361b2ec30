-------------------------- MODULE MCHybridNetworks --------------------------
(***************************************************************************)
(* Instances of HybridNetworks for TLC.  OverlappingPools: a small fabric  *)
(* whose pool a larger one covers, as in the consolidation of fabrics, so  *)
(* that they are never Ready together; two networks compete for number 1.  *)
(* DisjointPools: two fabrics that are Ready together.                     *)
(***************************************************************************)
EXTENDS HybridNetworks, TLC

CONSTANTS f1, f2

OverlappingPools == f1 :> {1} @@ f2 :> {1, 2}
DisjointPools == f1 :> {1} @@ f2 :> {2, 3}
\* At most two of a failure, a placement and an event of a fabric.
TwoEvents == hist.failures + hist.placements + hist.fabricEvents <= 2
NetSymmetry == Permutations(Nets)
=============================================================================
