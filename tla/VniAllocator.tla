---------------------------- MODULE VniAllocator ----------------------------
(***************************************************************************)
(* What the VNI numbering of a HybridFabric promises its HybridNetworks:   *)
(* a network is given a number of the fabric's pool that no other network  *)
(* of the fabric holds, keeps it until it gives it back, and each change   *)
(* of the numbering concerns one network.                                  *)
(*                                                                         *)
(* Nothing here speaks of a ConfigMap, of resource versions or of jobs:    *)
(* VniLedger is shown to implement this module.                            *)
(***************************************************************************)
EXTENDS Naturals

CONSTANTS
    Keys,       \* "<namespace>/<HybridNetwork>" keys of the ledger
    PoolStart,  \* HybridFabric.spec.vniPool.start
    PoolEnd     \* HybridFabric.spec.vniPool.end

\* 0 stands for "no VNI", as it does in the code's PREFERRED_VNI: a pool
\* starts at 1 or above (crd-hybridfabric.yaml, minimum: 1).
NoVni == 0

Pool == PoolStart..PoolEnd

VARIABLE allocated  \* the number each network holds, NoVni when it has none

Held == {allocated[k] : k \in Keys} \ {NoVni}

Init == allocated = [k \in Keys |-> NoVni]

Allocate(k) ==
    /\ allocated[k] = NoVni
    /\ \E vni \in Pool \ Held : allocated' = [allocated EXCEPT ![k] = vni]

Release(k) ==
    /\ allocated[k] # NoVni
    /\ allocated' = [allocated EXCEPT ![k] = NoVni]

Next == \E k \in Keys : Allocate(k) \/ Release(k)

Spec == Init /\ [][Next]_allocated
=============================================================================
