--------------------------- MODULE HybridNetworks ---------------------------
(***************************************************************************)
(* HybridNetworks, the placements that use them and the HybridFabrics that *)
(* number them: the provision and teardown playbooks of networks and of    *)
(* fabrics, over the numbering ledger of each fabric, and the migration    *)
(* that carries the numbers of networks into the fabric they now name.     *)
(*                                                                         *)
(* The scripts that allocate and release in a ledger are single steps here *)
(* because VniLedger implements VniAllocator, whose steps are these.  All  *)
(* the rest interleaves: a playbook reads a resource and the placements,   *)
(* changes a ledger and patches the status in three steps, and users,      *)
(* other playbooks and failures come in between.                           *)
(*                                                                         *)
(* An AAP job template runs one job at a time, so there is at most one     *)
(* provision and one teardown of a network, and one of a fabric.  They are *)
(* two templates: a provision that waited in AAP starts on a resource that *)
(* is being deleted, and a teardown starts during a provision, since the   *)
(* operator's cancel is best effort.                                       *)
(*                                                                         *)
(* An operator introduced by "Mutant:" is a plausible slip in the          *)
(* definition after it; no behaviour of the specification uses it.         *)
(***************************************************************************)
EXTENDS Naturals, FiniteSets

CONSTANTS
    Nets,            \* HybridNetworks: ledger keys "<namespace>/<name>"
    Fabrics,         \* HybridFabrics, all visible to the entity
    Pool,            \* Pool[f]: the numbers of spec.vniPool of fabric f
    MaxFailures,     \* bound: playbooks that fail or die
    MaxWrites,       \* bound: networks created and fabricRefs edited
    MaxPlacements,   \* bound: placements created
    MaxFabricEvents  \* bound: deletions and reconciles of fabrics

NoVni == 0
NoFabric == "none"
NoNet == "none"

ASSUME PoolAssumption ==
    /\ Pool \in [Fabrics -> SUBSET (Nat \ {NoVni})]
    /\ NoFabric \notin Fabrics
    /\ MaxFailures \in Nat /\ MaxWrites \in Nat
    /\ MaxPlacements \in Nat /\ MaxFabricEvents \in Nat

VARIABLES
    net,     \* the HybridNetwork resources
    placed,  \* networks some NetworkPlacement refers to
    fab,     \* the HybridFabric resources
    ledger,  \* ConfigMaps fabric-numbering-<fabric>
    prov,    \* the hybridnetwork-provision job in progress
    tear,    \* the hybridnetwork-teardown job in progress
    fprov,   \* the hybridfabric-provision job in progress
    ftear,   \* the hybridfabric-teardown job in progress
    hist     \* history: bounds, and what explains a lost or orphaned number

vars == <<net, placed, fab, ledger, prov, tear, fprov, ftear, hist>>

Vnis == (UNION {Pool[f] : f \in Fabrics}) \cup {NoVni}

Networks ==
    [exists : BOOLEAN, deleting : BOOLEAN,
     ref : Fabrics \cup {NoFabric},      \* spec.fabricRef
     fabric : Fabrics \cup {NoFabric},   \* status.fabric
     vni : Vnis,                         \* status.vni
     allocated : BOOLEAN,                \* status.allocated
     complete : BOOLEAN]                 \* status.deletionComplete

NewNetwork ==
    [exists |-> TRUE, deleting |-> FALSE, ref |-> NoFabric, fabric |-> NoFabric,
     vni |-> NoVni, allocated |-> FALSE, complete |-> FALSE]

Absent == [NewNetwork EXCEPT !.exists = FALSE]

FabricStates ==
    [exists : BOOLEAN, deleting : BOOLEAN, ready : BOOLEAN, complete : BOOLEAN]

Ledgers == [exists : BOOLEAN, held : [Nets -> Vnis]]
EmptyLedger == [exists |-> TRUE, held |-> [n \in Nets |-> NoVni]]

IdleProvision == [pc |-> "idle", net |-> NoNet, fabric |-> NoFabric, prior |-> NoVni, vni |-> NoVni]
IdleTeardown == [pc |-> "idle", net |-> NoNet, fabric |-> NoFabric]
IdleFabricProvision ==
    [pc |-> "idle", fabric |-> NoFabric, mine |-> EmptyLedger.held,
     keep |-> [g \in {} |-> EmptyLedger.held], moves |-> {}]
IdleFabricTeardown == [pc |-> "idle", fabric |-> NoFabric]

Init ==
    /\ net = [n \in Nets |-> Absent]
    /\ placed = {}
    /\ \E ready \in SUBSET Fabrics :
          /\ \A f, g \in ready : f = g \/ Pool[f] \cap Pool[g] = {}
          /\ fab = [f \in Fabrics |-> [exists |-> TRUE, deleting |-> FALSE,
                                       ready |-> f \in ready, complete |-> FALSE]]
    /\ ledger = [f \in Fabrics |-> EmptyLedger]
    /\ prov = IdleProvision /\ tear = IdleTeardown
    /\ fprov = IdleFabricProvision /\ ftear = IdleFabricTeardown
    /\ hist = [failures |-> 0, writes |-> 0, placements |-> 0, fabricEvents |-> 0,
               moved |-> {}, unreported |-> {}, crossed |-> {}, overlapped |-> {},
               late |-> {}]

-----------------------------------------------------------------------------
(* Users *)

CreateNetwork(n) ==
    /\ ~ net[n].exists /\ hist.writes < MaxWrites
    /\ \E ref \in Fabrics \cup {NoFabric} :
          net' = [net EXCEPT ![n] = [NewNetwork EXCEPT !.ref = ref]]
    /\ hist' = [hist EXCEPT !.writes = @ + 1]
    /\ UNCHANGED <<placed, fab, ledger, prov, tear, fprov, ftear>>

DeleteNetwork(n) ==
    /\ net[n].exists /\ ~ net[n].deleting
    /\ net' = [net EXCEPT ![n].deleting = TRUE]
    /\ UNCHANGED <<placed, fab, ledger, prov, tear, fprov, ftear, hist>>

\* The CRD makes fabricRef immutable (self == oldSelf), which the API server
\* applies to a value that replaces another: one may be added or removed.
EditFabricRef(n) ==
    /\ net[n].exists /\ ~ net[n].deleting /\ hist.writes < MaxWrites
    /\ hist' = [hist EXCEPT !.writes = @ + 1]
    /\ \E ref \in IF net[n].ref = NoFabric THEN Fabrics ELSE {NoFabric} :
          net' = [net EXCEPT ![n].ref = ref]
    /\ UNCHANGED <<placed, fab, ledger, prov, tear, fprov, ftear>>

\* Nothing refuses a placement on a network that is being deleted.
CreatePlacement(n) ==
    /\ net[n].exists /\ n \notin placed
    /\ hist.placements < MaxPlacements
    /\ placed' = placed \cup {n}
    /\ hist' = [hist EXCEPT !.placements = @ + 1,
                            !.late = IF tear.net = n THEN @ \cup {n} ELSE @]
    /\ UNCHANGED <<net, fab, ledger, prov, tear, fprov, ftear>>

RemovePlacement(n) ==
    /\ n \in placed
    /\ placed' = placed \ {n}
    /\ hist' = [hist EXCEPT !.late = @ \ {n}]
    /\ UNCHANGED <<net, fab, ledger, prov, tear, fprov, ftear>>

DeleteFabric(f) ==
    /\ fab[f].exists /\ ~ fab[f].deleting /\ hist.fabricEvents < MaxFabricEvents
    /\ fab' = [fab EXCEPT ![f].deleting = TRUE]
    /\ hist' = [hist EXCEPT !.fabricEvents = @ + 1]
    /\ UNCHANGED <<net, placed, ledger, prov, tear, fprov, ftear>>

-----------------------------------------------------------------------------
(* Provisioning a network *)

ReadyFabrics == {f \in Fabrics : fab[f].exists /\ fab[f].ready}

\* "Prefer previously selected fabric when still Ready", else spec.fabricRef,
\* else the only visible fabric.
Selected(n) ==
    CASE net[n].fabric \in ReadyFabrics -> {net[n].fabric}
      [] net[n].fabric \notin ReadyFabrics /\ net[n].ref # NoFabric ->
            {net[n].ref} \cap ReadyFabrics
      [] OTHER -> IF Cardinality(ReadyFabrics) = 1 THEN ReadyFabrics ELSE {}

Holders(n) == {f \in Fabrics : ledger[f].held[n] # NoVni}

\* History: a number in a ledger that the status may no longer report.
Unreported(n) == hist.unreported \cup IF Holders(n) = {} THEN {} ELSE {n}

\* The rescue of the playbook; a resource that is gone cannot be patched.
ProvisionRescue(n) ==
    /\ net' = IF net[n].exists THEN [net EXCEPT ![n].allocated = FALSE] ELSE net
    /\ hist' = [hist EXCEPT !.unreported = Unreported(n)]

\* A job starts although the operator cancelled it, or during one that the
\* operator cancelled: a failure too, which the history records.
Overlapping(ns) ==
    /\ hist.failures < MaxFailures
    /\ hist' = [hist EXCEPT !.failures = @ + 1, !.overlapped = @ \cup ns]

\* The playbook reads the network and the fabrics and selects one.  (Between
\* those two reads only the fabrics change.)
StartProvision(n) ==
    /\ prov.pc = "idle" /\ net[n].exists
    /\ \/ /\ \E f \in Selected(n) :
                prov' = [pc |-> "allocate", net |-> n, fabric |-> f,
                         prior |-> net[n].vni, vni |-> NoVni]
          /\ IF net[n].deleting THEN Overlapping({n}) ELSE UNCHANGED hist
          /\ UNCHANGED net
       \/ /\ Selected(n) = {}   \* NoVisibleFabric, FabricRefNotVisible or FabricRefRequired
          /\ ProvisionRescue(n)
          /\ UNCHANGED prov
    /\ UNCHANGED <<placed, fab, ledger, tear, fprov, ftear>>

Free(f) == Pool[f] \ {ledger[f].held[n] : n \in Nets}

\* Mutant: the script takes a new number for a network that has one.
ChoiceAlwaysNew(n, f, prior) == IF prior \in Free(f) THEN {prior} ELSE Free(f)

\* fabric_numbering_allocate: the network's number, its previous one, or any.
Choice(n, f, prior) ==
    CASE ledger[f].held[n] # NoVni -> {ledger[f].held[n]}
      [] ledger[f].held[n] = NoVni /\ prior \in Free(f) -> {prior}
      [] OTHER -> Free(f)

AllocateVni ==
    /\ prov.pc = "allocate" /\ ledger[prov.fabric].exists
    /\ \E vni \in Choice(prov.net, prov.fabric, prov.prior) :
          /\ ledger' = [ledger EXCEPT ![prov.fabric].held[prov.net] = vni]
          /\ prov' = [prov EXCEPT !.pc = "report", !.vni = vni]
    /\ UNCHANGED <<net, placed, fab, tear, fprov, ftear, hist>>

\* No ledger, or no number left: the script exits 1 or 2.
AllocateFails ==
    /\ prov.pc = "allocate"
    /\ \/ ~ ledger[prov.fabric].exists
       \/ Choice(prov.net, prov.fabric, prov.prior) = {}
    /\ ProvisionRescue(prov.net)
    /\ prov' = IdleProvision
    /\ UNCHANGED <<placed, fab, ledger, tear, fprov, ftear>>

\* "Mark HybridNetwork ready"
MarkReady ==
    /\ prov.pc = "report"
    /\ LET n == prov.net IN
       /\ net' = IF net[n].exists
                 THEN [net EXCEPT ![n].allocated = TRUE, ![n].vni = prov.vni,
                                  ![n].fabric = prov.fabric]
                 ELSE net
       /\ hist' = IF net[n].fabric \notin {NoFabric, prov.fabric}
                  THEN [hist EXCEPT !.moved = @ \cup {n}] ELSE hist
    /\ prov' = IdleProvision
    /\ UNCHANGED <<placed, fab, ledger, tear, fprov, ftear>>

\* A task fails and the rescue reports it, or the job dies without a word.
ProvisionFails ==
    /\ prov.pc # "idle" /\ hist.failures < MaxFailures
    /\ \/ net' = IF net[prov.net].exists
                 THEN [net EXCEPT ![prov.net].allocated = FALSE] ELSE net
       \/ UNCHANGED net
    /\ prov' = IdleProvision
    /\ hist' = [hist EXCEPT !.failures = @ + 1, !.unreported = Unreported(prov.net)]
    /\ UNCHANGED <<placed, fab, ledger, tear, fprov, ftear>>

-----------------------------------------------------------------------------
(* Tearing a network down *)

\* The teardown counts the placements anew; a provision may still be at work on
\* the network.
Counted(n) ==
    /\ prov.net = n => hist.failures < MaxFailures
    /\ hist' = [hist EXCEPT !.late = @ \ {n},
                            !.failures = IF prov.net = n THEN @ + 1 ELSE @,
                            !.overlapped = IF prov.net = n THEN @ \cup {n} ELSE @]

\* Mutant: the placements are not counted.
StartTeardownUncounted(n) ==
    /\ tear.pc = "idle"
    /\ net[n].exists /\ net[n].deleting /\ ~ net[n].complete
    /\ tear' = [pc |-> IF net[n].fabric # NoFabric /\ net[n].allocated
                       THEN "release" ELSE "complete",
                net |-> n, fabric |-> net[n].fabric]
    /\ Counted(n)
    /\ UNCHANGED <<net, placed, fab, ledger, prov, fprov, ftear>>

\* "Block teardown while placements remain"; without placements the number is
\* released when the status says that one was allocated.
StartTeardown(n) ==
    /\ tear.pc = "idle"
    /\ net[n].exists /\ net[n].deleting /\ ~ net[n].complete
    /\ \/ /\ n \in placed
          /\ net' = [net EXCEPT ![n].complete = FALSE]
          /\ UNCHANGED <<tear, hist>>
       \/ /\ n \notin placed
          /\ tear' = [pc |-> IF net[n].fabric # NoFabric /\ net[n].allocated
                             THEN "release" ELSE "complete",
                      net |-> n, fabric |-> net[n].fabric]
          /\ Counted(n)
          /\ UNCHANGED net
    /\ UNCHANGED <<placed, fab, ledger, prov, fprov, ftear>>

\* fabric_numbering_release: nothing to do when the ledger is gone.
ReleaseVni ==
    /\ tear.pc = "release"
    /\ ledger' = IF ledger[tear.fabric].exists
                 THEN [ledger EXCEPT ![tear.fabric].held[tear.net] = NoVni]
                 ELSE ledger
    /\ tear' = [tear EXCEPT !.pc = "complete"]
    /\ UNCHANGED <<net, placed, fab, prov, fprov, ftear, hist>>

\* "Mark deletion complete"
MarkDeletionComplete ==
    /\ tear.pc = "complete"
    /\ net' = IF net[tear.net].exists
              THEN [net EXCEPT ![tear.net].allocated = FALSE, ![tear.net].complete = TRUE]
              ELSE net
    /\ tear' = IdleTeardown
    /\ UNCHANGED <<placed, fab, ledger, prov, fprov, ftear, hist>>

\* Mutant: the rescue clears status.allocated, as the provision's does.
TeardownFailsForgets ==
    /\ tear.pc # "idle" /\ hist.failures < MaxFailures
    /\ net' = IF net[tear.net].exists
              THEN [net EXCEPT ![tear.net].complete = FALSE, ![tear.net].allocated = FALSE]
              ELSE net
    /\ tear' = IdleTeardown
    /\ hist' = [hist EXCEPT !.failures = @ + 1]
    /\ UNCHANGED <<placed, fab, ledger, prov, fprov, ftear>>

\* A task fails and the rescue reports it, or the job dies without a word.
TeardownFails ==
    /\ tear.pc # "idle" /\ hist.failures < MaxFailures
    /\ \/ net' = IF net[tear.net].exists THEN [net EXCEPT ![tear.net].complete = FALSE]
                 ELSE net
       \/ UNCHANGED net
    /\ tear' = IdleTeardown
    /\ hist' = [hist EXCEPT !.failures = @ + 1]
    /\ UNCHANGED <<placed, fab, ledger, prov, fprov, ftear>>

\* The kind operator releases the finalizer (KindReconcile).
FinalizeNetwork(n) ==
    /\ net[n].exists /\ net[n].deleting /\ net[n].complete
    /\ net' = [net EXCEPT ![n] = Absent]
    /\ UNCHANGED <<placed, fab, ledger, prov, tear, fprov, ftear, hist>>

-----------------------------------------------------------------------------
(* Fabrics *)

\* Launching the provision job of a fabric, the kind operator reports ready:
\* false.
ReconcileFabric(f) ==
    /\ fab[f].exists /\ ~ fab[f].deleting /\ fab[f].ready
    /\ hist.fabricEvents < MaxFabricEvents
    /\ fab' = [fab EXCEPT ![f].ready = FALSE]
    /\ hist' = [hist EXCEPT !.fabricEvents = @ + 1]
    /\ UNCHANGED <<net, placed, ledger, prov, tear, fprov, ftear>>

\* The provision playbook refuses a pool that overlaps a Ready fabric's.
Overlaps(f) == \E g \in ReadyFabrics \ {f} : Pool[f] \cap Pool[g] # {}

\* What other ledgers hold for a network that names f now.
Offered(f, n) ==
    IF net[n].exists /\ net[n].ref = f
    THEN {ledger[g].held[n] : g \in Fabrics \ {f}} \ {NoVni} ELSE {}

\* "Plan ledger migration": the ledger of f with every offered number that is
\* in its pool and held by nobody there.  When two networks offer the same
\* number the first in the order of the names gets it: here, either.
Plans(f) ==
    {mine \in [Nets -> Vnis] : \A n \in Nets :
        LET vni == ledger[f].held[n]
            fits == Offered(f, n) \cap Pool[f]
            taken(v) == \E m \in Nets \ {n} : mine[m] = v
        IN IF vni # NoVni THEN mine[n] = vni
           ELSE \/ mine[n] \in fits /\ ~ taken(mine[n])
                \/ mine[n] = NoVni /\ \A v \in fits : taken(v)}

\* Networks whose number leaves the ledger of g.
Leaving(f, g, mine) ==
    {n \in Nets : net[n].exists /\ net[n].ref = f
                  /\ ledger[g].held[n] # NoVni /\ ledger[g].held[n] = mine[n]}

\* The migration is over, or there is none.
Counting(f) == [IdleFabricProvision EXCEPT !.pc = "report", !.fabric = f]

Without(held, ns) == [n \in Nets |-> IF n \in ns THEN NoVni ELSE held[n]]

\* The playbook passes the overlap check (or fails and leaves the fabric not
\* ready), creates the ledger if there is none, then lists the ledgers and the
\* networks and plans the migration.  (A network whose fabricRef is edited
\* between the two lists counts as edited before them.)
StartFabricProvision(f) ==
    /\ fprov.pc = "idle"
    /\ fab[f].exists /\ ~ fab[f].ready
    /\ ~ Overlaps(f)
    /\ ledger' = [ledger EXCEPT ![f].exists = TRUE]
    /\ \E mine \in Plans(f) :
          LET legacy == {g \in Fabrics \ {f} : Leaving(f, g, mine) # {}} IN
          fprov' = IF legacy = {} THEN Counting(f)
                   ELSE [pc |-> "add", fabric |-> f, mine |-> mine,
                         keep |-> [g \in legacy |->
                                     Without(ledger[g].held, Leaving(f, g, mine))],
                         moves |-> UNION {Leaving(f, g, mine) : g \in legacy}]
    /\ IF fab[f].deleting THEN Overlapping(fprov'.moves) ELSE UNCHANGED hist
    /\ UNCHANGED <<net, placed, fab, prov, tear, ftear>>

\* Networks whose entries were written since the lists: what the plan says
\* replaces an allocation or undoes a release, or the number a network was to
\* leave or to find has gone.
CrossedHere == {n \in Nets : ledger[fprov.fabric].held[n] #
                  IF fprov.pc = "add" /\ n \in fprov.moves THEN NoVni ELSE fprov.mine[n]}
CrossedThere(g) == {n \in Nets : ledger[g].held[n] #
                      IF n \in fprov.moves THEN fprov.mine[n] ELSE fprov.keep[g][n]}

\* "state: patched" replaces the whole map, and passes over a ledger that is
\* gone.
Patched(g, held) ==
    IF ledger[g].exists THEN [ledger EXCEPT ![g].held = held] ELSE ledger

\* "Write this fabric's ledger first", as planned.
MigrateAdd ==
    /\ fprov.pc = "add"
    /\ ledger' = Patched(fprov.fabric, fprov.mine)
    /\ hist' = [hist EXCEPT !.moved = @ \cup fprov.moves,
                            !.crossed = @ \cup CrossedHere]
    /\ fprov' = [fprov EXCEPT !.pc = "remove"]
    /\ UNCHANGED <<net, placed, fab, prov, tear, ftear>>

\* "Remove migrated keys from legacy ledgers", one after the other.
MigrateRemove(g) ==
    /\ fprov.pc = "remove" /\ g \in DOMAIN fprov.keep
    /\ ledger' = Patched(g, fprov.keep[g])
    /\ hist' = [hist EXCEPT !.crossed =
                  @ \cup CrossedHere \cup CrossedThere(g)]
    /\ LET rest == DOMAIN fprov.keep \ {g} IN
       fprov' = IF rest = {} THEN Counting(fprov.fabric)
                ELSE [fprov EXCEPT !.keep = [h \in rest |-> fprov.keep[h]]]
    /\ UNCHANGED <<net, placed, fab, prov, tear, ftear>>

\* "Mark HybridFabric ready", once the ledger has been counted.
MarkFabricReady ==
    /\ fprov.pc = "report" /\ ledger[fprov.fabric].exists
    /\ fab' = IF fab[fprov.fabric].exists
              THEN [fab EXCEPT ![fprov.fabric].ready = TRUE] ELSE fab
    /\ fprov' = IdleFabricProvision
    /\ UNCHANGED <<net, placed, ledger, prov, tear, ftear, hist>>

\* The ledger to count is gone: the rescue reports ready: false.
FabricProvisionStuck ==
    /\ fprov.pc = "report" /\ ~ ledger[fprov.fabric].exists
    /\ fab' = IF fab[fprov.fabric].exists
              THEN [fab EXCEPT ![fprov.fabric].ready = FALSE] ELSE fab
    /\ fprov' = IdleFabricProvision
    /\ UNCHANGED <<net, placed, ledger, prov, tear, ftear, hist>>

\* A task fails and the rescue reports it, or the job dies without a word.
FabricProvisionFails ==
    /\ fprov.pc # "idle" /\ hist.failures < MaxFailures
    /\ \/ fab' = IF fab[fprov.fabric].exists
                 THEN [fab EXCEPT ![fprov.fabric].ready = FALSE] ELSE fab
       \/ UNCHANGED fab
    /\ fprov' = IdleFabricProvision
    /\ hist' = [hist EXCEPT !.failures = @ + 1]
    /\ UNCHANGED <<net, placed, ledger, prov, tear, ftear>>

\* Launching the teardown, the kind operator reports ready: false.
MarkFabricNotReady(f) ==
    /\ fab[f].exists /\ fab[f].deleting /\ ~ fab[f].complete /\ fab[f].ready
    /\ fab' = [fab EXCEPT ![f].ready = FALSE]
    /\ UNCHANGED <<net, placed, ledger, prov, tear, fprov, ftear, hist>>

Allocated(f) == {n \in Nets : ledger[f].held[n] # NoVni}

\* "Block teardown while CloudGateways are attached" and "while VNIs remain
\* allocated".  Gateways come and go outside this module (WireGuardLedger).
StartFabricTeardown(f) ==
    /\ ftear.pc = "idle"
    /\ fab[f].exists /\ fab[f].deleting /\ ~ fab[f].complete
    /\ \E attached \in BOOLEAN :
          \/ /\ attached \/ (ledger[f].exists /\ Allocated(f) # {})
             /\ fab' = [fab EXCEPT ![f].ready = FALSE]
             /\ UNCHANGED <<ftear, hist>>
          \/ /\ ~ attached /\ (~ ledger[f].exists \/ Allocated(f) = {})
             /\ ftear' = [pc |-> IF ledger[f].exists THEN "delete" ELSE "complete",
                          fabric |-> f]
             /\ IF fprov.fabric = f THEN Overlapping(fprov.moves) ELSE UNCHANGED hist
             /\ UNCHANGED fab
    /\ UNCHANGED <<net, placed, ledger, prov, tear, fprov>>

\* "Delete numbering ConfigMap (safe: zero VNIs allocated)"
DeleteLedger ==
    /\ ftear.pc = "delete"
    /\ ledger' = [ledger EXCEPT ![ftear.fabric] = [EmptyLedger EXCEPT !.exists = FALSE]]
    /\ ftear' = [ftear EXCEPT !.pc = "complete"]
    /\ UNCHANGED <<net, placed, fab, prov, tear, fprov, hist>>

MarkFabricComplete ==
    /\ ftear.pc = "complete"
    /\ fab' = [fab EXCEPT ![ftear.fabric].ready = TRUE, ![ftear.fabric].complete = TRUE]
    /\ ftear' = IdleFabricTeardown
    /\ UNCHANGED <<net, placed, ledger, prov, tear, fprov, hist>>

FabricTeardownFails ==
    /\ ftear.pc # "idle" /\ hist.failures < MaxFailures
    /\ \/ fab' = [fab EXCEPT ![ftear.fabric].ready = FALSE,
                             ![ftear.fabric].complete = FALSE]
       \/ UNCHANGED fab
    /\ ftear' = IdleFabricTeardown
    /\ hist' = [hist EXCEPT !.failures = @ + 1]
    /\ UNCHANGED <<net, placed, ledger, prov, tear, fprov>>

FinalizeFabric(f) ==
    /\ fab[f].exists /\ fab[f].deleting /\ fab[f].complete
    /\ fab' = [fab EXCEPT ![f].exists = FALSE]
    /\ UNCHANGED <<net, placed, ledger, prov, tear, fprov, ftear, hist>>

-----------------------------------------------------------------------------
User ==
    \/ \E n \in Nets : CreateNetwork(n) \/ DeleteNetwork(n) \/ EditFabricRef(n)
                       \/ CreatePlacement(n) \/ RemovePlacement(n)
    \/ \E f \in Fabrics : DeleteFabric(f)

Provision(n) == StartProvision(n) \/ (prov.net = n /\ (AllocateVni \/ AllocateFails \/ MarkReady))

Teardown(n) ==
    \/ StartTeardown(n)
    \/ tear.net = n /\ (ReleaseVni \/ MarkDeletionComplete)
    \/ FinalizeNetwork(n)

FabricSteps(f) ==
    \/ ReconcileFabric(f) \/ MarkFabricNotReady(f)
    \/ StartFabricProvision(f) \/ MigrateRemove(f)
    \/ fprov.fabric = f /\ (MigrateAdd \/ MarkFabricReady \/ FabricProvisionStuck)
    \/ StartFabricTeardown(f)
    \/ ftear.fabric = f /\ (DeleteLedger \/ MarkFabricComplete)
    \/ FinalizeFabric(f)

Failure == ProvisionFails \/ TeardownFails \/ FabricProvisionFails \/ FabricTeardownFails

Next ==
    \/ User \/ Failure
    \/ \E n \in Nets : Provision(n) \/ Teardown(n)
    \/ \E f \in Fabrics : FabricSteps(f)

Spec == Init /\ [][Next]_vars

-----------------------------------------------------------------------------
(* Properties *)

ProvisionJobs ==
    [pc : {"idle", "allocate", "report"}, net : Nets \cup {NoNet},
     fabric : Fabrics \cup {NoFabric}, prior : Vnis, vni : Vnis]

TeardownJobs ==
    [pc : {"idle", "release", "complete"}, net : Nets \cup {NoNet},
     fabric : Fabrics \cup {NoFabric}]

FabricProvisionJobs ==
    [pc : {"idle", "add", "remove", "report"}, fabric : Fabrics \cup {NoFabric},
     mine : [Nets -> Vnis], moves : SUBSET Nets,
     keep : UNION {[gs -> [Nets -> Vnis]] : gs \in SUBSET Fabrics}]

FabricTeardownJobs ==
    [pc : {"idle", "delete", "complete"}, fabric : Fabrics \cup {NoFabric}]

Histories ==
    [failures : 0..MaxFailures, writes : 0..MaxWrites,
     placements : 0..MaxPlacements, fabricEvents : 0..MaxFabricEvents,
     moved : SUBSET Nets,        \* networks that changed fabric
     unreported : SUBSET Nets,   \* whose provision failed with a number in a ledger
     crossed : SUBSET Nets,      \* whose entry a migration replaced
     overlapped : SUBSET Nets,   \* provisioned, or carried to a fabric, while
                                 \* the network or that fabric was torn down
     late : SUBSET Nets]         \* placed since their teardown counted

TypeOK ==
    /\ net \in [Nets -> Networks]
    /\ placed \subseteq Nets
    /\ fab \in [Fabrics -> FabricStates]
    /\ ledger \in [Fabrics -> Ledgers]
    /\ prov \in ProvisionJobs /\ tear \in TeardownJobs
    /\ fprov \in FabricProvisionJobs /\ ftear \in FabricTeardownJobs
    /\ hist \in Histories
    /\ prov.pc # "idle" => prov.net \in Nets /\ prov.fabric \in Fabrics
    /\ tear.pc # "idle" => tear.net \in Nets
    /\ tear.pc = "release" => tear.fabric \in Fabrics
    /\ fprov.pc # "idle" => fprov.fabric \in Fabrics
    /\ ftear.pc # "idle" => ftear.fabric \in Fabrics

\* A network whose status says that a VNI is allocated holds that VNI in the
\* ledger of its fabric, or in the one it was carried to, unless the network or
\* the fabric is being deleted: the status never outlives the number, so no
\* other network is given it.  Two cases break it and are excepted by name, one
\* network at a time: a migration replaced the network's entry with an older
\* one (crossed), or a provision overlapped a teardown (overlapped).
AllocatedIsRecorded ==
    \A n \in Nets \ (hist.crossed \cup hist.overlapped) :
        LET f == net[n].fabric
            here == IF n \in hist.moved THEN Fabrics ELSE {f}
        IN net[n].exists /\ ~ net[n].deleting /\ net[n].allocated =>
              /\ f \in Fabrics
              /\ ~ fab[f].deleting => \E g \in here : ledger[g].held[n] = net[n].vni

\* "release VNI only when zero placements remain", and "a VNI is never absent
\* from both ledgers": no step takes its last number from a network that a
\* placement still refers to, unless the step deletes the ledger, a migration
\* replaces an entry written since its list (crossed), or the placement came
\* after the teardown had counted (late).
ReleasedOnlyUnplaced ==
    [][ \A n \in Nets :
            Holders(n) # {} /\ Holders(n)' = {} /\ n \notin hist'.crossed
              /\ (\A f \in Holders(n) : ledger'[f].exists)
                => n \notin placed \ hist.late ]_vars

\* A network that is gone has given its numbers back, however often its
\* teardown failed, if every provision of it has reported and none overlapped
\* its teardown, it has not moved between fabrics and no migration replaced its
\* entry.
NoOrphan ==
    \A n \in Nets \ (hist.moved \cup hist.unreported \cup hist.crossed
                     \cup hist.overlapped), f \in Fabrics :
        ~ net[n].exists => ledger[f].held[n] = NoVni

-----------------------------------------------------------------------------
(* What the repository says and the playbooks do not do *)

\* "VNI released (0 placements remaining) and HybridNetwork torn down"
\* (hybridnetwork_teardown/tasks/main.yml:130)
ReleasedWhenComplete ==
    \A n \in Nets, f \in Fabrics :
        net[n].exists /\ net[n].deleting /\ net[n].complete => ledger[f].held[n] = NoVni

\* "release VNI only when zero placements remain"
\* (hybridnetwork_teardown/tasks/main.yml:2), for late placements too
PlacedNeverReleased == [][ ReleaseVni => tear.net \notin placed ]_vars

\* "never delete the numbering ledger while VNIs remain allocated"
\* (hybridfabric_teardown/tasks/main.yml:2-3)
LedgerKeptWhileAllocated == [][ DeleteLedger => Allocated(ftear.fabric) = {} ]_vars

\* "Write this fabric's ledger first so a VNI is never absent from both ledgers."
\* (hybridfabric_provision/tasks/ledger_migrate_legacy.yml:117)
NeverAbsent ==
    [][ MigrateAdd \/ (\E g \in Fabrics : MigrateRemove(g))
          => \A n \in Nets : net[n].exists /\ ~ net[n].deleting /\ Holders(n) # {}
                               => Holders(n)' # {} ]_vars
=============================================================================
