------------------------ MODULE HybridNetworksProofs ------------------------
(***************************************************************************)
(* For any networks, fabrics and pools, overlapping or not, and any number *)
(* of failures, edits, placements and migrations: a status that reports a  *)
(* number is backed by a ledger, a network that is gone has given its      *)
(* numbers back, and a number is released only when no placement is left.  *)
(*                                                                         *)
(* None of these is inductive, since a job acts on what it read steps ago. *)
(* JobsApart and JobsKnow say what a job may still rely on, Backed what    *)
(* stands behind a number that is reported or about to be, and Accounted   *)
(* who still answers for a number that a ledger holds.                     *)
(***************************************************************************)
EXTENDS HybridNetworks, TLAPS

\* A provision and a teardown that work on one network, or on one fabric, are
\* known to overlap.
JobsApart ==
    /\ prov.pc # "idle" /\ tear.pc # "idle" /\ tear.net = prov.net =>
          prov.net \in hist.overlapped
    /\ fprov.pc # "idle" /\ ftear.pc # "idle" /\ ftear.fabric = fprov.fabric =>
          fprov.moves \subseteq hist.overlapped

\* What a job has read and nobody has changed since, but for overlaps.
JobsKnow ==
    /\ prov.pc # "idle" =>
          \/ prov.net \in hist.overlapped
          \/ net[prov.net].exists /\ ~ net[prov.net].complete
    /\ tear.pc # "idle" =>
          /\ net[tear.net].exists /\ net[tear.net].deleting /\ ~ net[tear.net].complete
          /\ tear.pc = "release" => \/ tear.net \in hist.overlapped
                                    \/ net[tear.net].fabric = tear.fabric
    /\ fprov.pc # "idle" => fprov.fabric \notin DOMAIN fprov.keep
    /\ fprov.pc \in {"add", "remove"} => \A n \in fprov.moves : fprov.mine[n] # NoVni
    /\ fprov.pc = "remove" => fprov.moves \subseteq hist.moved
    /\ ftear.pc # "idle" => fab[ftear.fabric].deleting
    /\ \A n \in Nets : net[n].complete => net[n].deleting
    /\ \A f \in Fabrics : ~ ledger[f].exists => Allocated(f) = {}

\* The ledger is about to be deleted.
Doomed(f) == ftear.pc = "delete" /\ ftear.fabric = f

\* A ledger backs the number that n has, or is about to report, in fabric f.
Backs(n, f, vni) ==
    \/ n \in hist.crossed \/ n \in hist.overlapped \/ fab[f].deleting
    \/ \E g \in Fabrics : /\ g = f \/ n \in hist.moved
                          /\ ledger[g].held[n] = vni /\ ~ Doomed(g)

Backed ==
    /\ \A n \in Nets : net[n].exists /\ ~ net[n].deleting /\ net[n].allocated =>
          /\ net[n].vni # NoVni /\ net[n].fabric \in Fabrics
          /\ Backs(n, net[n].fabric, net[n].vni)
    /\ prov.pc = "report" => prov.vni # NoVni /\ Backs(prov.net, prov.fabric, prov.vni)

Clean(n) == n \notin hist.moved \cup hist.unreported \cup hist.crossed \cup hist.overlapped

\* The status of the network, or the job that is about to write it, has the number
\* that a ledger holds; from the release on, no ledger holds one.
Accounted ==
    \A n \in Nets, f \in Fabrics : Clean(n) /\ ledger[f].held[n] # NoVni =>
        /\ net[n].exists /\ ~ net[n].complete
        /\ ~ (tear.pc = "complete" /\ tear.net = n)
        /\ \/ net[n].fabric = f /\ net[n].allocated
           \/ prov.pc = "report" /\ prov.net = n /\ prov.fabric = f

\* A network being torn down has no placement but late ones.
TornDownUnplaced == tear.pc # "idle" => tear.net \notin placed \ hist.late

IInv == TypeOK /\ JobsApart /\ JobsKnow /\ Backed /\ Accounted

-----------------------------------------------------------------------------
(* Type correctness *)

LEMMA IdleTypes ==
    /\ NoVni \in Vnis /\ EmptyLedger \in Ledgers
    /\ NewNetwork \in Networks /\ Absent \in Networks
    /\ IdleProvision \in ProvisionJobs /\ IdleTeardown \in TeardownJobs
    /\ IdleFabricProvision \in FabricProvisionJobs
    /\ IdleFabricTeardown \in FabricTeardownJobs
<1>1. NoVni \in Vnis /\ EmptyLedger \in Ledgers /\ EmptyLedger.held \in [Nets -> Vnis]
    BY DEF Vnis, EmptyLedger, Ledgers
<1>2. NewNetwork \in Networks
    BY <1>1 DEF NewNetwork, Networks
<1>3. Absent \in Networks
    BY <1>1, <1>2 DEF Absent, NewNetwork, Networks
<1>4. IdleProvision \in ProvisionJobs /\ IdleTeardown \in TeardownJobs
      /\ IdleFabricTeardown \in FabricTeardownJobs
    BY <1>1 DEF IdleProvision, IdleTeardown, IdleFabricTeardown, ProvisionJobs,
       TeardownJobs, FabricTeardownJobs
<1>5. [g \in {} |-> EmptyLedger.held] \in UNION {[gs -> [Nets -> Vnis]] : gs \in SUBSET Fabrics}
    <2> DEFINE none == [g \in {} |-> EmptyLedger.held]
               Keep(gs) == [gs -> [Nets -> Vnis]]
    <2>1. none \in Keep({})
        OBVIOUS
    <2> HIDE DEF none, Keep
    <2>2. none \in UNION {Keep(gs) : gs \in SUBSET Fabrics}
        BY <2>1
    <2> QED
        BY <2>2 DEF none, Keep
<1>6. IdleFabricProvision \in FabricProvisionJobs
    BY <1>1, <1>5 DEF IdleFabricProvision, FabricProvisionJobs
<1> QED
    BY <1>1, <1>2, <1>3, <1>4, <1>6

LEMMA InitTypeOK == Init => TypeOK
<1> SUFFICES ASSUME Init PROVE TypeOK
    OBVIOUS
<1>1. prov.pc = "idle" /\ tear.pc = "idle" /\ fprov.pc = "idle" /\ ftear.pc = "idle"
    BY DEF Init, IdleProvision, IdleTeardown, IdleFabricProvision, IdleFabricTeardown
<1>2. fab \in [Fabrics -> FabricStates]
    BY DEF Init, FabricStates
<1>3. hist \in Histories
    BY PoolAssumption DEF Init, Histories
<1>4. net \in [Nets -> Networks] /\ placed \subseteq Nets /\ ledger \in [Fabrics -> Ledgers]
    BY IdleTypes DEF Init
<1>5. /\ prov \in ProvisionJobs /\ tear \in TeardownJobs
      /\ fprov \in FabricProvisionJobs /\ ftear \in FabricTeardownJobs
    BY IdleTypes DEF Init
<1> QED
    BY <1>1, <1>2, <1>3, <1>4, <1>5 DEF TypeOK

\* The number that the allocation takes.
LEMMA ChoiceType ==
    ASSUME TypeOK, NEW n \in Nets, NEW f \in Fabrics, NEW prior,
           NEW vni \in Choice(n, f, prior)
    PROVE  /\ vni \in Vnis /\ vni # NoVni
           /\ ledger[f].held[n] # NoVni => vni = ledger[f].held[n]
<1>1. Free(f) \subseteq Vnis \ {NoVni}
    BY PoolAssumption DEF Free, Vnis
<1>2. ledger[f].held[n] \in Vnis
    BY DEF TypeOK, Ledgers
<1> QED
    BY <1>1, <1>2 DEF Choice

\* The numbers that a migration gives a fabric.
LEMMA PlansType == ASSUME NEW f \in Fabrics PROVE Plans(f) \subseteq [Nets -> Vnis]
BY DEF Plans

\* What a patch makes of a network.
LEMMA PatchType ==
    ASSUME NEW r \in Networks, NEW b \in BOOLEAN, NEW f \in Fabrics \cup {NoFabric},
           NEW vni \in Vnis
    PROVE  /\ [r EXCEPT !.deleting = b] \in Networks
           /\ [r EXCEPT !.complete = b] \in Networks
           /\ [r EXCEPT !.allocated = b] \in Networks
           /\ [r EXCEPT !.ref = f] \in Networks
           /\ [r EXCEPT !.fabric = f] \in Networks
           /\ [r EXCEPT !.vni = vni] \in Networks
BY DEF Networks

LEMMA FlagType ==
    ASSUME net \in [Nets -> Networks], NEW n \in Nets, NEW b \in BOOLEAN
    PROVE  /\ [net EXCEPT ![n].deleting = b] \in [Nets -> Networks]
           /\ [net EXCEPT ![n].complete = b] \in [Nets -> Networks]
           /\ [net EXCEPT ![n].allocated = FALSE, ![n].complete = TRUE] \in [Nets -> Networks]
<1>1. NoFabric \in Fabrics \cup {NoFabric} /\ NoVni \in Vnis
    BY IdleTypes
<1>2. \A r \in Networks, c \in BOOLEAN :
         /\ [r EXCEPT !.deleting = c] \in Networks
         /\ [r EXCEPT !.complete = c] \in Networks
         /\ [r EXCEPT !.allocated = c] \in Networks
    BY <1>1, PatchType
<1>3. [[net[n] EXCEPT !.allocated = FALSE] EXCEPT !.complete = TRUE] \in Networks
    BY <1>2
<1> QED
    BY <1>2, <1>3

LEMMA ReportType ==
    ASSUME net \in [Nets -> Networks], NEW n \in Nets,
           NEW f \in Fabrics \cup {NoFabric}, NEW vni \in Vnis
    PROVE  /\ [net EXCEPT ![n].ref = f] \in [Nets -> Networks]
           /\ [net EXCEPT ![n].allocated = TRUE, ![n].vni = vni, ![n].fabric = f]
                 \in [Nets -> Networks]
<1>1. [[[net[n] EXCEPT !.allocated = TRUE] EXCEPT !.vni = vni] EXCEPT !.fabric = f]
        \in Networks
    <2>1. [net[n] EXCEPT !.allocated = TRUE] \in Networks
        BY PatchType
    <2>2. [[net[n] EXCEPT !.allocated = TRUE] EXCEPT !.vni = vni] \in Networks
        BY <2>1, PatchType
    <2> QED
        BY <2>2, PatchType
<1>2. [net[n] EXCEPT !.ref = f] \in Networks
    BY PatchType
<1> QED
    BY <1>1, <1>2

LEMMA HistType ==
    ASSUME hist \in Histories, NEW ns \in SUBSET Nets
    PROVE  /\ [hist EXCEPT !.crossed = @ \cup ns] \in Histories
           /\ \A ms \in SUBSET Nets :
                 [hist EXCEPT !.moved = @ \cup ms, !.crossed = @ \cup ns] \in Histories
BY DEF Histories

LEMMA OverlappingHist ==
    ASSUME hist \in Histories, NEW ns \in SUBSET Nets, Overlapping(ns)
    PROVE  /\ hist' \in Histories
           /\ hist'.overlapped = hist.overlapped \cup ns
           /\ hist'.moved = hist.moved /\ hist'.unreported = hist.unreported
           /\ hist'.crossed = hist.crossed /\ hist'.late = hist.late
<1>1. hist.failures + 1 \in 0..MaxFailures
    BY PoolAssumption DEF Overlapping, Histories
<1>2. hist' = [[hist EXCEPT !.failures = @ + 1] EXCEPT !.overlapped = @ \cup ns]
    BY DEF Overlapping, Histories
<1> QED
    BY <1>1, <1>2 DEF Histories

LEMMA CountedHist ==
    ASSUME hist \in Histories, NEW n \in Nets, Counted(n)
    PROVE  /\ hist' \in Histories
           /\ hist'.overlapped = hist.overlapped \cup (IF prov.net = n THEN {n} ELSE {})
           /\ hist'.moved = hist.moved /\ hist'.unreported = hist.unreported
           /\ hist'.crossed = hist.crossed /\ hist'.late = hist.late \ {n}
<1> DEFINE failures == IF prov.net = n THEN hist.failures + 1 ELSE hist.failures
           overlapped == hist.overlapped \cup (IF prov.net = n THEN {n} ELSE {})
<1>1. failures \in 0..MaxFailures
    BY PoolAssumption DEF Counted, Histories
<1>2. overlapped \subseteq Nets
    BY DEF Histories
<1>3. /\ hist'.failures = failures /\ hist'.overlapped = overlapped
      /\ hist'.late = hist.late \ {n}
      /\ hist' = [hist EXCEPT !.late = hist.late \ {n}, !.failures = failures,
                              !.overlapped = overlapped]
    BY DEF Counted, Histories
<1> HIDE DEF failures, overlapped
<1>4. hist' \in Histories
    BY <1>1, <1>2, <1>3 DEF Histories
<1> QED
    BY <1>3, <1>4 DEF overlapped, Histories

LEMMA ProvisionTypeOK ==
    ASSUME TypeOK, NEW n \in Nets, Provision(n) \/ ProvisionFails
    PROVE  TypeOK'
<1> USE DEF TypeOK
<1>1. ASSUME NEW m \in Nets
      PROVE  [hist EXCEPT !.unreported = Unreported(m)] \in Histories
    BY <1>1 DEF Histories, Unreported
<1>2. ASSUME NEW m \in Nets
      PROVE  (IF net[m].exists THEN [net EXCEPT ![m].allocated = FALSE] ELSE net)
                \in [Nets -> Networks]
    BY DEF Networks
<1>3. CASE StartProvision(n)
    <2>1. ASSUME NEW f \in Selected(n)
          PROVE  f \in Fabrics /\ [pc |-> "allocate", net |-> n, fabric |-> f,
                                   prior |-> net[n].vni, vni |-> NoVni] \in ProvisionJobs
        BY IdleTypes DEF Selected, ReadyFabrics, ProvisionJobs, Networks
    <2>2. Overlapping({n}) => hist' \in Histories
        BY OverlappingHist
    <2>3. CASE ProvisionRescue(n) /\ prov' = prov
        BY <1>1, <1>2, <1>3, <2>3 DEF StartProvision, ProvisionRescue
    <2>4. CASE ~ (ProvisionRescue(n) /\ prov' = prov)
        BY <1>3, <2>1, <2>2, <2>4 DEF StartProvision
    <2> QED
        BY <2>3, <2>4
<1>4. CASE prov.net = n /\ AllocateVni
    <2>1. PICK vni \in Choice(prov.net, prov.fabric, prov.prior) :
             /\ ledger' = [ledger EXCEPT ![prov.fabric].held[prov.net] = vni]
             /\ prov' = [prov EXCEPT !.pc = "report", !.vni = vni]
        BY <1>4 DEF AllocateVni
    <2>2. vni \in Vnis
        BY <1>4, ChoiceType DEF AllocateVni
    <2>3. prov' \in ProvisionJobs /\ prov'.net = prov.net /\ prov'.fabric = prov.fabric
        BY <2>1, <2>2 DEF ProvisionJobs
    <2>4. ledger' \in [Fabrics -> Ledgers]
        BY <2>1, <2>2 DEF Ledgers
    <2> QED
        BY <1>4, <2>3, <2>4 DEF AllocateVni
<1>5. CASE prov.net = n /\ AllocateFails
    BY <1>1, <1>2, <1>5, IdleTypes DEF AllocateFails, ProvisionRescue, IdleProvision
<1>6. CASE prov.net = n /\ MarkReady
    <2>1. net' \in [Nets -> Networks]
        <3>1. [net EXCEPT ![prov.net].allocated = TRUE, ![prov.net].vni = prov.vni,
                          ![prov.net].fabric = prov.fabric] \in [Nets -> Networks]
            BY <1>6, ReportType DEF MarkReady, ProvisionJobs
        <3> QED
            BY <1>6, <3>1 DEF MarkReady
    <2>2. hist' \in Histories
        BY <1>6 DEF MarkReady, Histories
    <2> QED
        BY <1>6, <2>1, <2>2, IdleTypes DEF MarkReady, IdleProvision
<1>7. CASE ProvisionFails
    <2>1. hist' \in Histories
        <3>1. hist.failures + 1 \in 0..MaxFailures /\ prov.net \in Nets
            BY <1>7, PoolAssumption DEF ProvisionFails, Histories
        <3>2. Unreported(prov.net) \subseteq Nets
            BY <3>1 DEF Unreported, Histories
        <3> QED
            BY <1>7, <3>1, <3>2 DEF ProvisionFails, Histories
    <2> QED
        BY <1>2, <1>7, <2>1, IdleTypes DEF ProvisionFails, IdleProvision
<1> QED
    BY <1>3, <1>4, <1>5, <1>6, <1>7 DEF Provision

LEMMA TeardownTypeOK ==
    ASSUME TypeOK, NEW n \in Nets, Teardown(n) \/ TeardownFails
    PROVE  TypeOK'
<1> USE DEF TypeOK
<1>1. CASE StartTeardown(n)
    <2>0. hist' \in Histories
        BY <1>1, CountedHist DEF StartTeardown
    <2>1. [net EXCEPT ![n].complete = FALSE] \in [Nets -> Networks]
        BY DEF Networks
    <2>2. ASSUME NEW pc \in {"release", "complete"}
          PROVE  [pc |-> pc, net |-> n, fabric |-> net[n].fabric] \in TeardownJobs
        BY DEF Networks, TeardownJobs
    <2>3. net[n].fabric # NoFabric => net[n].fabric \in Fabrics
        BY DEF Networks
    <2>4. CASE n \in placed
        BY <1>1, <2>0, <2>1, <2>4 DEF StartTeardown
    <2>5. CASE n \notin placed
        <3> DEFINE pc == IF net[n].fabric # NoFabric /\ net[n].allocated
                         THEN "release" ELSE "complete"
        <3>1. tear' = [pc |-> pc, net |-> n, fabric |-> net[n].fabric]
            BY <1>1, <2>5 DEF StartTeardown
        <3>2. tear' \in TeardownJobs
            BY <2>2, <3>1
        <3> QED
            BY <1>1, <2>0, <2>3, <2>5, <3>1, <3>2 DEF StartTeardown
    <2> QED
        BY <2>4, <2>5
<1>2. CASE tear.net = n /\ ReleaseVni
    <2>1. ledger' \in [Fabrics -> Ledgers]
        BY <1>2, IdleTypes DEF ReleaseVni, Ledgers
    <2>2. tear' \in TeardownJobs /\ tear'.net = tear.net /\ tear'.pc = "complete"
        BY <1>2 DEF ReleaseVni, TeardownJobs
    <2> QED
        BY <1>2, <2>1, <2>2 DEF ReleaseVni
<1>3. CASE tear.net = n /\ MarkDeletionComplete
    <2>1. net' \in [Nets -> Networks]
        BY <1>3, FlagType DEF MarkDeletionComplete
    <2> QED
        BY <1>3, <2>1, IdleTypes DEF MarkDeletionComplete, IdleTeardown
<1>4. CASE FinalizeNetwork(n)
    BY <1>4, IdleTypes DEF FinalizeNetwork
<1>5. CASE TeardownFails
    <2>1. net' \in [Nets -> Networks]
        <3>1. [net EXCEPT ![tear.net].complete = FALSE] \in [Nets -> Networks]
            BY <1>5, FlagType DEF TeardownFails
        <3> QED
            BY <1>5, <3>1 DEF TeardownFails
    <2>2. hist' \in Histories
        BY <1>5, PoolAssumption DEF TeardownFails, Histories
    <2> QED
        BY <1>5, <2>1, <2>2, IdleTypes DEF TeardownFails, IdleTeardown
<1> QED
    BY <1>1, <1>2, <1>3, <1>4, <1>5 DEF Teardown

LEMMA UserTypeOK ==
    ASSUME TypeOK, User
    PROVE  TypeOK'
<1> USE DEF TypeOK
<1>1. ASSUME NEW n \in Nets, CreateNetwork(n)
      PROVE  TypeOK'
    <2>1. ASSUME NEW ref \in Fabrics \cup {NoFabric}
          PROVE  [NewNetwork EXCEPT !.ref = ref] \in Networks
        BY IdleTypes DEF Networks
    <2>2. hist' \in Histories
        BY <1>1, PoolAssumption DEF CreateNetwork, Histories
    <2> QED
        BY <1>1, <2>1, <2>2 DEF CreateNetwork
<1>2. ASSUME NEW n \in Nets, DeleteNetwork(n) \/ EditFabricRef(n)
      PROVE  TypeOK'
    <2>1. net' \in [Nets -> Networks]
        <3>1. ASSUME NEW ref \in Fabrics \cup {NoFabric}
              PROVE  [net EXCEPT ![n].ref = ref] \in [Nets -> Networks]
            BY ReportType, IdleTypes
        <3>2. [net EXCEPT ![n].deleting = TRUE] \in [Nets -> Networks]
            BY FlagType
        <3> QED
            BY <1>2, <3>1, <3>2 DEF DeleteNetwork, EditFabricRef
    <2>2. hist' \in Histories
        BY <1>2, PoolAssumption DEF DeleteNetwork, EditFabricRef, Histories
    <2> QED
        BY <1>2, <2>1, <2>2 DEF DeleteNetwork, EditFabricRef
<1>3. ASSUME NEW n \in Nets, CreatePlacement(n) \/ RemovePlacement(n)
      PROVE  TypeOK'
    <2>1. hist' \in Histories
        <3>1. CASE CreatePlacement(n)
            <4>1. hist.placements + 1 \in 0..MaxPlacements
                BY <3>1, PoolAssumption DEF CreatePlacement, Histories
            <4> QED
                BY <3>1, <4>1 DEF CreatePlacement, Histories
        <3>2. CASE RemovePlacement(n)
            BY <3>2 DEF RemovePlacement, Histories
        <3> QED
            BY <1>3, <3>1, <3>2
    <2> QED
        BY <1>3, <2>1 DEF CreatePlacement, RemovePlacement
<1>4. ASSUME NEW f \in Fabrics, DeleteFabric(f)
      PROVE  TypeOK'
    <2>1. hist' \in Histories
        BY <1>4, PoolAssumption DEF DeleteFabric, Histories
    <2>2. fab' \in [Fabrics -> FabricStates]
        BY <1>4 DEF DeleteFabric, FabricStates
    <2> QED
        BY <1>4, <2>1, <2>2 DEF DeleteFabric
<1> QED
    BY <1>1, <1>2, <1>3, <1>4 DEF User

LEMMA FabType ==
    ASSUME fab \in [Fabrics -> FabricStates], NEW f \in Fabrics
    PROVE  /\ [fab EXCEPT ![f].ready = TRUE] \in [Fabrics -> FabricStates]
           /\ [fab EXCEPT ![f].ready = FALSE] \in [Fabrics -> FabricStates]
           /\ [fab EXCEPT ![f].exists = FALSE] \in [Fabrics -> FabricStates]
           /\ [fab EXCEPT ![f].ready = TRUE, ![f].complete = TRUE]
                 \in [Fabrics -> FabricStates]
           /\ [fab EXCEPT ![f].ready = FALSE, ![f].complete = FALSE]
                 \in [Fabrics -> FabricStates]
BY DEF FabricStates

\* A plan to migrate, or none.
LEMMA StartFabricProvisionType ==
    ASSUME TypeOK, NEW f \in Fabrics, StartFabricProvision(f)
    PROVE  /\ fprov' \in FabricProvisionJobs /\ fprov'.fabric = f
           /\ f \notin DOMAIN fprov'.keep
           /\ \A n \in fprov'.moves : fprov'.mine[n] # NoVni
           /\ fprov'.pc \in {"add", "report"}
<1>1. PICK mine \in Plans(f) :
        LET legacy == {g \in Fabrics \ {f} : Leaving(f, g, mine) # {}} IN
        fprov' = IF legacy = {} THEN Counting(f)
                 ELSE [pc |-> "add", fabric |-> f, mine |-> mine,
                       keep |-> [g \in legacy |->
                                   Without(ledger[g].held, Leaving(f, g, mine))],
                       moves |-> UNION {Leaving(f, g, mine) : g \in legacy}]
    BY DEF StartFabricProvision
<1> DEFINE legacy == {g \in Fabrics \ {f} : Leaving(f, g, mine) # {}}
           keep == [g \in legacy |-> Without(ledger[g].held, Leaving(f, g, mine))]
           moves == UNION {Leaving(f, g, mine) : g \in legacy}
<1>2. CASE legacy = {}
    <2>1. fprov' = Counting(f)
        BY <1>1, <1>2
    <2> QED
        BY <2>1, IdleTypes DEF Counting, IdleFabricProvision, FabricProvisionJobs
<1>3. CASE legacy # {}
    <2>1. fprov' = [pc |-> "add", fabric |-> f, mine |-> mine, keep |-> keep, moves |-> moves]
        BY <1>1, <1>3
    <2>2. \A g \in legacy : Without(ledger[g].held, Leaving(f, g, mine)) \in [Nets -> Vnis]
        BY IdleTypes DEF Without, TypeOK, Ledgers
    <2>3. keep \in [legacy -> [Nets -> Vnis]]
        BY <2>2
    <2>4. legacy \in SUBSET Fabrics /\ f \notin legacy /\ DOMAIN keep = legacy
        OBVIOUS
    <2>5. moves \in SUBSET Nets /\ \A n \in moves : mine[n] # NoVni
        BY DEF Leaving
    <2>6. mine \in [Nets -> Vnis]
        BY PlansType
    <2> HIDE DEF legacy, keep, moves
    <2>7. keep \in UNION {[gs -> [Nets -> Vnis]] : gs \in SUBSET Fabrics}
        <3> DEFINE Keep(gs) == [gs -> [Nets -> Vnis]]
        <3>1. keep \in Keep(legacy)
            BY <2>3
        <3> HIDE DEF Keep
        <3>2. keep \in UNION {Keep(gs) : gs \in SUBSET Fabrics}
            BY <2>4, <3>1
        <3> QED
            BY <3>2 DEF Keep
    <2> QED
        BY <2>1, <2>4, <2>5, <2>6, <2>7 DEF FabricProvisionJobs
<1> QED
    BY <1>2, <1>3

\* Removing leaves a plan for the ledgers that remain.
LEMMA MigrateRemoveType ==
    ASSUME TypeOK, NEW g \in Fabrics, MigrateRemove(g)
    PROVE  /\ fprov.keep[g] \in [Nets -> Vnis]
           /\ fprov' \in FabricProvisionJobs /\ fprov'.fabric = fprov.fabric
           /\ DOMAIN fprov'.keep \subseteq DOMAIN fprov.keep
           /\ fprov'.pc \in {"remove", "report"}
           /\ fprov'.pc = "remove" =>
                 fprov'.moves = fprov.moves /\ fprov'.mine = fprov.mine
<1> DEFINE rest == DOMAIN fprov.keep \ {g}
           left == [h \in rest |-> fprov.keep[h]]
<1>1. PICK gs \in SUBSET Fabrics : fprov.keep \in [gs -> [Nets -> Vnis]]
    <2> DEFINE Keep(gs) == [gs -> [Nets -> Vnis]]
    <2>1. fprov.keep \in UNION {Keep(gs) : gs \in SUBSET Fabrics}
        BY DEF TypeOK, FabricProvisionJobs
    <2> HIDE DEF Keep
    <2>2. \E gs \in SUBSET Fabrics : fprov.keep \in Keep(gs)
        BY <2>1
    <2> QED
        BY <2>2 DEF Keep
<1>2. fprov.keep[g] \in [Nets -> Vnis]
    BY <1>1 DEF MigrateRemove
<1>3. rest \in SUBSET Fabrics /\ left \in [rest -> [Nets -> Vnis]] /\ DOMAIN left = rest
    BY <1>1
<1>4. left \in UNION {[hs -> [Nets -> Vnis]] : hs \in SUBSET Fabrics}
    <2> DEFINE Keep(hs) == [hs -> [Nets -> Vnis]]
    <2>1. left \in Keep(rest)
        BY <1>3
    <2> HIDE DEF Keep, left, rest
    <2>2. left \in UNION {Keep(hs) : hs \in SUBSET Fabrics}
        BY <1>3, <2>1
    <2> QED
        BY <2>2 DEF Keep
<1>5. CASE rest = {}
    <2>1. fprov' = Counting(fprov.fabric)
        BY <1>5 DEF MigrateRemove
    <2> QED
        BY <1>2, <2>1, IdleTypes
        DEF Counting, IdleFabricProvision, FabricProvisionJobs, TypeOK
<1>6. CASE rest # {}
    <2>1. fprov' = [fprov EXCEPT !.keep = left]
        BY <1>6 DEF MigrateRemove
    <2> HIDE DEF left, rest
    <2>2. fprov.pc = "remove"
        BY DEF MigrateRemove
    <2>3. DOMAIN left \subseteq DOMAIN fprov.keep
        BY <1>3 DEF rest
    <2> QED
        BY <1>2, <1>4, <2>1, <2>2, <2>3 DEF FabricProvisionJobs, TypeOK
<1> QED
    BY <1>5, <1>6

LEMMA FabricTypeOK ==
    ASSUME TypeOK, NEW f \in Fabrics,
           FabricSteps(f) \/ FabricProvisionFails \/ FabricTeardownFails
    PROVE  TypeOK'
<1> USE DEF TypeOK
<1>0. /\ [fab EXCEPT ![f].ready = TRUE] \in [Fabrics -> FabricStates]
      /\ [fab EXCEPT ![f].ready = FALSE] \in [Fabrics -> FabricStates]
      /\ [fab EXCEPT ![f].exists = FALSE] \in [Fabrics -> FabricStates]
    BY FabType
<1>1. CASE ReconcileFabric(f)
    <2>1. hist' \in Histories
        BY <1>1, PoolAssumption DEF ReconcileFabric, Histories
    <2> QED
        BY <1>1, <2>1, FabType DEF ReconcileFabric
<1>2. CASE MarkFabricNotReady(f) \/ FinalizeFabric(f)
    <2>1. fab' \in [Fabrics -> FabricStates]
        BY <1>0, <1>2 DEF MarkFabricNotReady, FinalizeFabric
    <2> QED
        BY <1>2, <2>1 DEF MarkFabricNotReady, FinalizeFabric
<1>3. CASE StartFabricProvision(f)
    <2>1. ledger' \in [Fabrics -> Ledgers]
        BY <1>3 DEF StartFabricProvision, Ledgers
    <2>2. fprov' \in FabricProvisionJobs /\ fprov'.fabric = f
        BY <1>3, StartFabricProvisionType
    <2>3. fprov'.moves \in SUBSET Nets
        BY <2>2 DEF FabricProvisionJobs
    <2>4. hist' \in Histories
        BY <1>3, <2>3, OverlappingHist DEF StartFabricProvision
    <2> QED
        BY <1>3, <2>1, <2>2, <2>4 DEF StartFabricProvision
<1>4. CASE fprov.fabric = f /\ MigrateAdd
    <2>1. ledger' \in [Fabrics -> Ledgers]
        BY <1>4 DEF MigrateAdd, Patched, Ledgers, FabricProvisionJobs
    <2>2. fprov' \in FabricProvisionJobs /\ fprov'.fabric = fprov.fabric
        BY <1>4 DEF MigrateAdd, FabricProvisionJobs
    <2>3. hist' \in Histories
        <3>1. fprov.moves \in SUBSET Nets /\ CrossedHere \in SUBSET Nets
            BY DEF FabricProvisionJobs, CrossedHere
        <3>2. hist' = [hist EXCEPT !.moved = @ \cup fprov.moves,
                                   !.crossed = @ \cup CrossedHere]
            BY <1>4 DEF MigrateAdd
        <3> QED
            BY <3>1, <3>2, HistType
    <2> QED
        BY <1>4, <2>1, <2>2, <2>3 DEF MigrateAdd
<1>5. CASE MigrateRemove(f)
    <2>1. ledger' \in [Fabrics -> Ledgers]
        BY <1>5, MigrateRemoveType DEF MigrateRemove, Patched, Ledgers
    <2>2. hist' \in Histories
        <3>1. CrossedHere \cup CrossedThere(f) \in SUBSET Nets
            BY DEF CrossedHere, CrossedThere
        <3>2. hist' = [hist EXCEPT !.crossed = @ \cup (CrossedHere \cup CrossedThere(f))]
            BY <1>5 DEF MigrateRemove
        <3> QED
            BY <3>1, <3>2, HistType
    <2>3. fprov' \in FabricProvisionJobs /\ fprov'.fabric \in Fabrics
        BY <1>5, MigrateRemoveType DEF MigrateRemove
    <2> QED
        BY <1>5, <2>1, <2>2, <2>3 DEF MigrateRemove
<1>6. CASE fprov.fabric = f /\ (MarkFabricReady \/ FabricProvisionStuck)
    <2>1. f \in Fabrics /\ fprov' = IdleFabricProvision
        BY <1>6 DEF MarkFabricReady, FabricProvisionStuck
    <2>2. fab' \in [Fabrics -> FabricStates]
        BY <1>0, <1>6 DEF MarkFabricReady, FabricProvisionStuck
    <2> QED
        BY <1>6, <2>1, <2>2, IdleTypes
        DEF MarkFabricReady, FabricProvisionStuck, IdleFabricProvision
<1>7. CASE StartFabricTeardown(f)
    <2>1. ASSUME NEW pc \in {"delete", "complete"}
          PROVE  [pc |-> pc, fabric |-> f] \in FabricTeardownJobs
        BY DEF FabricTeardownJobs
    <2>2. hist' \in Histories
        <3>1. fprov.moves \in SUBSET Nets
            BY DEF FabricProvisionJobs
        <3> QED
            BY <1>7, <3>1, OverlappingHist DEF StartFabricTeardown
    <2>3. CASE ftear' = ftear /\ fab' = [fab EXCEPT ![f].ready = FALSE]
        BY <1>0, <1>7, <2>2, <2>3 DEF StartFabricTeardown
    <2>4. CASE ~ (ftear' = ftear /\ fab' = [fab EXCEPT ![f].ready = FALSE])
        <3> DEFINE pc == IF ledger[f].exists THEN "delete" ELSE "complete"
        <3>1. ftear' = [pc |-> pc, fabric |-> f] /\ fab' = fab
            BY <1>7, <2>4 DEF StartFabricTeardown
        <3> QED
            BY <1>7, <2>1, <2>2, <3>1 DEF StartFabricTeardown
    <2> QED
        BY <2>3, <2>4
<1>8. CASE ftear.fabric = f /\ DeleteLedger
    <2>1. [EmptyLedger EXCEPT !.exists = FALSE] \in Ledgers
        BY IdleTypes DEF Ledgers
    <2>2. ftear' \in FabricTeardownJobs /\ ftear'.fabric = ftear.fabric
        BY <1>8 DEF DeleteLedger, FabricTeardownJobs
    <2> QED
        BY <1>8, <2>1, <2>2 DEF DeleteLedger
<1>9. CASE ftear.fabric = f /\ MarkFabricComplete
    BY <1>9, FabType, IdleTypes DEF MarkFabricComplete, IdleFabricTeardown
<1>10. CASE FabricProvisionFails
    <2>1. hist' \in Histories
        BY <1>10, PoolAssumption DEF FabricProvisionFails, Histories
    <2>2. fab' \in [Fabrics -> FabricStates]
        <3>1. [fab EXCEPT ![fprov.fabric].ready = FALSE] \in [Fabrics -> FabricStates]
            BY <1>10, FabType DEF FabricProvisionFails
        <3> QED
            BY <1>10, <3>1 DEF FabricProvisionFails
    <2> QED
        BY <1>10, <2>1, <2>2, IdleTypes DEF FabricProvisionFails, IdleFabricProvision
<1>11. CASE FabricTeardownFails
    <2>1. hist' \in Histories
        BY <1>11, PoolAssumption DEF FabricTeardownFails, Histories
    <2>2. fab' \in [Fabrics -> FabricStates]
        <3>1. [fab EXCEPT ![ftear.fabric].ready = FALSE, ![ftear.fabric].complete = FALSE]
                 \in [Fabrics -> FabricStates]
            BY <1>11, FabType DEF FabricTeardownFails
        <3> QED
            BY <1>11, <3>1 DEF FabricTeardownFails
    <2> QED
        BY <1>11, <2>1, <2>2, IdleTypes DEF FabricTeardownFails, IdleFabricTeardown
<1> QED
    BY <1>1, <1>2, <1>3, <1>4, <1>5, <1>6, <1>7, <1>8, <1>9, <1>10, <1>11 DEF FabricSteps

LEMMA NextTypeOK ==
    ASSUME TypeOK, [Next]_vars
    PROVE  TypeOK'
<1>1. CASE UNCHANGED vars
    BY <1>1 DEF vars, TypeOK
<1>2. CASE ProvisionFails \/ TeardownFails
    <2>1. \E n \in Nets : TRUE
        BY <1>2 DEF ProvisionFails, TeardownFails, TypeOK
    <2> QED
        BY <1>2, <2>1, ProvisionTypeOK, TeardownTypeOK
<1>3. CASE FabricProvisionFails \/ FabricTeardownFails
    <2>1. \E f \in Fabrics : TRUE
        BY <1>3 DEF FabricProvisionFails, FabricTeardownFails, TypeOK
    <2> QED
        BY <1>3, <2>1, FabricTypeOK
<1> QED
    BY <1>1, <1>2, <1>3, UserTypeOK, ProvisionTypeOK, TeardownTypeOK, FabricTypeOK
    DEF Next, Failure

-----------------------------------------------------------------------------
(* How resources change: what a job has read stays true but for these changes *)

OnlyNet == UNCHANGED <<fab, ledger, prov, tear, fprov, ftear>>

Creates(n) ==
    /\ ~ net[n].exists /\ net'[n].exists /\ ~ net'[n].deleting
    /\ ~ net'[n].allocated /\ ~ net'[n].complete /\ OnlyNet

Finalizes(n) ==
    /\ net[n].exists /\ net[n].deleting /\ net[n].complete
    /\ net'[n] = Absent /\ OnlyNet

Patches(n) ==
    /\ net'[n].exists = net[n].exists
    /\ net[n].deleting => net'[n].deleting
    /\ net'[n].fabric = net[n].fabric /\ net'[n].vni = net[n].vni
    /\ \/ net'[n].allocated = net[n].allocated
       \/ ~ net'[n].allocated /\ (n \in hist'.unreported \/ Holders(n) = {})
    /\ net'[n].complete = net[n].complete \/ ~ net'[n].complete

Reports(n) ==
    /\ MarkReady /\ prov.net = n /\ net[n].exists
    /\ net'[n] = [net[n] EXCEPT !.allocated = TRUE, !.vni = prov.vni, !.fabric = prov.fabric]

Completes(n) ==
    /\ MarkDeletionComplete /\ tear.net = n /\ net[n].exists
    /\ net'[n] = [net[n] EXCEPT !.allocated = FALSE, !.complete = TRUE]

NetStep(n) ==
    \/ net'[n] = net[n]
    \/ Creates(n) \/ Finalizes(n) \/ Patches(n) \/ Reports(n) \/ Completes(n)

\* The ways in which a network changes.
LEMMA NetSteps ==
    ASSUME TypeOK, [Next]_vars, NEW n \in Nets
    PROVE  NetStep(n)
<1> USE DEF TypeOK
<1>1. ASSUME NEW m \in Nets, CreateNetwork(m)
      PROVE  NetStep(n)
    BY <1>1, IdleTypes DEF CreateNetwork, NetStep, Creates, OnlyNet, Networks, NewNetwork
<1>2. ASSUME NEW m \in Nets, FinalizeNetwork(m)
      PROVE  NetStep(n)
    BY <1>2 DEF FinalizeNetwork, NetStep, Finalizes, OnlyNet
<1>3. ASSUME NEW m \in Nets, DeleteNetwork(m) \/ EditFabricRef(m)
      PROVE  NetStep(n)
    BY <1>3 DEF DeleteNetwork, EditFabricRef, NetStep, Patches, Networks
<1>4. ASSUME NEW m \in Nets,
             \/ net' = net
             \/ /\ net' = [net EXCEPT ![m].allocated = FALSE]
                /\ hist'.unreported = Unreported(m)
             \/ net' = [net EXCEPT ![m].complete = FALSE]
      PROVE  NetStep(n)
    BY <1>4 DEF NetStep, Patches, Networks, Unreported
<1>5. CASE MarkReady
    BY <1>5 DEF MarkReady, NetStep, Reports
<1>6. CASE MarkDeletionComplete
    BY <1>6 DEF MarkDeletionComplete, NetStep, Completes
<1>7. CASE UNCHANGED net
    BY <1>7 DEF NetStep
<1>8. ASSUME NEW m \in Nets, StartProvision(m) \/ (prov.net = m /\ AllocateFails)
      PROVE  NetStep(n)
    BY <1>4, <1>7, <1>8 DEF StartProvision, AllocateFails, ProvisionRescue, Histories
<1>9. CASE ProvisionFails
    BY <1>4, <1>9 DEF ProvisionFails, Histories
<1>10. CASE TeardownFails
    BY <1>4, <1>10 DEF TeardownFails
<1>11. ASSUME NEW m \in Nets, StartTeardown(m)
       PROVE  NetStep(n)
    BY <1>4, <1>7, <1>11 DEF StartTeardown
<1>12. ASSUME NEW f \in Fabrics, FabricSteps(f)
       PROVE  UNCHANGED net
    BY <1>12 DEF FabricSteps, ReconcileFabric, MarkFabricNotReady, StartFabricProvision,
       MigrateAdd, MigrateRemove, MarkFabricReady, FabricProvisionStuck,
       StartFabricTeardown, DeleteLedger, MarkFabricComplete, FinalizeFabric
<1>13. CASE UNCHANGED vars \/ FabricProvisionFails \/ FabricTeardownFails
    BY <1>7, <1>13 DEF vars, FabricProvisionFails, FabricTeardownFails
<1>14. CASE User
    BY <1>1, <1>3, <1>7, <1>14 DEF User, CreatePlacement, RemovePlacement, DeleteFabric
<1>15. ASSUME NEW m \in Nets, Provision(m)
       PROVE  NetStep(n)
    BY <1>5, <1>7, <1>8, <1>15 DEF Provision, AllocateVni
<1>16. ASSUME NEW m \in Nets, Teardown(m)
       PROVE  NetStep(n)
    BY <1>2, <1>6, <1>7, <1>11, <1>16 DEF Teardown, ReleaseVni
<1> QED
    BY <1>7, <1>9, <1>10, <1>12, <1>13, <1>14, <1>15, <1>16 DEF Next, Failure

\* No entry of a ledger changes and none is deleted.
SameLedgers ==
    \A f \in Fabrics : /\ ledger'[f].held = ledger[f].held
                       /\ ledger[f].exists => ledger'[f].exists

\* The steps that may change a ledger or a job, and what only grows.
LEMMA OtherSteps ==
    ASSUME TypeOK, [Next]_vars
    PROVE  /\ \/ SameLedgers
              \/ AllocateVni \/ ReleaseVni \/ MigrateAdd \/ DeleteLedger
              \/ \E f \in Fabrics : MigrateRemove(f)
           /\ \/ prov' = prov \/ prov'.pc = "idle" \/ AllocateVni
              \/ \E n \in Nets : StartProvision(n)
           /\ \/ tear' = tear \/ tear'.pc = "idle" \/ ReleaseVni
              \/ \E n \in Nets : StartTeardown(n)
           /\ \/ fprov' = fprov \/ fprov'.pc = "idle" \/ MigrateAdd
              \/ \E f \in Fabrics : StartFabricProvision(f) \/ MigrateRemove(f)
           /\ \/ ftear' = ftear \/ ftear'.pc = "idle" \/ DeleteLedger
              \/ \E f \in Fabrics : StartFabricTeardown(f)
           /\ \A f \in Fabrics : fab[f].deleting => fab'[f].deleting
           /\ hist.moved \subseteq hist'.moved /\ hist.unreported \subseteq hist'.unreported
           /\ hist.crossed \subseteq hist'.crossed
           /\ hist.overlapped \subseteq hist'.overlapped
<1> DEFINE Ledgers1 == \/ SameLedgers
                       \/ AllocateVni \/ ReleaseVni \/ MigrateAdd \/ DeleteLedger
                       \/ \E f \in Fabrics : MigrateRemove(f)
           Prov1 == \/ prov' = prov \/ prov'.pc = "idle" \/ AllocateVni
                    \/ \E n \in Nets : StartProvision(n)
           Tear1 == \/ tear' = tear \/ tear'.pc = "idle" \/ ReleaseVni
                    \/ \E n \in Nets : StartTeardown(n)
           Fprov1 == \/ fprov' = fprov \/ fprov'.pc = "idle" \/ MigrateAdd
                     \/ \E f \in Fabrics : StartFabricProvision(f) \/ MigrateRemove(f)
           Ftear1 == \/ ftear' = ftear \/ ftear'.pc = "idle" \/ DeleteLedger
                     \/ \E f \in Fabrics : StartFabricTeardown(f)
           Fab1 == \A f \in Fabrics : fab[f].deleting => fab'[f].deleting
           Hist1 == /\ hist.moved \subseteq hist'.moved
                    /\ hist.unreported \subseteq hist'.unreported
                    /\ hist.crossed \subseteq hist'.crossed
                    /\ hist.overlapped \subseteq hist'.overlapped
           All == Ledgers1 /\ Prov1 /\ Tear1 /\ Fprov1 /\ Ftear1 /\ Fab1 /\ Hist1
<1>0. ledger' = ledger => SameLedgers
    BY DEF SameLedgers
<1>1. CASE UNCHANGED vars
    BY <1>0, <1>1 DEF vars
<1>2. CASE User
    <2>1. Fab1 /\ Hist1
        BY <1>2 DEF TypeOK, FabricStates, Histories, User, CreateNetwork, DeleteNetwork,
           EditFabricRef, CreatePlacement, RemovePlacement, DeleteFabric
    <2> QED
        BY <1>0, <1>2, <2>1 DEF User, CreateNetwork, DeleteNetwork, EditFabricRef,
           CreatePlacement, RemovePlacement, DeleteFabric
<1>3. ASSUME NEW n \in Nets, Provision(n) \/ ProvisionFails
      PROVE  All
    <2>1. Hist1
        <3>1. CASE StartProvision(n)
            <4>1. Overlapping({n}) => Hist1
                BY OverlappingHist DEF TypeOK
            <4>2. ProvisionRescue(n) \/ UNCHANGED hist => Hist1
                BY DEF TypeOK, Histories, ProvisionRescue, Unreported
            <4> QED
                BY <3>1, <4>1, <4>2 DEF StartProvision
        <3>2. CASE ~ StartProvision(n)
            BY <1>3, <3>2 DEF TypeOK, Histories, Provision, ProvisionFails,
               Unreported, ProvisionRescue, AllocateVni, AllocateFails, MarkReady
        <3> QED
            BY <3>1, <3>2
    <2>2. UNCHANGED <<tear, fprov, ftear, fab>>
        BY <1>3 DEF Provision, ProvisionFails, StartProvision, AllocateVni,
           AllocateFails, MarkReady
    <2>3. SameLedgers \/ AllocateVni
        BY <1>0, <1>3 DEF Provision, ProvisionFails, StartProvision, AllocateFails, MarkReady
    <2>4. StartProvision(n) \/ AllocateVni \/ prov'.pc = "idle"
        BY <1>3 DEF Provision, ProvisionFails, AllocateFails, MarkReady, IdleProvision
    <2> HIDE DEF Hist1
    <2> QED
        BY <2>1, <2>2, <2>3, <2>4
<1>4. ASSUME NEW n \in Nets, Teardown(n) \/ TeardownFails
      PROVE  All
    <2>1. Hist1
        <3>1. CASE StartTeardown(n)
            BY <3>1, CountedHist DEF TypeOK, StartTeardown
        <3>2. CASE ~ StartTeardown(n)
            BY <1>4, <3>2 DEF TypeOK, Histories, Teardown, TeardownFails,
               ReleaseVni, MarkDeletionComplete, FinalizeNetwork
        <3> QED
            BY <3>1, <3>2
    <2> QED
        BY <1>0, <1>4, <2>1 DEF Teardown, TeardownFails, StartTeardown, ReleaseVni,
           MarkDeletionComplete, FinalizeNetwork, IdleTeardown
<1>5. ASSUME NEW f \in Fabrics, FabricSteps(f) \/ FabricProvisionFails \/ FabricTeardownFails
      PROVE  All
    <2>1. UNCHANGED <<prov, tear>>
        BY <1>5 DEF FabricSteps, FabricProvisionFails, FabricTeardownFails,
           ReconcileFabric, MarkFabricNotReady, StartFabricProvision, MigrateAdd,
           MigrateRemove, MarkFabricReady, FabricProvisionStuck, StartFabricTeardown,
           DeleteLedger, MarkFabricComplete, FinalizeFabric
    <2>2. Ledgers1
        <3>1. StartFabricProvision(f) => SameLedgers
            BY DEF StartFabricProvision, SameLedgers, TypeOK, Ledgers
        <3> QED
            BY <1>0, <1>5, <3>1 DEF FabricSteps, FabricProvisionFails, FabricTeardownFails,
               ReconcileFabric, MarkFabricNotReady, MarkFabricReady,
               FabricProvisionStuck, StartFabricTeardown, MarkFabricComplete, FinalizeFabric
    <2>3. Fprov1
        BY <1>5 DEF FabricSteps, FabricProvisionFails, FabricTeardownFails,
           ReconcileFabric, MarkFabricNotReady, MarkFabricReady, FabricProvisionStuck,
           StartFabricTeardown, DeleteLedger, MarkFabricComplete, FinalizeFabric,
           IdleFabricProvision
    <2>4. Ftear1
        BY <1>5 DEF FabricSteps, FabricProvisionFails, FabricTeardownFails,
           ReconcileFabric, MarkFabricNotReady, StartFabricProvision, MigrateAdd,
           MigrateRemove, MarkFabricReady, FabricProvisionStuck, MarkFabricComplete,
           FinalizeFabric, IdleFabricTeardown
    <2>5. Fab1
        <3>1. ASSUME NEW g \in Fabrics,
                     \/ fab' = fab
                     \/ fab' = [fab EXCEPT ![g].exists = FALSE]
                     \/ \E r \in BOOLEAN :
                           \/ fab' = [fab EXCEPT ![g].ready = r]
                           \/ fab' = [fab EXCEPT ![g].ready = r, ![g].complete = r]
              PROVE  Fab1
            <4>1. ASSUME NEW r \in BOOLEAN, fab' = [fab EXCEPT ![g].ready = r]
                  PROVE  Fab1
                BY <4>1 DEF TypeOK, FabricStates
            <4>2. ASSUME NEW r \in BOOLEAN,
                         fab' = [fab EXCEPT ![g].ready = r, ![g].complete = r]
                  PROVE  Fab1
                BY <4>2 DEF TypeOK, FabricStates
            <4>3. CASE fab' = [fab EXCEPT ![g].exists = FALSE]
                BY <4>3 DEF TypeOK, FabricStates
            <4> QED
                BY <3>1, <4>1, <4>2, <4>3
        <3> HIDE DEF Fab1
        <3>2. CASE \/ ReconcileFabric(f) \/ MarkFabricNotReady(f) \/ FinalizeFabric(f)
                   \/ StartFabricTeardown(f)
            BY <3>1, <3>2 DEF ReconcileFabric, MarkFabricNotReady, FinalizeFabric,
               StartFabricTeardown
        <3>3. CASE StartFabricProvision(f) \/ MigrateRemove(f) \/ MigrateAdd \/ DeleteLedger
            BY <3>1, <3>3 DEF StartFabricProvision, MigrateRemove, MigrateAdd, DeleteLedger
        <3>4. CASE fprov.pc # "idle" /\ (MarkFabricReady \/ FabricProvisionStuck
                                          \/ FabricProvisionFails)
            <4>1. fprov.fabric \in Fabrics
                BY <3>4 DEF TypeOK
            <4> QED
                BY <3>1, <3>4, <4>1 DEF MarkFabricReady, FabricProvisionStuck,
                   FabricProvisionFails
        <3>5. CASE ftear.pc # "idle" /\ (MarkFabricComplete \/ FabricTeardownFails)
            <4>1. ftear.fabric \in Fabrics
                BY <3>5 DEF TypeOK
            <4> QED
                BY <3>1, <3>5, <4>1 DEF MarkFabricComplete, FabricTeardownFails
        <3> QED
            BY <1>5, <3>2, <3>3, <3>4, <3>5 DEF FabricSteps, MarkFabricReady,
               FabricProvisionStuck, FabricProvisionFails, MarkFabricComplete,
               FabricTeardownFails
    <2>6. Hist1
        <3>1. CASE MigrateAdd \/ MigrateRemove(f)
            BY <3>1 DEF TypeOK, Histories, MigrateAdd, MigrateRemove
        <3>2. CASE ReconcileFabric(f) \/ FabricProvisionFails \/ FabricTeardownFails
            BY <3>2 DEF TypeOK, Histories, ReconcileFabric, FabricProvisionFails,
               FabricTeardownFails
        <3>3. CASE UNCHANGED hist
            BY <3>3
        <3>4. CASE StartFabricProvision(f) \/ StartFabricTeardown(f)
            <4>1. fprov.moves \in SUBSET Nets
                BY DEF TypeOK, FabricProvisionJobs
            <4>2. StartFabricProvision(f) => fprov'.moves \in SUBSET Nets
                BY StartFabricProvisionType DEF FabricProvisionJobs
            <4> QED
                BY <3>4, <4>1, <4>2, OverlappingHist
                DEF TypeOK, StartFabricProvision, StartFabricTeardown
        <3> HIDE DEF Hist1
        <3> QED
            BY <1>5, <3>1, <3>2, <3>3, <3>4 DEF FabricSteps, MarkFabricNotReady,
               MarkFabricReady, FabricProvisionStuck, DeleteLedger, MarkFabricComplete,
               FinalizeFabric
    <2> HIDE DEF Hist1, Fab1, Fprov1, Ftear1, Ledgers1
    <2> QED
        BY <2>1, <2>2, <2>3, <2>4, <2>5, <2>6
<1>6. CASE ProvisionFails \/ TeardownFails
    <2>1. \E n \in Nets : TRUE
        BY <1>6 DEF ProvisionFails, TeardownFails, TypeOK
    <2> QED
        BY <1>3, <1>4, <1>6, <2>1
<1>7. CASE FabricProvisionFails \/ FabricTeardownFails
    <2>1. \E f \in Fabrics : TRUE
        BY <1>7 DEF FabricProvisionFails, FabricTeardownFails, TypeOK
    <2> QED
        BY <1>5, <1>7, <2>1
<1> QED
    <2> HIDE DEF All
    <2>1. All
        BY <1>1, <1>2, <1>3, <1>4, <1>5, <1>6, <1>7 DEF Next, Failure, All
    <2> QED
        BY <2>1 DEF All

-----------------------------------------------------------------------------
(* The inductive invariant *)

LEMMA InitIInv == Init => IInv /\ TornDownUnplaced
<1> SUFFICES ASSUME Init PROVE IInv /\ TornDownUnplaced
    OBVIOUS
<1>1. TypeOK
    BY InitTypeOK
<1>2. prov.pc = "idle" /\ tear.pc = "idle" /\ fprov.pc = "idle" /\ ftear.pc = "idle"
    BY DEF Init, IdleProvision, IdleTeardown, IdleFabricProvision, IdleFabricTeardown
<1>3. \A n \in Nets : ~ net[n].exists /\ ~ net[n].complete
    BY DEF Init, Absent, NewNetwork
<1>4. \A f \in Fabrics : ledger[f].exists /\ Allocated(f) = {}
    BY DEF Init, EmptyLedger, Allocated
<1>5. JobsApart /\ JobsKnow /\ Backed /\ TornDownUnplaced
    BY <1>2, <1>3, <1>4 DEF JobsApart, JobsKnow, Backed, TornDownUnplaced
<1>6. Accounted
    BY <1>4 DEF Accounted, Allocated
<1> QED
    BY <1>1, <1>5, <1>6 DEF IInv

LEMMA NextJobsApart ==
    ASSUME IInv, [Next]_vars
    PROVE  JobsApart'
<1> USE DEF IInv, JobsApart
<1>1. ASSUME NEW n \in Nets, StartProvision(n), prov'.pc # "idle", tear'.pc # "idle",
             tear'.net = prov'.net
      PROVE  prov'.net \in hist'.overlapped
    <2>1. prov'.net = n /\ tear.net = n /\ tear.pc # "idle"
        BY <1>1 DEF StartProvision
    <2>2. net[n].deleting
        BY <2>1 DEF JobsKnow
    <2>3. hist'.overlapped = hist.overlapped \cup {n}
        BY <1>1, <2>1, <2>2 DEF StartProvision, Overlapping, TypeOK, Histories
    <2> QED
        BY <2>1, <2>3
<1>2. ASSUME NEW n \in Nets, StartTeardown(n), prov'.pc # "idle", tear'.pc # "idle",
             tear'.net = prov'.net
      PROVE  prov'.net \in hist'.overlapped
    <2>1. CASE tear' = tear
        BY <1>2, <2>1 DEF StartTeardown
    <2>2. CASE tear' # tear
        BY <1>2, <2>2, CountedHist DEF StartTeardown, TypeOK
    <2> QED
        BY <2>1, <2>2
<1>3. AllocateVni => prov'.net = prov.net /\ prov.pc # "idle"
    BY DEF AllocateVni, TypeOK, ProvisionJobs
<1>4. ReleaseVni => tear'.net = tear.net /\ tear.pc # "idle"
    BY DEF ReleaseVni, TypeOK, TeardownJobs
<1>5. prov'.pc # "idle" /\ tear'.pc # "idle" /\ tear'.net = prov'.net =>
        prov'.net \in hist'.overlapped
    BY <1>1, <1>2, <1>3, <1>4, OtherSteps
<1>6. ASSUME NEW f \in Fabrics, StartFabricProvision(f), fprov'.pc # "idle",
             ftear'.pc # "idle", ftear'.fabric = fprov'.fabric
      PROVE  fprov'.moves \subseteq hist'.overlapped
    <2>1. fab[f].deleting
        BY <1>6, StartFabricProvisionType DEF StartFabricProvision, JobsKnow
    <2>2. hist'.overlapped = hist.overlapped \cup fprov'.moves
        BY <1>6, <2>1 DEF StartFabricProvision, Overlapping, TypeOK, Histories
    <2> QED
        BY <2>2
<1>7. ASSUME NEW f \in Fabrics, StartFabricTeardown(f), fprov'.pc # "idle",
             ftear'.pc # "idle", ftear'.fabric = fprov'.fabric
      PROVE  fprov'.moves \subseteq hist'.overlapped
    <2>1. CASE ftear' = ftear
        BY <1>7, <2>1, OtherSteps DEF StartFabricTeardown
    <2>2. CASE ftear' # ftear
        <3>1. fprov.fabric = f /\ fprov' = fprov
            BY <1>7, <2>2 DEF StartFabricTeardown
        <3>2. hist'.overlapped = hist.overlapped \cup fprov.moves
            BY <1>7, <2>2, <3>1 DEF StartFabricTeardown, Overlapping, TypeOK, Histories
        <3> QED
            BY <3>1, <3>2
    <2> QED
        BY <2>1, <2>2
<1>8. ASSUME NEW f \in Fabrics, MigrateRemove(f), fprov'.pc # "idle"
      PROVE  /\ fprov'.fabric = fprov.fabric /\ fprov.pc # "idle"
             /\ fprov'.moves \subseteq fprov.moves
    BY <1>8, MigrateRemoveType DEF MigrateRemove, Counting, IdleFabricProvision
<1>9. MigrateAdd => /\ fprov'.fabric = fprov.fabric /\ fprov.pc # "idle"
                    /\ fprov'.moves = fprov.moves
    BY DEF MigrateAdd, TypeOK, FabricProvisionJobs
<1>10. DeleteLedger => ftear'.fabric = ftear.fabric /\ ftear.pc # "idle"
    BY DEF DeleteLedger, TypeOK, FabricTeardownJobs
<1>11. fprov'.pc # "idle" /\ ftear'.pc # "idle" /\ ftear'.fabric = fprov'.fabric =>
         fprov'.moves \subseteq hist'.overlapped
    <2>1. CASE \E f \in Fabrics : StartFabricProvision(f) \/ StartFabricTeardown(f)
        BY <1>6, <1>7, <2>1
    <2>2. CASE ~ \E f \in Fabrics : StartFabricProvision(f) \/ StartFabricTeardown(f)
        BY <1>8, <1>9, <1>10, <2>2, OtherSteps
    <2> QED
        BY <2>1, <2>2
<1> QED
    BY <1>5, <1>11

LEMMA NextJobsKnow ==
    ASSUME IInv, [Next]_vars
    PROVE  JobsKnow'
<1> USE DEF IInv, JobsKnow
<1>0. TypeOK'
    BY NextTypeOK
<1>1. prov'.pc # "idle" => \/ prov'.net \in hist'.overlapped
                           \/ net'[prov'.net].exists /\ ~ net'[prov'.net].complete
    <2>1. ASSUME prov.pc # "idle", prov'.pc # "idle", prov'.net = prov.net,
                 prov.net \notin hist.overlapped
          PROVE  net'[prov.net].exists /\ ~ net'[prov.net].complete
        <3>1. prov.net \in Nets /\ NetStep(prov.net)
            BY <2>1, NetSteps DEF TypeOK
        <3>2. ~ Reports(prov.net) /\ ~ Completes(prov.net)
            BY <2>1 DEF Reports, Completes, MarkReady, MarkDeletionComplete, IdleProvision,
               JobsApart
        <3> QED
            BY <2>1, <3>1, <3>2 DEF NetStep, Creates, Finalizes, Patches
    <2>2. ASSUME NEW n \in Nets, StartProvision(n), prov'.pc # "idle"
          PROVE  \/ prov'.net \in hist'.overlapped
                 \/ net'[prov'.net].exists /\ ~ net'[prov'.net].complete
        <3>1. prov'.net = n /\ net' = net /\ net[n].exists
            BY <2>2 DEF StartProvision, ProvisionRescue
        <3>2. net[n].deleting => n \in hist'.overlapped
            BY <2>2 DEF StartProvision, ProvisionRescue, Overlapping, TypeOK, Histories
        <3> QED
            BY <3>1, <3>2
    <2>3. AllocateVni => prov'.net = prov.net /\ prov.pc # "idle"
        BY DEF AllocateVni, TypeOK, ProvisionJobs
    <2> QED
        BY <2>1, <2>2, <2>3, OtherSteps
<1>2. tear'.pc # "idle" =>
        /\ net'[tear'.net].exists /\ net'[tear'.net].deleting /\ ~ net'[tear'.net].complete
        /\ tear'.pc = "release" => \/ tear'.net \in hist'.overlapped
                                   \/ net'[tear'.net].fabric = tear'.fabric
    <2>1. ASSUME tear.pc # "idle", tear'.pc # "idle", tear'.net = tear.net
          PROVE  /\ net'[tear.net].exists /\ net'[tear.net].deleting
                 /\ ~ net'[tear.net].complete
                 /\ \/ tear.net \in hist.overlapped
                    \/ net'[tear.net].fabric = net[tear.net].fabric
        <3>1. tear.net \in Nets /\ NetStep(tear.net)
            BY <2>1, NetSteps DEF TypeOK
        <3>2. ~ Completes(tear.net)
            BY <2>1 DEF Completes, MarkDeletionComplete, IdleTeardown
        <3>3. CASE Reports(tear.net)
            BY <2>1, <3>1, <3>3 DEF Reports, MarkReady, JobsApart, TypeOK, Networks
        <3> QED
            BY <2>1, <3>1, <3>2, <3>3 DEF NetStep, Creates, Finalizes, Patches
    <2>2. ASSUME NEW n \in Nets, StartTeardown(n), tear'.pc # "idle"
          PROVE  /\ net'[tear'.net].exists /\ net'[tear'.net].deleting
                 /\ ~ net'[tear'.net].complete
                 /\ tear'.pc = "release" => net'[tear'.net].fabric = tear'.fabric
        BY <2>2 DEF StartTeardown
    <2>3. ReleaseVni => tear'.net = tear.net /\ tear.pc # "idle" /\ tear'.pc = "complete"
        BY DEF ReleaseVni, TypeOK, TeardownJobs
    <2> QED
        BY <2>1, <2>2, <2>3, OtherSteps
<1> DEFINE Migration ==
             /\ fprov.pc # "idle" => fprov.fabric \notin DOMAIN fprov.keep
             /\ fprov.pc \in {"add", "remove"} =>
                   \A n \in fprov.moves : fprov.mine[n] # NoVni
             /\ fprov.pc = "remove" => fprov.moves \subseteq hist.moved
<1>3. Migration'
    <2>1. CASE MigrateAdd
        <3>1. /\ fprov' = [fprov EXCEPT !.pc = "remove"] /\ fprov.pc = "add"
              /\ hist'.moved = hist.moved \cup fprov.moves
            BY <2>1 DEF MigrateAdd, TypeOK, Histories
        <3> QED
            BY <3>1 DEF TypeOK, FabricProvisionJobs
    <2>2. ASSUME NEW f \in Fabrics, MigrateRemove(f)
          PROVE  Migration'
        <3>1. fprov.pc = "remove"
            BY <2>2 DEF MigrateRemove
        <3> QED
            BY <2>2, <3>1, MigrateRemoveType, OtherSteps
    <2>3. ASSUME NEW f \in Fabrics, StartFabricProvision(f)
          PROVE  Migration'
        BY <2>3, StartFabricProvisionType
    <2> QED
        BY <2>1, <2>2, <2>3, OtherSteps
<1>4. ftear'.pc # "idle" => fab'[ftear'.fabric].deleting
    <2>1. ASSUME NEW f \in Fabrics, StartFabricTeardown(f), ftear'.pc # "idle"
          PROVE  fab'[ftear'.fabric].deleting
        BY <2>1 DEF StartFabricTeardown
    <2>2. DeleteLedger => ftear'.fabric = ftear.fabric /\ ftear.pc # "idle"
        BY DEF DeleteLedger, TypeOK, FabricTeardownJobs
    <2> QED
        BY <2>1, <2>2, OtherSteps DEF TypeOK
<1>5. \A n \in Nets : net'[n].complete => net'[n].deleting
    <2> SUFFICES ASSUME NEW n \in Nets, net'[n].complete PROVE net'[n].deleting
        OBVIOUS
    <2>1. NetStep(n)
        BY NetSteps
    <2>2. ~ Finalizes(n)
        BY DEF Finalizes, Absent, NewNetwork
    <2>3. CASE Reports(n)
        BY <2>3 DEF Reports, TypeOK, Networks
    <2>4. CASE Completes(n)
        BY <2>4 DEF Completes, MarkDeletionComplete, TypeOK, Networks
    <2> QED
        BY <2>1, <2>2, <2>3, <2>4 DEF NetStep, Creates, Patches
<1>6. \A f \in Fabrics : ~ ledger'[f].exists => Allocated(f)' = {}
    <2> SUFFICES ASSUME NEW f \in Fabrics, ~ ledger'[f].exists PROVE Allocated(f)' = {}
        OBVIOUS
    <2>1. CASE /\ ledger'[f].held = ledger[f].held
               /\ ledger[f].exists => ledger'[f].exists
        BY <2>1 DEF Allocated
    <2>2. CASE DeleteLedger
        BY <2>2 DEF DeleteLedger, EmptyLedger, Allocated, TypeOK
    <2>3. CASE AllocateVni
        BY <2>1, <2>3 DEF AllocateVni, TypeOK, Ledgers
    <2>4. CASE ReleaseVni
        BY <2>1, <2>4 DEF ReleaseVni, TypeOK, Ledgers
    <2>5. CASE MigrateAdd
        BY <2>1, <2>5 DEF MigrateAdd, Patched, TypeOK, Ledgers
    <2>6. ASSUME NEW g \in Fabrics, MigrateRemove(g) PROVE Allocated(f)' = {}
        BY <2>1, <2>6 DEF MigrateRemove, Patched, TypeOK, Ledgers
    <2> QED
        BY <2>1, <2>2, <2>3, <2>4, <2>5, <2>6, OtherSteps DEF SameLedgers
<1> QED
    BY <1>1, <1>2, <1>3, <1>4, <1>5, <1>6

\* A ledger that holds a number is not about to be deleted on the next step.
LEMMA NotDoomed ==
    ASSUME IInv, [Next]_vars, NEW n \in Nets, NEW g \in Fabrics,
           ledger[g].held[n] # NoVni, ~ Doomed(g)
    PROVE  ~ Doomed(g)'
<1>1. ASSUME NEW h \in Fabrics, StartFabricTeardown(h) PROVE ~ Doomed(g)'
    BY <1>1 DEF StartFabricTeardown, Allocated, Doomed
<1>2. DeleteLedger => ~ Doomed(g)'
    BY DEF DeleteLedger, Doomed, IInv, TypeOK, FabricTeardownJobs
<1> QED
    BY <1>1, <1>2, OtherSteps DEF Doomed, IInv

\* What backs a number keeps backing it, unless the network is torn down.
LEMMA BacksPersists ==
    ASSUME IInv, [Next]_vars, NEW n \in Nets, NEW f \in Fabrics, NEW vni,
           vni # NoVni, Backs(n, f, vni), ~ (ReleaseVni /\ tear.net = n)
    PROVE  Backs(n, f, vni)'
<1> USE DEF IInv
<1> DEFINE Excepted == n \in hist.crossed \/ n \in hist.overlapped \/ fab[f].deleting
<1>1. CASE Excepted
    BY <1>1, OtherSteps DEF Backs
<1>2. CASE n \notin hist'.crossed /\ ~ Excepted
    <2>1. PICK g \in Fabrics : /\ g = f \/ n \in hist.moved
                               /\ ledger[g].held[n] = vni /\ ~ Doomed(g)
        BY <1>2 DEF Backs
    <2>2. ~ Doomed(g)' /\ (g = f \/ n \in hist'.moved)
        BY <2>1, NotDoomed, OtherSteps
    <2>3. ledger'[g].held[n] = vni => Backs(n, f, vni)'
        BY <2>2 DEF Backs
    <2>4. CASE AllocateVni
        <3>1. PICK v \in Choice(prov.net, prov.fabric, prov.prior) :
                 ledger' = [ledger EXCEPT ![prov.fabric].held[prov.net] = v]
            BY <2>4 DEF AllocateVni
        <3>2. prov.net \in Nets /\ prov.fabric \in Fabrics
            BY <2>4 DEF AllocateVni, TypeOK
        <3>3. n = prov.net /\ g = prov.fabric => v = vni
            BY <2>1, <3>2, ChoiceType
        <3> QED
            BY <2>1, <2>3, <3>1, <3>2, <3>3 DEF TypeOK, Ledgers
    <2>5. CASE ReleaseVni
        BY <2>1, <2>3, <2>5 DEF ReleaseVni, TypeOK, Ledgers
    <2>6. CASE DeleteLedger
        BY <2>1, <2>3, <2>6 DEF DeleteLedger, Doomed, TypeOK
    <2>7. CASE MigrateAdd
        <3>1. n \notin CrossedHere /\ ledger' = Patched(fprov.fabric, fprov.mine)
            BY <1>2, <2>7 DEF MigrateAdd, TypeOK, Histories
        <3>2. g = fprov.fabric => fprov.mine[n] = vni
            BY <2>1, <2>7, <3>1 DEF CrossedHere, MigrateAdd
        <3> QED
            BY <2>1, <2>3, <3>1, <3>2 DEF Patched, TypeOK, Ledgers
    <2>8. ASSUME NEW h \in Fabrics, MigrateRemove(h) PROVE Backs(n, f, vni)'
        <3>1. /\ n \notin CrossedHere /\ n \notin CrossedThere(h)
              /\ ledger' = Patched(h, fprov.keep[h])
              /\ fprov.pc = "remove" /\ h \in DOMAIN fprov.keep
            BY <1>2, <2>8 DEF MigrateRemove, TypeOK, Histories
        <3>2. CASE g # h
            BY <2>1, <2>3, <3>1, <3>2 DEF Patched, TypeOK
        <3>3. CASE g = h /\ n \notin fprov.moves
            <4>1. fprov.keep[h][n] = vni
                BY <2>1, <3>1, <3>3 DEF CrossedThere
            <4> QED
                BY <2>1, <2>3, <3>1, <3>3, <4>1 DEF Patched, TypeOK, Ledgers
        <3>4. CASE g = h /\ n \in fprov.moves
            <4>1. fprov.mine[n] = vni /\ ledger[fprov.fabric].held[n] = vni
                BY <2>1, <3>1, <3>4 DEF CrossedThere, CrossedHere
            <4>2. fprov.fabric \in Fabrics /\ fprov.fabric # h /\ n \in hist.moved
                BY <3>1, <3>4 DEF TypeOK, JobsKnow
            <4>3. PICK k \in Fabrics : k = fprov.fabric
                BY <4>2
            <4>4. ~ Doomed(k)
                BY <1>2, <3>1, <3>4, <4>3 DEF Doomed, JobsApart
            <4>5. ~ Doomed(k)' /\ n \in hist'.moved
                BY <4>1, <4>2, <4>3, <4>4, NotDoomed, OtherSteps
            <4>6. ledger'[k].held[n] = vni
                BY <3>1, <4>1, <4>2, <4>3 DEF Patched, TypeOK
            <4> QED
                BY <4>5, <4>6 DEF Backs
        <3> QED
            BY <3>2, <3>3, <3>4
    <2> QED
        BY <2>1, <2>3, <2>4, <2>5, <2>6, <2>7, <2>8, OtherSteps DEF SameLedgers
<1>3. CASE n \in hist'.crossed
    BY <1>3 DEF Backs
<1> QED
    BY <1>1, <1>2, <1>3

\* The number just allocated is backed by its ledger.
LEMMA AllocationBacked ==
    ASSUME IInv, [Next]_vars, AllocateVni
    PROVE  \E n \in Nets, f \in Fabrics, v \in Vnis :
              /\ prov'.net = n /\ prov'.fabric = f /\ prov'.vni = v
              /\ v # NoVni /\ Backs(n, f, v)'
<1> USE DEF IInv
<1>1. PICK v \in Choice(prov.net, prov.fabric, prov.prior) :
         /\ ledger' = [ledger EXCEPT ![prov.fabric].held[prov.net] = v]
         /\ prov' = [prov EXCEPT !.pc = "report", !.vni = v]
    BY DEF AllocateVni
<1>2. PICK n \in Nets, f \in Fabrics : n = prov.net /\ f = prov.fabric
    BY DEF AllocateVni, TypeOK
<1>3. v # NoVni /\ v \in Vnis
    BY <1>2, ChoiceType
<1>4. prov'.net = n /\ prov'.fabric = f /\ prov'.vni = v
    BY <1>1, <1>2 DEF TypeOK, ProvisionJobs
<1>5. ledger'[f].held[n] = v
    BY <1>1, <1>2 DEF TypeOK, Ledgers
<1>6. Doomed(f)' => fab'[f].deleting
    BY DEF Doomed, JobsKnow, AllocateVni
<1>7. Backs(n, f, v)'
    BY <1>5, <1>6 DEF Backs
<1> QED
    BY <1>3, <1>4, <1>7

LEMMA NextBacked ==
    ASSUME IInv, [Next]_vars
    PROVE  Backed'
<1> USE DEF IInv
<1>1. ASSUME NEW n \in Nets, net'[n].exists, ~ net'[n].deleting, net'[n].allocated
      PROVE  \E f \in Fabrics, v \in Vnis :
                /\ net'[n].fabric = f /\ net'[n].vni = v
                /\ v # NoVni /\ Backs(n, f, v)'
    <2>1. CASE /\ net[n].exists /\ ~ net[n].deleting /\ net[n].allocated
               /\ net'[n].fabric = net[n].fabric /\ net'[n].vni = net[n].vni
        <3>1. ~ (ReleaseVni /\ tear.net = n)
            BY <2>1 DEF ReleaseVni, JobsKnow
        <3>2. PICK f \in Fabrics, v \in Vnis : f = net[n].fabric /\ v = net[n].vni
            BY <2>1 DEF Backed, TypeOK, Networks
        <3>3. v # NoVni /\ Backs(n, f, v)
            BY <2>1, <3>2 DEF Backed
        <3>4. Backs(n, f, v)'
            BY <3>1, <3>3, BacksPersists
        <3> QED
            BY <2>1, <3>2, <3>3, <3>4
    <2>2. CASE Reports(n)
        <3>1. prov.pc = "report" /\ prov.net = n /\ ~ ReleaseVni
            BY <2>2 DEF Reports, MarkReady, ReleaseVni, IdleProvision
        <3>2. PICK f \in Fabrics, v \in Vnis : f = prov.fabric /\ v = prov.vni
            BY <3>1 DEF TypeOK, ProvisionJobs
        <3>3. v # NoVni /\ Backs(n, f, v)
            BY <3>1, <3>2 DEF Backed
        <3>4. Backs(n, f, v)'
            BY <3>1, <3>3, BacksPersists
        <3>5. net'[n].vni = v /\ net'[n].fabric = f
            BY <2>2, <3>2 DEF Reports, TypeOK, Networks
        <3> QED
            BY <3>3, <3>4, <3>5
    <2>3. ~ Creates(n) /\ ~ Finalizes(n)
        BY <1>1 DEF Creates, Finalizes, Absent, NewNetwork
    <2>4. ~ Completes(n)
        BY <1>1 DEF Completes, MarkDeletionComplete, JobsKnow, TypeOK, Networks
    <2> QED
        BY <1>1, <2>1, <2>2, <2>3, <2>4, NetSteps DEF NetStep, Patches
<1>2. ASSUME prov'.pc = "report"
      PROVE  \E n \in Nets, f \in Fabrics, v \in Vnis :
                /\ prov'.net = n /\ prov'.fabric = f /\ prov'.vni = v
                /\ v # NoVni /\ Backs(n, f, v)'
    <2>1. CASE prov' = prov
        <3>1. PICK n \in Nets, f \in Fabrics, v \in Vnis :
                 n = prov.net /\ f = prov.fabric /\ v = prov.vni
            BY <1>2, <2>1 DEF TypeOK, ProvisionJobs
        <3>2. v # NoVni /\ Backs(n, f, v)
            BY <1>2, <2>1, <3>1 DEF Backed
        <3>3. CASE ReleaseVni /\ tear.net = n
            <4>1. n \in hist'.overlapped
                BY <1>2, <2>1, <3>1, <3>3, OtherSteps DEF ReleaseVni, JobsApart
            <4> QED
                BY <2>1, <3>1, <3>2, <4>1 DEF Backs
        <3>4. CASE ~ (ReleaseVni /\ tear.net = n)
            <4>1. Backs(n, f, v)'
                BY <3>2, <3>4, BacksPersists
            <4> QED
                BY <2>1, <3>1, <3>2, <4>1
        <3> QED
            BY <3>3, <3>4
    <2>2. CASE AllocateVni
        BY <2>2, AllocationBacked
    <2>3. ASSUME NEW n \in Nets, StartProvision(n) PROVE FALSE
        BY <1>2, <2>3 DEF StartProvision
    <2> QED
        BY <1>2, <2>1, <2>2, <2>3, OtherSteps
<1> QED
    BY <1>1, <1>2 DEF Backed, Backs

\* A provision that was about to report has reported, or the network is known as
\* unreported, or no ledger holds a number for it.
LEMMA ProvisionEnds ==
    ASSUME TypeOK, [Next]_vars, prov.pc = "report", prov' # prov
    PROVE  MarkReady \/ prov.net \in hist'.unreported \/ Holders(prov.net) = {}
<1>1. CASE ProvisionFails
    BY <1>1 DEF ProvisionFails, Unreported, TypeOK, Histories
<1>2. ASSUME NEW n \in Nets, Provision(n)
      PROVE  MarkReady
    BY <1>2 DEF Provision, StartProvision, AllocateVni, AllocateFails
<1>3. CASE User \/ TeardownFails \/ FabricProvisionFails \/ FabricTeardownFails
    BY <1>3 DEF User, CreateNetwork, DeleteNetwork, EditFabricRef, CreatePlacement,
       RemovePlacement, DeleteFabric, TeardownFails, FabricProvisionFails,
       FabricTeardownFails
<1>4. ASSUME NEW n \in Nets, Teardown(n)
      PROVE  FALSE
    BY <1>4 DEF Teardown, StartTeardown, ReleaseVni, MarkDeletionComplete, FinalizeNetwork
<1>5. ASSUME NEW f \in Fabrics, FabricSteps(f)
      PROVE  FALSE
    BY <1>5 DEF FabricSteps, ReconcileFabric, MarkFabricNotReady, StartFabricProvision,
       MigrateAdd, MigrateRemove, MarkFabricReady, FabricProvisionStuck,
       StartFabricTeardown, DeleteLedger, MarkFabricComplete, FinalizeFabric
<1> QED
    BY <1>1, <1>2, <1>3, <1>4, <1>5 DEF Next, Failure, vars

\* A clean network is in a ledger that did not hold it only by its own provision.
LEMMA HeldBefore ==
    ASSUME IInv, [Next]_vars, NEW n \in Nets, NEW f \in Fabrics,
           Clean(n)', ledger'[f].held[n] # NoVni, ledger[f].held[n] = NoVni
    PROVE  AllocateVni /\ prov.net = n /\ prov.fabric = f
<1> USE DEF IInv
<1>1. n \notin hist'.moved /\ n \notin hist'.crossed
    BY DEF Clean
<1>2. CASE AllocateVni
    <2>1. PICK v : ledger' = [ledger EXCEPT ![prov.fabric].held[prov.net] = v]
        BY <1>2 DEF AllocateVni
    <2> QED
        BY <1>2, <2>1 DEF TypeOK, Ledgers
<1>3. CASE ReleaseVni
    BY <1>3 DEF ReleaseVni, TypeOK, Ledgers
<1>4. CASE DeleteLedger
    BY <1>4 DEF DeleteLedger, EmptyLedger, TypeOK
<1>5. CASE MigrateAdd
    <2>1. n \notin CrossedHere /\ n \notin fprov.moves
        BY <1>1, <1>5 DEF MigrateAdd, TypeOK, Histories
    <2>2. f = fprov.fabric => fprov.mine[n] = NoVni
        BY <1>5, <2>1 DEF CrossedHere, MigrateAdd
    <2> QED
        BY <1>5, <2>2 DEF MigrateAdd, Patched, TypeOK, Ledgers
<1>6. ASSUME NEW g \in Fabrics, MigrateRemove(g) PROVE FALSE
    <2>1. n \notin CrossedThere(g) /\ n \notin fprov.moves
        BY <1>1, <1>6 DEF MigrateRemove, TypeOK, Histories, JobsKnow
    <2>2. f = g => fprov.keep[g][n] = NoVni
        BY <2>1 DEF CrossedThere
    <2> QED
        BY <1>6, <2>2 DEF MigrateRemove, Patched, TypeOK, Ledgers
<1> QED
    BY <1>2, <1>3, <1>4, <1>5, <1>6, OtherSteps DEF SameLedgers

LEMMA NextAccounted ==
    ASSUME IInv, [Next]_vars
    PROVE  Accounted'
<1> USE DEF IInv
<1> SUFFICES ASSUME NEW n \in Nets, NEW f \in Fabrics, Clean(n)',
                    ledger'[f].held[n] # NoVni
             PROVE  /\ net'[n].exists /\ ~ net'[n].complete
                    /\ ~ (tear'.pc = "complete" /\ tear'.net = n)
                    /\ \/ net'[n].fabric = f /\ net'[n].allocated
                       \/ prov'.pc = "report" /\ prov'.net = n /\ prov'.fabric = f
    BY DEF Accounted
<1>1. /\ Clean(n) /\ n \notin hist'.unreported /\ n \notin hist'.moved
      /\ n \notin hist.overlapped /\ n \notin hist'.overlapped
    BY OtherSteps DEF Clean
<1>2. CASE ledger[f].held[n] = NoVni
    <2>1. AllocateVni /\ prov.net = n /\ prov.fabric = f
        BY <1>2, HeldBefore
    <2>2. prov'.pc = "report" /\ prov'.net = n /\ prov'.fabric = f
        BY <2>1 DEF AllocateVni, TypeOK, ProvisionJobs
    <2> QED
        BY <1>1, <2>1, <2>2 DEF AllocateVni, JobsKnow, JobsApart
<1>3. CASE ledger[f].held[n] # NoVni
    <2>0. Holders(n) # {}
        BY <1>3 DEF Holders
    <2>1. /\ net[n].exists /\ ~ net[n].complete
          /\ ~ (tear.pc = "complete" /\ tear.net = n)
          /\ \/ net[n].fabric = f /\ net[n].allocated
             \/ prov.pc = "report" /\ prov.net = n /\ prov.fabric = f
        BY <1>1, <1>3 DEF Accounted
    <2>2. NetStep(n) /\ ~ Creates(n) /\ ~ Finalizes(n) /\ ~ Completes(n)
        BY <2>1, NetSteps DEF Creates, Finalizes, Completes, MarkDeletionComplete
    <2>3. CASE Reports(n)
        <3>1. net[n].fabric \in {NoFabric, prov.fabric}
            BY <1>1, <2>3 DEF Reports, MarkReady, TypeOK, Histories
        <3>2. f = prov.fabric
            BY <2>1, <3>1, PoolAssumption
        <3>3. tear' = tear
            BY <2>3 DEF Reports, MarkReady
        <3>4. /\ net'[n].fabric = f /\ net'[n].allocated /\ net'[n].exists
              /\ ~ net'[n].complete
            BY <2>1, <2>3, <3>2 DEF Reports, TypeOK, Networks
        <3> QED
            BY <2>1, <3>3, <3>4
    <2>4. CASE net'[n] = net[n] \/ Patches(n)
        <3>1. net'[n].exists /\ ~ net'[n].complete
            BY <2>1, <2>4 DEF Patches
        <3>2. net[n].allocated => net'[n].fabric = net[n].fabric /\ net'[n].allocated
            BY <1>1, <2>0, <2>4 DEF Patches
        <3>3. ASSUME prov.pc = "report", prov.net = n, prov.fabric = f
              PROVE  \/ net'[n].fabric = f /\ net'[n].allocated
                     \/ prov'.pc = "report" /\ prov'.net = n /\ prov'.fabric = f
            <4>1. CASE prov' = prov
                BY <3>3, <4>1
            <4>2. CASE MarkReady
                BY <1>1, <2>1, <3>3, <4>2 DEF MarkReady, TypeOK, Networks
            <4> QED
                BY <1>1, <2>0, <3>3, <4>1, <4>2, ProvisionEnds
        <3>4. ASSUME tear'.pc = "complete", tear'.net = n
              PROVE  FALSE
            <4>1. CASE ReleaseVni
                <5>1. tear.net = n /\ tear.pc = "release"
                    BY <3>4, <4>1 DEF ReleaseVni, TypeOK, TeardownJobs
                <5>2. net[n].fabric = f /\ tear.fabric = f
                    BY <1>1, <2>1, <5>1 DEF JobsKnow, JobsApart
                <5>3. ledger[f].exists
                    BY <1>3 DEF JobsKnow, Allocated
                <5> QED
                    BY <4>1, <5>1, <5>2, <5>3 DEF ReleaseVni, TypeOK, Ledgers
            <4>2. ASSUME NEW m \in Nets, StartTeardown(m) PROVE FALSE
                <5>1. m = n /\ n \notin placed
                    BY <2>1, <3>4, <4>2 DEF StartTeardown
                <5>2. ~ (net[n].fabric # NoFabric /\ net[n].allocated)
                    BY <2>1, <3>4, <4>2, <5>1 DEF StartTeardown
                <5>3. prov.net # n
                    <6>1. Counted(n)
                        BY <2>1, <3>4, <4>2, <5>1 DEF StartTeardown
                    <6> QED
                        BY <1>1, <6>1, CountedHist DEF TypeOK
                <5> QED
                    BY <2>1, <5>2, <5>3, PoolAssumption
            <4> QED
                BY <2>1, <3>4, <4>1, <4>2, OtherSteps
        <3> QED
            BY <2>1, <3>1, <3>2, <3>3, <3>4
    <2> QED
        BY <2>2, <2>3, <2>4 DEF NetStep
<1> QED
    BY <1>2, <1>3

LEMMA NextTornDownUnplaced ==
    ASSUME IInv, TornDownUnplaced, [Next]_vars
    PROVE  TornDownUnplaced'
<1> USE DEF IInv
<1>1. ASSUME NEW n \in Nets, CreatePlacement(n), tear.pc # "idle"
      PROVE  tear' = tear /\ tear.net \notin placed' \ hist'.late
    BY <1>1 DEF CreatePlacement, TornDownUnplaced, TypeOK, Histories
<1>2. ASSUME NEW n \in Nets, RemovePlacement(n), tear.pc # "idle"
      PROVE  tear' = tear /\ tear.net \notin placed' \ hist'.late
    BY <1>2 DEF RemovePlacement, TornDownUnplaced, TypeOK, Histories
<1>3. ASSUME NEW n \in Nets, StartTeardown(n), tear'.pc # "idle"
      PROVE  tear'.net \notin placed' \ hist'.late
    <2>1. tear'.net = n /\ n \notin placed'
        BY <1>3 DEF StartTeardown
    <2> QED
        BY <2>1
<1>4. \/ placed' = placed /\ hist'.late = hist.late
      \/ \E n \in Nets : CreatePlacement(n) \/ RemovePlacement(n) \/ StartTeardown(n)
    <2> DEFINE Kept == placed' = placed /\ hist'.late = hist.late
    <2>1. ASSUME NEW n \in Nets,
                 CreateNetwork(n) \/ DeleteNetwork(n) \/ EditFabricRef(n)
          PROVE  Kept
        BY <2>1 DEF CreateNetwork, DeleteNetwork, EditFabricRef, TypeOK, Histories
    <2>2. CASE Failure \/ UNCHANGED vars \/ \E f \in Fabrics : DeleteFabric(f)
        BY <2>2 DEF Failure, ProvisionFails, TeardownFails, FabricProvisionFails,
           FabricTeardownFails, DeleteFabric, vars, TypeOK, Histories
    <2>3. ASSUME NEW n \in Nets, Provision(n)
          PROVE  Kept
        BY <2>3 DEF Provision, StartProvision, ProvisionRescue, Overlapping, AllocateVni,
           AllocateFails, MarkReady, Unreported, TypeOK, Histories
    <2>4. ASSUME NEW n \in Nets, Teardown(n), ~ StartTeardown(n)
          PROVE  Kept
        BY <2>4 DEF Teardown, ReleaseVni, MarkDeletionComplete, FinalizeNetwork
    <2>5. ASSUME NEW f \in Fabrics, FabricSteps(f)
          PROVE  Kept
        BY <2>5 DEF FabricSteps, ReconcileFabric, MarkFabricNotReady, StartFabricProvision,
           MigrateAdd, MigrateRemove, MarkFabricReady, FabricProvisionStuck, Overlapping,
           StartFabricTeardown, DeleteLedger, MarkFabricComplete, FinalizeFabric,
           TypeOK, Histories
    <2> QED
        BY <2>1, <2>2, <2>3, <2>4, <2>5 DEF Next, User
<1>5. ReleaseVni => tear'.net = tear.net /\ tear.pc # "idle"
    BY DEF ReleaseVni, TypeOK, TeardownJobs
<1>6. ASSUME placed' = placed, hist'.late = hist.late, tear'.pc # "idle",
             ~ \E n \in Nets : StartTeardown(n)
      PROVE  tear'.net \notin placed' \ hist'.late
    BY <1>5, <1>6, OtherSteps DEF TornDownUnplaced
<1>7. tear'.pc # "idle" => tear'.net \notin placed' \ hist'.late
    <2>1. CASE \E n \in Nets : StartTeardown(n)
        BY <1>3, <2>1
    <2>2. CASE \E n \in Nets : CreatePlacement(n) \/ RemovePlacement(n)
        <3>1. tear' = tear
            BY <2>2 DEF CreatePlacement, RemovePlacement
        <3> QED
            BY <1>1, <1>2, <2>2, <3>1
    <2> QED
        BY <1>4, <1>6, <2>1, <2>2
<1> QED
    BY <1>7 DEF TornDownUnplaced

-----------------------------------------------------------------------------
(* One number, one network: a ledger, and whatever a migration writes into it *)

Distinct(held) == \A n, m \in Nets : n # m /\ held[n] # NoVni => held[n] # held[m]

UniquePerLedger == \A f \in Fabrics : Distinct(ledger[f].held)

PlansDistinct ==
    /\ fprov.pc = "add" => Distinct(fprov.mine)
    /\ fprov.pc \in {"add", "remove"} =>
          \A g \in DOMAIN fprov.keep : Distinct(fprov.keep[g])

\* What a migration plans from distinct ledgers is distinct.
LEMMA PlannedDistinct ==
    ASSUME TypeOK, UniquePerLedger, NEW f \in Fabrics, StartFabricProvision(f)
    PROVE  PlansDistinct'
<1>1. PICK mine \in Plans(f) :
        LET legacy == {g \in Fabrics \ {f} : Leaving(f, g, mine) # {}} IN
        fprov' = IF legacy = {} THEN Counting(f)
                 ELSE [pc |-> "add", fabric |-> f, mine |-> mine,
                       keep |-> [g \in legacy |->
                                   Without(ledger[g].held, Leaving(f, g, mine))],
                       moves |-> UNION {Leaving(f, g, mine) : g \in legacy}]
    BY DEF StartFabricProvision
<1>2. Distinct(mine)
    <2> SUFFICES ASSUME NEW n \in Nets, NEW m \in Nets, n # m, mine[n] # NoVni,
                        mine[n] = mine[m]
                 PROVE  FALSE
        BY DEF Distinct
    <2>1. ASSUME NEW k \in Nets, mine[k] # NoVni, ledger[f].held[k] = NoVni
          PROVE  \A l \in Nets \ {k} : mine[l] # mine[k]
        BY <2>1 DEF Plans
    <2>2. ledger[f].held[n] # NoVni /\ ledger[f].held[m] # NoVni
        BY <2>1
    <2>3. mine[n] = ledger[f].held[n] /\ mine[m] = ledger[f].held[m]
        BY <2>2 DEF Plans
    <2> QED
        BY <2>2, <2>3 DEF UniquePerLedger, Distinct
<1>3. \A g \in Fabrics, ns \in SUBSET Nets : Distinct(Without(ledger[g].held, ns))
    BY DEF UniquePerLedger, Distinct, Without
<1>4. \A g \in Fabrics : Leaving(f, g, mine) \in SUBSET Nets
    BY DEF Leaving
<1> DEFINE legacy == {g \in Fabrics \ {f} : Leaving(f, g, mine) # {}}
           keep == [g \in legacy |-> Without(ledger[g].held, Leaving(f, g, mine))]
<1>5. CASE legacy = {}
    BY <1>1, <1>5 DEF PlansDistinct, Counting, IdleFabricProvision
<1>6. CASE legacy # {}
    <2>1. fprov'.mine = mine /\ fprov'.keep = keep
        BY <1>1, <1>6
    <2>2. \A g \in DOMAIN keep : Distinct(keep[g])
        BY <1>3, <1>4
    <2> HIDE DEF keep, legacy
    <2> QED
        BY <1>2, <2>1, <2>2 DEF PlansDistinct, Distinct
<1> QED
    BY <1>5, <1>6

LEMMA NextUnique ==
    ASSUME TypeOK, UniquePerLedger, PlansDistinct, [Next]_vars
    PROVE  UniquePerLedger' /\ PlansDistinct'
<1>1. ASSUME NEW f \in Fabrics, \A n \in Nets : ledger'[f].held[n] = ledger[f].held[n]
      PROVE  Distinct(ledger[f].held)'
    BY <1>1 DEF UniquePerLedger, Distinct
<1>2. ASSUME NEW f \in Fabrics
      PROVE  Distinct(ledger[f].held)'
    <2>1. CASE AllocateVni
        <3>1. PICK v \in Choice(prov.net, prov.fabric, prov.prior) :
                 ledger' = [ledger EXCEPT ![prov.fabric].held[prov.net] = v]
            BY <2>1 DEF AllocateVni
        <3>2. prov.net \in Nets /\ prov.fabric \in Fabrics
            BY <2>1 DEF AllocateVni, TypeOK
        <3>3. \A m \in Nets \ {prov.net} : ledger[prov.fabric].held[m] # v
            BY <3>1, <3>2 DEF Choice, Free, UniquePerLedger, Distinct
        <3>4. CASE f = prov.fabric
            <4>1. ledger'[f].held[prov.net] = v
                  /\ \A m \in Nets \ {prov.net} : ledger'[f].held[m] = ledger[f].held[m]
                BY <3>1, <3>2, <3>4 DEF TypeOK, Ledgers
            <4> QED
                BY <3>3, <3>4, <4>1 DEF UniquePerLedger, Distinct
        <3> QED
            BY <1>1, <3>1, <3>2, <3>4 DEF TypeOK
    <2>2. CASE ReleaseVni
        <3>1. \A m \in Nets : \/ ledger'[f].held[m] = NoVni
                              \/ ledger'[f].held[m] = ledger[f].held[m]
            BY <2>2 DEF ReleaseVni, TypeOK, Ledgers
        <3> QED
            BY <3>1 DEF UniquePerLedger, Distinct
    <2>3. CASE DeleteLedger
        <3>1. \A m \in Nets : \/ ledger'[f].held[m] = NoVni
                              \/ ledger'[f].held[m] = ledger[f].held[m]
            BY <2>3 DEF DeleteLedger, EmptyLedger, TypeOK
        <3> QED
            BY <3>1 DEF UniquePerLedger, Distinct
    <2>4. CASE MigrateAdd
        <3>1. Distinct(fprov.mine)
            BY <2>4 DEF MigrateAdd, PlansDistinct
        <3>2. ledger'[f] = ledger[f] \/ ledger'[f].held = fprov.mine
            BY <2>4 DEF MigrateAdd, Patched, TypeOK, Ledgers
        <3> QED
            BY <1>1, <3>1, <3>2 DEF Distinct
    <2>5. ASSUME NEW g \in Fabrics, MigrateRemove(g)
          PROVE  Distinct(ledger[f].held)'
        <3>1. Distinct(fprov.keep[g])
            BY <2>5 DEF MigrateRemove, PlansDistinct
        <3>2. ledger'[f] = ledger[f] \/ ledger'[f].held = fprov.keep[g]
            BY <2>5 DEF MigrateRemove, Patched, TypeOK, Ledgers
        <3> QED
            BY <1>1, <3>1, <3>2 DEF Distinct
    <2> QED
        BY <1>1, <2>1, <2>2, <2>3, <2>4, <2>5, OtherSteps DEF SameLedgers
<1>3. PlansDistinct'
    <2>1. CASE MigrateAdd
        <3>1. fprov' = [fprov EXCEPT !.pc = "remove"] /\ fprov.pc = "add"
            BY <2>1 DEF MigrateAdd
        <3>2. fprov'.keep = fprov.keep /\ fprov'.pc = "remove"
            BY <3>1 DEF TypeOK, FabricProvisionJobs
        <3> QED
            BY <3>1, <3>2 DEF PlansDistinct, Distinct
    <2>2. ASSUME NEW g \in Fabrics, MigrateRemove(g)
          PROVE  PlansDistinct'
        <3>1. CASE DOMAIN fprov.keep \ {g} = {}
            BY <2>2, <3>1 DEF MigrateRemove, Counting, IdleFabricProvision, PlansDistinct
        <3>2. CASE DOMAIN fprov.keep \ {g} # {}
            <4> DEFINE rest == DOMAIN fprov.keep \ {g}
                       left == [h \in rest |-> fprov.keep[h]]
            <4>1. fprov' = [fprov EXCEPT !.keep = left] /\ fprov.pc = "remove"
                BY <2>2, <3>2 DEF MigrateRemove
            <4>2. \A h \in DOMAIN left : Distinct(left[h])
                BY <4>1 DEF PlansDistinct
            <4> HIDE DEF left
            <4>3. fprov'.keep = left /\ fprov'.pc = "remove"
                BY <4>1 DEF TypeOK, FabricProvisionJobs
            <4> QED
                BY <4>2, <4>3 DEF PlansDistinct, Distinct
        <3> QED
            BY <3>1, <3>2
    <2>3. CASE fprov' = fprov \/ fprov'.pc = "idle"
        BY <2>3 DEF PlansDistinct, Distinct
    <2> QED
        BY <2>1, <2>2, <2>3, PlannedDistinct, OtherSteps
<1> QED
    BY <1>2, <1>3 DEF UniquePerLedger, Distinct

-----------------------------------------------------------------------------
(* The theorems *)

\* Resources, ledgers and jobs stay well-formed: every number in a ledger, a status
\* or a migration plan is a number of some fabric's pool.
THEOREM TypeCorrect == Spec => []TypeOK
BY InitTypeOK, NextTypeOK, PTL DEF Spec

\* What jobs read, what backs a number and who answers for it.
THEOREM Inductive == Spec => []IInv
<1>1. IInv /\ [Next]_vars => IInv'
    BY NextTypeOK, NextJobsApart, NextJobsKnow, NextBacked, NextAccounted DEF IInv
<1> QED
    BY InitIInv, <1>1, PTL DEF Spec

\* A network whose status says that a VNI is allocated holds that VNI in a ledger
\* (hybridnetwork_provision, hybridfabric_provision), but for the networks whose
\* entry a migration replaced or whose provision and teardown overlapped.
THEOREM StatusIsRecorded == Spec => []AllocatedIsRecorded
<1>1. IInv => AllocatedIsRecorded
    BY DEF IInv, Backed, Backs, AllocatedIsRecorded
<1> QED
    BY Inductive, <1>1, PTL

\* A network that is gone has given its numbers back (hybridnetwork_teardown), but
\* for the networks that NoOrphan excepts by name.
THEOREM NumbersGivenBack == Spec => []NoOrphan
<1>1. IInv => NoOrphan
    BY DEF IInv, Accounted, Clean, NoOrphan
<1> QED
    BY Inductive, <1>1, PTL

\* No step takes its last number from a network that a placement refers to, other
\* than a placement made after the teardown had counted (hybridnetwork_teardown:
\* "release VNI only when zero placements remain").
THEOREM PlacedKeepNumbers == Spec => ReleasedOnlyUnplaced
<1> DEFINE Kept ==
      \A n \in Nets :
         Holders(n) # {} /\ Holders(n)' = {} /\ n \notin hist'.crossed
           /\ (\A f \in Holders(n) : ledger'[f].exists)
         => n \notin placed \ hist.late
<1>1. IInv /\ TornDownUnplaced /\ [Next]_vars => [Kept]_vars
    <2> SUFFICES ASSUME IInv, TornDownUnplaced, [Next]_vars, NEW n \in Nets,
                        Holders(n) # {}, Holders(n)' = {}, n \notin hist'.crossed,
                        \A f \in Holders(n) : ledger'[f].exists
                 PROVE  n \notin placed \ hist.late
        OBVIOUS
    <2> USE DEF IInv
    <2>1. PICK f \in Fabrics : ledger[f].held[n] # NoVni /\ ledger'[f].exists
        BY DEF Holders
    <2>2. \A g \in Fabrics : ledger'[g].held[n] = NoVni
        BY DEF Holders
    <2>3. CASE AllocateVni
        <3>1. PICK v \in Choice(prov.net, prov.fabric, prov.prior) :
                 ledger' = [ledger EXCEPT ![prov.fabric].held[prov.net] = v]
            BY <2>3 DEF AllocateVni
        <3>2. prov.net \in Nets /\ prov.fabric \in Fabrics
            BY <2>3 DEF AllocateVni, TypeOK
        <3>3. v # NoVni
            BY <3>2, ChoiceType
        <3> QED
            BY <2>1, <2>2, <3>1, <3>2, <3>3 DEF TypeOK, Ledgers
    <2>4. CASE ReleaseVni
        <3>1. tear.net = n
            BY <2>1, <2>2, <2>4 DEF ReleaseVni, TypeOK, Ledgers
        <3> QED
            BY <2>4, <3>1 DEF ReleaseVni, TornDownUnplaced
    <2>5. CASE DeleteLedger
        BY <2>1, <2>2, <2>5 DEF DeleteLedger, EmptyLedger, TypeOK
    <2>6. CASE MigrateAdd
        <3>1. n \notin CrossedHere
            BY <2>6 DEF MigrateAdd, TypeOK, Histories
        <3>2. ledger[fprov.fabric].held[n] = IF n \in fprov.moves THEN NoVni ELSE fprov.mine[n]
            BY <2>6, <3>1 DEF CrossedHere, MigrateAdd
        <3>3. n \notin fprov.moves =>
                ledger'[fprov.fabric].held[n] = ledger[fprov.fabric].held[n]
            BY <2>6, <3>2 DEF MigrateAdd, Patched, TypeOK, Ledgers
        <3>4. CASE f = fprov.fabric
            BY <2>1, <2>2, <3>2, <3>3, <3>4
        <3>5. CASE f # fprov.fabric
            BY <2>1, <2>2, <2>6, <3>5 DEF MigrateAdd, Patched, TypeOK, Ledgers
        <3> QED
            BY <3>4, <3>5
    <2>7. ASSUME NEW g \in Fabrics, MigrateRemove(g) PROVE FALSE
        <3>1. n \notin CrossedHere /\ n \notin CrossedThere(g) /\ fprov.pc = "remove"
              /\ g \in DOMAIN fprov.keep
            BY <2>7 DEF MigrateRemove, TypeOK, Histories
        <3>2. ledger[g].held[n] = IF n \in fprov.moves THEN fprov.mine[n] ELSE fprov.keep[g][n]
            BY <3>1 DEF CrossedThere
        <3>3. ledger[fprov.fabric].held[n] = fprov.mine[n]
            BY <3>1 DEF CrossedHere
        <3>4. fprov.fabric \in Fabrics /\ fprov.fabric # g
            BY <3>1 DEF TypeOK, JobsKnow
        <3>5. n \in fprov.moves => fprov.mine[n] # NoVni
            BY <3>1 DEF JobsKnow
        <3>6. /\ ledger'[fprov.fabric] = ledger[fprov.fabric]
              /\ ledger'[g] = ledger[g] \/ ledger'[g].held = fprov.keep[g]
            BY <2>7, <3>4 DEF MigrateRemove, Patched, TypeOK, Ledgers
        <3>7. n \notin fprov.moves
            BY <2>2, <3>3, <3>4, <3>5, <3>6
        <3> QED
            BY <2>1, <2>2, <2>7, <3>2, <3>6, <3>7 DEF MigrateRemove, Patched, TypeOK
    <2> QED
        BY <2>1, <2>2, <2>3, <2>4, <2>5, <2>6, <2>7, OtherSteps DEF SameLedgers
<1>2. IInv /\ TornDownUnplaced /\ [Next]_vars => TornDownUnplaced'
    BY NextTornDownUnplaced
<1>3. Spec => []TornDownUnplaced
    BY InitIInv, Inductive, <1>2, PTL DEF Spec
<1> QED
    BY Inductive, <1>1, <1>3, PTL DEF Spec, ReleasedOnlyUnplaced

\* No two networks hold one number in a ledger, whatever migrations, allocations and
\* failures cross (ledger_migrate_legacy.yml writes whole maps from an older list).
THEOREM VnisStayUnique == Spec => []UniquePerLedger
<1>1. Init => UniquePerLedger /\ PlansDistinct
    BY DEF Init, UniquePerLedger, PlansDistinct, Distinct, EmptyLedger, IdleFabricProvision
<1> QED
    BY <1>1, NextUnique, TypeCorrect, PTL DEF Spec
=============================================================================
