----------------------------- MODULE ClusterCidrs -----------------------------
(***************************************************************************)
(* The pod and service CIDRs of the clusters: the planner                   *)
(* (fabric_cluster_ipam.py) and the playbook that runs it for one           *)
(* PlatformOpenshift while others run it for theirs                         *)
(* (platformopenshift_fabric_ipam.yml).  A CIDR is the set of its           *)
(* addresses; a network has a CIDR for the pods and one for the services.   *)
(***************************************************************************)
EXTENDS Integers, FiniteSets, SequencesExt

CONSTANTS
  Clusters,         \* the names a PlatformOpenshift may have
  ClusterPool,      \* the blocks of clusterNetworkPool in their order
  ServicePool,      \* those of serviceNetworkPool
  Reserved,         \* OVN_RESERVED
  Hub,              \* the hub's own CIDRs
  Explicit,         \* the networks a user may write into spec.networking
  LegacyNetwork,    \* HyperShift's defaults
  MaxCreated,       \* bound on the clusters created
  MaxFailedReads    \* bound on the reads that fail

NoNetwork == [pods |-> {}, services |-> {}]

IsNetwork(n) == n.pods # {} /\ n.services # {} /\ n # NoNetwork

Networks == [pods : SUBSET Nat, services : SUBSET Nat]

ASSUME CidrsAssumption ==
  /\ ClusterPool \in Seq((SUBSET Nat) \ {{}}) /\ ServicePool \in Seq((SUBSET Nat) \ {{}})
  /\ Reserved \subseteq SUBSET Nat /\ Hub \subseteq SUBSET Nat
  /\ \A n \in Explicit \cup {LegacyNetwork} : n \in Networks /\ IsNetwork(n)
  /\ "hub" \notin Clusters
  /\ MaxCreated \in Nat /\ MaxFailedReads \in Nat

VARIABLES
  cr,         \* spec.networking of each cluster, and whether it is there
  status,     \* status.networking of each cluster
  job,        \* the provision job of each cluster and what it has read
  missed,     \* what the job that wrote a status had not seen: the peers written since
              \* it listed them, those a failed list hid, and the hub
  created,    \* clusters created so far
  failedReads \* reads that failed so far

vars == <<cr, status, job, missed, created, failedReads>>

NoSpec == [there |-> FALSE, explicit |-> NoNetwork, allocate |-> TRUE]
Unrecorded == [net |-> NoNetwork, check |-> "none"]
IdleJob == [at |-> "idle", spec |-> NoSpec, recorded |-> NoNetwork,
            hub |-> {}, peers |-> {}, unseen |-> {}]

Init ==
  /\ cr = [c \in Clusters |-> NoSpec]
  /\ status = [c \in Clusters |-> Unrecorded]
  /\ job = [c \in Clusters |-> IdleJob]
  /\ missed = [c \in Clusters |-> {}]
  /\ created = 0 /\ failedReads = 0

-----------------------------------------------------------------------------
(* The planner: what it reads is the network recorded, the spec, the CIDRs of *)
(* the peers and those of the hub. *)

Overlaps(a, b) == a \cap b # {}

\* Both CIDRs of a network.
Own(net) == {net.pods, net.services}

\* Mutant: peers may overlap, as with po_deny_peer_cidr_overlap false.
ClashesPeersAllowed(cidr, in) == \E x \in Reserved \cup in.hub : Overlaps(cidr, x)

\* The hub and the peers count as well as what OVN-Kubernetes keeps for itself.
Clashes(cidr, in) == \E x \in Reserved \cup in.hub \cup in.peers : Overlaps(cidr, x)

\* The blocks of a pool that clash with nothing and overlap nothing taken.
Free(pool, in, taken) ==
  {i \in DOMAIN pool : ~Clashes(pool[i], in) /\ ~Overlaps(pool[i], taken)}

\* The first free block of either pool; no network when one of them has none.
Allocate(in) ==
  LET pods == Free(ClusterPool, in, {})
      pod == ClusterPool[Min(pods)]
      services == Free(ServicePool, in, pod)
  IN IF pods = {} THEN NoNetwork
     ELSE IF services = {} THEN NoNetwork
     ELSE [pods |-> pod, services |-> ServicePool[Min(services)]]

\* Mutant: whatever is recorded is allocated again.
PlanAnew(in) == Allocate(in)

\* A record that clashes with nothing stays, one that clashes is superseded; without
\* a record the spec decides.
Plan(in) ==
  IF IsNetwork(in.recorded)
  THEN IF \A cidr \in Own(in.recorded) : ~Clashes(cidr, in) THEN in.recorded ELSE Allocate(in)
  ELSE IF IsNetwork(in.spec.explicit) THEN in.spec.explicit
  ELSE IF in.spec.allocate THEN Allocate(in)
  ELSE LegacyNetwork

Conflicts(net, in) ==
  \/ Overlaps(net.pods, net.services)
  \/ \E cidr \in Own(net) : Clashes(cidr, in)

-----------------------------------------------------------------------------
(* The clusters and their jobs *)

\* A user creates a cluster, with CIDRs of its own or without, or deletes one.
Create(c) ==
  /\ created < MaxCreated
  /\ ~cr[c].there
  /\ \E net \in Explicit \cup {NoNetwork}, allocate \in BOOLEAN :
       cr' = [cr EXCEPT ![c] = [there |-> TRUE, explicit |-> net, allocate |-> allocate]]
  /\ created' = created + 1
  /\ UNCHANGED <<status, job, missed, failedReads>>

Delete(c) ==
  /\ cr[c].there
  /\ cr' = [cr EXCEPT ![c] = NoSpec]
  /\ status' = [status EXCEPT ![c] = Unrecorded]
  /\ job' = [job EXCEPT ![c] = IdleJob]
  /\ missed' = [missed EXCEPT ![c] = {}]
  /\ UNCHANGED <<created, failedReads>>

\* A job reads its own PlatformOpenshift.
Start(c) ==
  /\ cr[c].there
  /\ job[c].at = "idle"
  /\ job' = [job EXCEPT ![c] = [IdleJob EXCEPT !.at = "started", !.spec = cr[c],
                                              !.recorded = status[c].net]]
  /\ UNCHANGED <<cr, status, missed, created, failedReads>>

\* It reads the network of the hub; a read that fails counts as an empty one.
ReadHub(c) ==
  /\ job[c].at = "started"
  /\ \/ /\ job' = [job EXCEPT ![c].at = "hub", ![c].hub = Hub]
        /\ UNCHANGED failedReads
     \/ /\ failedReads < MaxFailedReads
        /\ failedReads' = failedReads + 1
        /\ job' = [job EXCEPT ![c].at = "hub", ![c].unseen = {"hub"}]
  /\ UNCHANGED <<cr, status, missed, created>>

\* It lists the other clusters; a list that fails counts as an empty one too.
ListPeers(c) ==
  LET others == Clusters \ {c}
  IN /\ job[c].at = "hub"
     /\ \/ /\ job' = [job EXCEPT ![c].at = "listed",
                                 ![c].peers = UNION {Own(status[d].net) : d \in others}]
           /\ UNCHANGED failedReads
        \/ /\ failedReads < MaxFailedReads
           /\ failedReads' = failedReads + 1
           /\ job' = [job EXCEPT ![c].at = "listed", ![c].unseen = @ \cup others]
     /\ UNCHANGED <<cr, status, missed, created>>

\* The plan is recorded before a conflict fails the job.
Record(c) ==
  LET net == Plan(job[c])
  IN /\ job[c].at = "listed"
     /\ net # NoNetwork
     /\ status' = [status EXCEPT ![c] =
          [net |-> net, check |-> IF Conflicts(net, job[c]) THEN "failed" ELSE "passed"]]
     /\ missed' = [missed EXCEPT ![c] = job[c].unseen]
     /\ job' = [d \in Clusters |->
          IF d = c THEN IdleJob
          ELSE IF job[d].at = "listed" THEN [job[d] EXCEPT !.unseen = @ \cup {c}]
          ELSE job[d]]
     /\ UNCHANGED <<cr, created, failedReads>>

\* Without a free block the planner gives up and nothing is recorded.
GiveUp(c) ==
  /\ job[c].at = "listed"
  /\ Plan(job[c]) = NoNetwork
  /\ job' = [job EXCEPT ![c] = IdleJob]
  /\ UNCHANGED <<cr, status, missed, created, failedReads>>

Next == \E c \in Clusters :
  Create(c) \/ Delete(c) \/ Start(c) \/ ReadHub(c) \/ ListPeers(c) \/ Record(c) \/ GiveUp(c)

Spec == Init /\ [][Next]_vars

-----------------------------------------------------------------------------
(* Properties *)

Specs == [there : BOOLEAN, explicit : Networks, allocate : BOOLEAN]

JobStates ==
  [at : {"idle", "started", "hub", "listed"}, spec : Specs, recorded : Networks,
   hub : SUBSET SUBSET Nat, peers : SUBSET SUBSET Nat, unseen : SUBSET (Clusters \cup {"hub"})]

TypeOK ==
  /\ cr \in [Clusters -> Specs]
  /\ status \in [Clusters -> [net : Networks, check : {"none", "passed", "failed"}]]
  /\ job \in [Clusters -> JobStates]
  /\ missed \in [Clusters -> SUBSET (Clusters \cup {"hub"})]

Passed(c) == status[c].check = "passed"

\* The CIDRs of a cluster whose check passed overlap neither each other nor what
\* OVN-Kubernetes reserves; they overlap the hub, or another cluster that passed,
\* only when one of the two did not see the other: their jobs crossed, or a read
\* failed and was taken for an empty one (clashes of fabric_cluster_ipam.py).
PassedIsDisjoint ==
  \A c \in Clusters : Passed(c) =>
    LET net == status[c].net
    IN /\ ~Overlaps(net.pods, net.services)
       /\ \A cidr \in Own(net) : \A x \in Reserved : ~Overlaps(cidr, x)
       /\ "hub" \notin missed[c] => \A cidr \in Own(net) : \A x \in Hub : ~Overlaps(cidr, x)
       /\ \A d \in Clusters \ {c} :
            /\ Passed(d)
            /\ \E a \in Own(net), b \in Own(status[d].net) : Overlaps(a, b)
            => d \in missed[c] \/ c \in missed[d]

\* A cluster that is there keeps the network recorded for it as long as what its
\* job read does not overlap it, whatever is written into its spec: the rule of
\* "recorded" (fabric_cluster_ipam.py).
MovesOnlyOnClash ==
  [][\A c \in Clusters :
       IsNetwork(status[c].net) /\ cr'[c].there /\ status'[c].net # status[c].net
       => \E cidr \in Own(status[c].net) : Clashes(cidr, job[c])]_vars

\* "recorded status.networking (kept as-is)" (docs/concepts/fabric-design.md): a
\* network once recorded does not change while the cluster is there.
KeptAsIs ==
  [][\A c \in Clusters :
       IsNetwork(status[c].net) /\ cr'[c].there => status'[c].net = status[c].net]_vars
===============================================================================
