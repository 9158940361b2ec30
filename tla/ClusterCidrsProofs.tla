-------------------------- MODULE ClusterCidrsProofs --------------------------
(***************************************************************************)
(* For every set of clusters, pools of any size, hub and users' networks,   *)
(* and any number of creations and failed reads: networks that passed their *)
(* check are disjoint unless one of the two could not see the other, and a  *)
(* recorded network moves only when what its job read overlaps it.          *)
(*                                                                          *)
(* Neither is inductive: a job writes what it planned from reads of earlier *)
(* steps.  JobsSee says what these reads are still worth: a peer's network  *)
(* is among those the job has listed unless the peer counts as unseen.      *)
(* JobsRecorded says that the record a job plans from is the one it         *)
(* replaces, since no other job writes it.                                  *)
(***************************************************************************)
EXTENDS ClusterCidrs, WellFoundedInduction, TLAPS

JobsSee ==
  \A c \in Clusters :
    /\ job[c].at \in {"hub", "listed"} /\ "hub" \notin job[c].unseen => job[c].hub = Hub
    /\ job[c].at = "listed" =>
         \A d \in Clusters \ {c} : d \notin job[c].unseen =>
           \A cidr \in Own(status[d].net) : cidr = {} \/ cidr \in job[c].peers

JobsRecorded == \A c \in Clusters : job[c].at # "idle" => job[c].recorded = status[c].net

IInv == TypeOK /\ PassedIsDisjoint /\ JobsSee /\ JobsRecorded

-----------------------------------------------------------------------------
(* The planner *)

\* A pool's first free block is one of its blocks.
LEMMA FirstBlock ==
    ASSUME NEW pool \in Seq((SUBSET Nat) \ {{}}), NEW S \in SUBSET (DOMAIN pool), S # {}
    PROVE  pool[Min(S)] \in SUBSET Nat
<1>1. S \subseteq Nat /\ DOMAIN pool \subseteq Nat
    OBVIOUS
<1>2. IsWellFoundedOn(OpToRel(<, Nat), Nat)
    BY NatLessThanWellFounded
<1>3. \E x \in S : \A y \in S : ~ (<<y, x>> \in OpToRel(<, Nat))
    BY <1>1, <1>2, WFMin
<1>4. PICK x \in S : \A y \in S : ~ (<<y, x>> \in OpToRel(<, Nat))
    BY <1>3
<1>5. \A y \in S : x =< y
    <2>1. SUFFICES ASSUME NEW y \in S, y < x PROVE FALSE
        BY <1>1
    <2>2. <<y, x>> \in Nat \X Nat /\ <<y, x>>[1] < <<y, x>>[2]
        BY <1>1, <2>1
    <2>3. <<y, x>> \in OpToRel(<, Nat)
        BY <2>2 DEF OpToRel
    <2> QED
        BY <1>4, <2>3
<1>6. Min(S) \in S
    BY <1>5 DEF Min
<1> QED
    BY <1>1, <1>6

\* A plan is a network, whatever the job has read.
LEMMA PlanType ==
    ASSUME NEW in, in.recorded \in Networks, in.spec \in Specs
    PROVE  Plan(in) \in Networks
<1>1. Allocate(in) \in Networks
    <2> DEFINE pods == Free(ClusterPool, in, {})
               pod == ClusterPool[Min(pods)]
               services == Free(ServicePool, in, pod)
    <2>1. pods \in SUBSET (DOMAIN ClusterPool) /\ services \in SUBSET (DOMAIN ServicePool)
        BY DEF Free
    <2> HIDE DEF pods, services
    <2>2. pods # {} => pod \in SUBSET Nat
        BY <2>1, FirstBlock, CidrsAssumption
    <2>3. services # {} => ServicePool[Min(services)] \in SUBSET Nat
        BY <2>1, FirstBlock, CidrsAssumption
    <2> HIDE DEF pod
    <2>4. Allocate(in) = IF pods = {} THEN NoNetwork
                         ELSE IF services = {} THEN NoNetwork
                         ELSE [pods |-> pod, services |-> ServicePool[Min(services)]]
        BY DEF Allocate, pods, pod, services
    <2> QED
        BY <2>2, <2>3, <2>4 DEF Networks, NoNetwork
<1>2. LegacyNetwork \in Networks /\ in.spec.explicit \in Networks
    BY CidrsAssumption DEF Specs
<1> QED
    BY <1>1, <1>2 DEF Plan

-----------------------------------------------------------------------------
(* The inductive invariant *)

LEMMA InitIInv == Init => IInv
<1> SUFFICES ASSUME Init PROVE IInv
    OBVIOUS
<1>1. NoNetwork \in Networks
    BY DEF NoNetwork, Networks
<1>2. TypeOK
    BY <1>1 DEF Init, TypeOK, NoSpec, Specs, Unrecorded, IdleJob, JobStates
<1>3. PassedIsDisjoint
    BY DEF Init, PassedIsDisjoint, Passed, Unrecorded
<1>4. JobsSee /\ JobsRecorded
    BY DEF Init, JobsSee, JobsRecorded, IdleJob
<1> QED
    BY <1>2, <1>3, <1>4 DEF IInv

\* A job stays well-formed as it reads the hub, lists its peers and is crossed.
LEMMA HubJob ==
    ASSUME NEW j \in JobStates
    PROVE  /\ Hub \in SUBSET SUBSET Nat => [j EXCEPT !.at = "hub", !.hub = Hub] \in JobStates
           /\ [j EXCEPT !.at = "hub", !.unseen = {"hub"}] \in JobStates
<1> DEFINE seen == SUBSET SUBSET Nat
           missable == SUBSET (Clusters \cup {"hub"})
<1>1. {"hub"} \in missable
    OBVIOUS
<1> HIDE DEF seen, missable
<1>2. JobStates = [at : {"idle", "started", "hub", "listed"}, spec : Specs,
                   recorded : Networks, hub : seen, peers : seen, unseen : missable]
    BY DEF JobStates, seen, missable
<1>3. Hub \in seen => [j EXCEPT !.at = "hub", !.hub = Hub] \in JobStates
    BY <1>2
<1>4. [j EXCEPT !.at = "hub", !.unseen = {"hub"}] \in JobStates
    BY <1>1, <1>2
<1> QED
    BY <1>3, <1>4 DEF seen

LEMMA ListedJob ==
    ASSUME NEW j \in JobStates, NEW listed \in SUBSET SUBSET Nat,
           NEW others \in SUBSET Clusters
    PROVE  /\ [j EXCEPT !.at = "listed", !.peers = listed] \in JobStates
           /\ [j EXCEPT !.at = "listed", !.unseen = @ \cup others] \in JobStates
<1> DEFINE seen == SUBSET SUBSET Nat
           missable == SUBSET (Clusters \cup {"hub"})
<1>1. j.unseen \cup others \in missable /\ listed \in seen
    BY DEF JobStates
<1> HIDE DEF seen, missable
<1>2. JobStates = [at : {"idle", "started", "hub", "listed"}, spec : Specs,
                   recorded : Networks, hub : seen, peers : seen, unseen : missable]
    BY DEF JobStates, seen, missable
<1>3. [j EXCEPT !.at = "listed", !.peers = listed] \in JobStates
    BY <1>1, <1>2
<1>4. [j EXCEPT !.at = "listed", !.unseen = @ \cup others] \in JobStates
    BY <1>1, <1>2
<1> QED
    BY <1>3, <1>4

LEMMA UnseenJob ==
    ASSUME NEW j \in JobStates, NEW c \in Clusters
    PROVE  [j EXCEPT !.unseen = @ \cup {c}] \in JobStates
<1> DEFINE missable == SUBSET (Clusters \cup {"hub"})
           seen == SUBSET SUBSET Nat
<1>1. j.unseen \cup {c} \in missable
    BY DEF JobStates
<1> HIDE DEF seen, missable
<1>2. JobStates = [at : {"idle", "started", "hub", "listed"}, spec : Specs,
                   recorded : Networks, hub : seen, peers : seen, unseen : missable]
    BY DEF JobStates, seen, missable
<1> QED
    BY <1>1, <1>2

LEMMA NextTypeOK == TypeOK /\ [Next]_vars => TypeOK'
<1> SUFFICES ASSUME TypeOK, [Next]_vars PROVE TypeOK'
    OBVIOUS
<1> USE DEF TypeOK
<1>1. NoNetwork \in Networks /\ NoSpec \in Specs /\ IdleJob \in JobStates
      /\ Unrecorded.net \in Networks
    BY DEF NoNetwork, Networks, NoSpec, Specs, Unrecorded, IdleJob, JobStates
<1>2. ASSUME NEW c \in Clusters, Create(c) PROVE TypeOK'
    BY <1>1, <1>2, CidrsAssumption DEF Create, Specs
<1>3. ASSUME NEW c \in Clusters, Delete(c) PROVE TypeOK'
    BY <1>1, <1>3 DEF Delete, Unrecorded
<1>4. ASSUME NEW c \in Clusters, Start(c) PROVE TypeOK'
    <2>1. [IdleJob EXCEPT !.at = "started", !.spec = cr[c], !.recorded = status[c].net]
            \in JobStates
        BY <1>1 DEF JobStates
    <2> QED
        BY <1>4, <2>1 DEF Start
<1>5. ASSUME NEW c \in Clusters, ReadHub(c) PROVE TypeOK'
    <2>1. \E j \in JobStates : job' = [job EXCEPT ![c] = j]
        <3>1. [job[c] EXCEPT !.at = "hub", !.hub = Hub] \in JobStates
            BY HubJob, CidrsAssumption
        <3>2. [job[c] EXCEPT !.at = "hub", !.unseen = {"hub"}] \in JobStates
            BY HubJob
        <3> QED
            BY <1>5, <3>1, <3>2 DEF ReadHub
    <2> QED
        BY <1>5, <2>1 DEF ReadHub
<1>6. ASSUME NEW c \in Clusters, ListPeers(c) PROVE TypeOK'
    <2> DEFINE others == Clusters \ {c}
               listed == UNION {Own(status[d].net) : d \in others}
    <2>1. \A d \in Clusters : Own(status[d].net) \in SUBSET SUBSET Nat
        BY DEF Own, Networks
    <2>2. listed \in SUBSET SUBSET Nat
        BY <2>1
    <2> HIDE DEF listed
    <2>3. \E j \in JobStates : job' = [job EXCEPT ![c] = j]
        <3>1. [job[c] EXCEPT !.at = "listed", !.peers = listed] \in JobStates
            BY <2>2, ListedJob
        <3>2. [job[c] EXCEPT !.at = "listed", !.unseen = @ \cup others] \in JobStates
            BY ListedJob
        <3> QED
            BY <1>6, <3>1, <3>2 DEF ListPeers, listed
    <2> QED
        BY <1>6, <2>3 DEF ListPeers
<1>7. ASSUME NEW c \in Clusters, Record(c) PROVE TypeOK'
    <2>1. Plan(job[c]) \in Networks
        BY PlanType DEF JobStates
    <2>2. status' \in [Clusters -> [net : Networks, check : {"none", "passed", "failed"}]]
        BY <1>7, <2>1 DEF Record
    <2>3. missed' \in [Clusters -> SUBSET (Clusters \cup {"hub"})]
        BY <1>7 DEF Record, JobStates
    <2>4. \A d \in Clusters : [job[d] EXCEPT !.unseen = @ \cup {c}] \in JobStates
        BY UnseenJob
    <2>5. job' \in [Clusters -> JobStates]
        BY <1>1, <1>7, <2>4 DEF Record
    <2> QED
        BY <1>7, <2>2, <2>3, <2>5 DEF Record
<1>8. ASSUME NEW c \in Clusters, GiveUp(c) PROVE TypeOK'
    BY <1>1, <1>8 DEF GiveUp
<1>9. CASE UNCHANGED vars
    BY <1>9 DEF vars
<1> QED
    BY <1>2, <1>3, <1>4, <1>5, <1>6, <1>7, <1>8, <1>9 DEF Next

\* Only a cluster's own job writes its record, and then it is over.
LEMMA NextJobsRecorded == TypeOK /\ JobsRecorded /\ [Next]_vars => JobsRecorded'
<1> SUFFICES ASSUME TypeOK, JobsRecorded, [Next]_vars PROVE JobsRecorded'
    OBVIOUS
<1> USE DEF TypeOK, JobStates, JobsRecorded
<1>1. ASSUME NEW c \in Clusters, Create(c) PROVE JobsRecorded'
    BY <1>1 DEF Create
<1>2. ASSUME NEW c \in Clusters, Delete(c) PROVE JobsRecorded'
    BY <1>2 DEF Delete, IdleJob
<1>3. ASSUME NEW c \in Clusters, Start(c) PROVE JobsRecorded'
    BY <1>3 DEF Start
<1>4. ASSUME NEW c \in Clusters, ReadHub(c) PROVE JobsRecorded'
    <2>1. CASE job' = [job EXCEPT ![c].at = "hub", ![c].hub = Hub]
        BY <1>4, <2>1 DEF ReadHub
    <2>2. CASE job' = [job EXCEPT ![c].at = "hub", ![c].unseen = {"hub"}]
        BY <1>4, <2>2 DEF ReadHub
    <2> QED
        BY <1>4, <2>1, <2>2 DEF ReadHub
<1>5. ASSUME NEW c \in Clusters, ListPeers(c) PROVE JobsRecorded'
    <2> DEFINE others == Clusters \ {c}
    <2>1. CASE job' = [job EXCEPT ![c].at = "listed",
                                  ![c].peers = UNION {Own(status[d].net) : d \in others}]
        BY <1>5, <2>1 DEF ListPeers
    <2>2. CASE job' = [job EXCEPT ![c].at = "listed", ![c].unseen = @ \cup others]
        BY <1>5, <2>2 DEF ListPeers
    <2> QED
        BY <1>5, <2>1, <2>2 DEF ListPeers
<1>6. ASSUME NEW c \in Clusters, Record(c) PROVE JobsRecorded'
    BY <1>6 DEF Record, IdleJob
<1>7. ASSUME NEW c \in Clusters, GiveUp(c) PROVE JobsRecorded'
    BY <1>7 DEF GiveUp, IdleJob
<1>8. CASE UNCHANGED vars
    BY <1>8 DEF vars
<1> QED
    BY <1>1, <1>2, <1>3, <1>4, <1>5, <1>6, <1>7, <1>8 DEF Next

\* A peer whose network is written after the list becomes unseen; one that is
\* deleted has no addresses.
LEMMA NextJobsSee == TypeOK /\ JobsSee /\ [Next]_vars => JobsSee'
<1> SUFFICES ASSUME TypeOK, JobsSee, [Next]_vars PROVE JobsSee'
    OBVIOUS
<1> USE DEF TypeOK, JobStates, JobsSee
<1>1. ASSUME NEW c \in Clusters, Create(c) PROVE JobsSee'
    BY <1>1 DEF Create
<1>2. ASSUME NEW c \in Clusters, Delete(c) PROVE JobsSee'
    BY <1>2 DEF Delete, IdleJob, Unrecorded, NoNetwork, Own
<1>3. ASSUME NEW c \in Clusters, Start(c) PROVE JobsSee'
    BY <1>3 DEF Start, IdleJob
<1>4. ASSUME NEW c \in Clusters, ReadHub(c) PROVE JobsSee'
    <2>1. CASE job' = [job EXCEPT ![c].at = "hub", ![c].hub = Hub]
        BY <1>4, <2>1 DEF ReadHub
    <2>2. CASE job' = [job EXCEPT ![c].at = "hub", ![c].unseen = {"hub"}]
        BY <1>4, <2>2 DEF ReadHub
    <2> QED
        BY <1>4, <2>1, <2>2 DEF ReadHub
<1>5. ASSUME NEW c \in Clusters, ListPeers(c) PROVE JobsSee'
    <2> DEFINE others == Clusters \ {c}
    <2>1. CASE job' = [job EXCEPT ![c].at = "listed",
                                  ![c].peers = UNION {Own(status[d].net) : d \in others}]
        BY <1>5, <2>1 DEF ListPeers
    <2>2. CASE job' = [job EXCEPT ![c].at = "listed", ![c].unseen = @ \cup others]
        BY <1>5, <2>2 DEF ListPeers
    <2> QED
        BY <1>5, <2>1, <2>2 DEF ListPeers
<1>6. ASSUME NEW c \in Clusters, Record(c) PROVE JobsSee'
    BY <1>6, CidrsAssumption DEF Record, IdleJob
<1>7. ASSUME NEW c \in Clusters, GiveUp(c) PROVE JobsSee'
    BY <1>7 DEF GiveUp, IdleJob
<1>8. CASE UNCHANGED vars
    BY <1>8 DEF vars
<1> QED
    BY <1>1, <1>2, <1>3, <1>4, <1>5, <1>6, <1>7, <1>8 DEF Next

\* A network that passes its check overlaps nothing its job has seen.
LEMMA PassedSees ==
    ASSUME TypeOK, JobsSee, NEW c \in Clusters, Record(c), status'[c].check = "passed"
    PROVE  LET net == status'[c].net IN
           /\ ~Overlaps(net.pods, net.services)
           /\ \A cidr \in Own(net) : \A x \in Reserved : ~Overlaps(cidr, x)
           /\ "hub" \notin job[c].unseen =>
                \A cidr \in Own(net) : \A x \in Hub : ~Overlaps(cidr, x)
           /\ \A d \in Clusters \ {c} : d \notin job[c].unseen =>
                \A a \in Own(net), b \in Own(status[d].net) : ~Overlaps(a, b)
<1> DEFINE net == status'[c].net
<1>1. net = Plan(job[c]) /\ ~Conflicts(net, job[c])
    BY DEF Record, TypeOK
<1> HIDE DEF net
<1>2. ~Overlaps(net.pods, net.services)
    BY <1>1 DEF Conflicts
<1>3. \A cidr \in Own(net) : \A x \in Reserved \cup job[c].hub \cup job[c].peers :
          ~Overlaps(cidr, x)
    BY <1>1 DEF Conflicts, Clashes
<1>4. "hub" \notin job[c].unseen => job[c].hub = Hub
    BY DEF Record, JobsSee
<1>5. ASSUME NEW d \in Clusters \ {c}, d \notin job[c].unseen,
             NEW a \in Own(net), NEW b \in Own(status[d].net)
      PROVE  ~Overlaps(a, b)
    <2>1. b = {} \/ b \in job[c].peers
        BY <1>5 DEF Record, JobsSee
    <2> QED
        BY <1>3, <2>1 DEF Overlaps
<1> QED
    BY <1>2, <1>3, <1>4, <1>5 DEF net

LEMMA NextDisjoint == TypeOK /\ JobsSee /\ PassedIsDisjoint /\ [Next]_vars => PassedIsDisjoint'
<1> SUFFICES ASSUME TypeOK, JobsSee, PassedIsDisjoint, [Next]_vars PROVE PassedIsDisjoint'
    OBVIOUS
<1>1. ASSUME NEW c \in Clusters, Create(c) \/ Start(c) \/ ReadHub(c) \/ ListPeers(c) \/ GiveUp(c)
      PROVE  PassedIsDisjoint'
    <2>1. UNCHANGED <<status, missed>>
        BY <1>1 DEF Create, Start, ReadHub, ListPeers, GiveUp
    <2> QED
        BY <2>1 DEF PassedIsDisjoint, Passed
<1>2. ASSUME NEW c \in Clusters, Delete(c) PROVE PassedIsDisjoint'
    <2>1. \A d \in Clusters \ {c} : status'[d] = status[d] /\ missed'[d] = missed[d]
        BY <1>2 DEF Delete, TypeOK
    <2>2. ~Passed(c)'
        BY <1>2 DEF Delete, TypeOK, Passed, Unrecorded
    <2> QED
        BY <2>1, <2>2 DEF PassedIsDisjoint, Passed
<1>3. ASSUME NEW c \in Clusters, Record(c) PROVE PassedIsDisjoint'
    <2>1. /\ \A d \in Clusters \ {c} : status'[d] = status[d] /\ missed'[d] = missed[d]
          /\ missed'[c] = job[c].unseen
        BY <1>3 DEF Record, TypeOK
    <2> SUFFICES ASSUME NEW x \in Clusters, Passed(x)'
                 PROVE  LET net == status'[x].net IN
                   /\ ~Overlaps(net.pods, net.services)
                   /\ \A cidr \in Own(net) : \A r \in Reserved : ~Overlaps(cidr, r)
                   /\ "hub" \notin missed'[x] =>
                        \A cidr \in Own(net) : \A h \in Hub : ~Overlaps(cidr, h)
                   /\ \A d \in Clusters \ {x} :
                        Passed(d)' /\ (\E a \in Own(net), b \in Own(status'[d].net) : Overlaps(a, b))
                          => d \in missed'[x] \/ x \in missed'[d]
        BY DEF PassedIsDisjoint, Own, Overlaps
    <2>2. CASE x = c
        BY <1>3, <2>1, <2>2, PassedSees DEF Passed
    <2>3. CASE x # c
        <3>1. ASSUME Passed(c)', NEW a \in Own(status'[x].net), NEW b \in Own(status'[c].net),
                     Overlaps(a, b)
              PROVE  x \in missed'[c]
            <4>1. Overlaps(b, a) /\ a \in Own(status[x].net)
                BY <2>1, <2>3, <3>1 DEF Overlaps
            <4> QED
                BY <1>3, <2>1, <2>3, <3>1, <4>1, PassedSees DEF Passed
        <3>2. Passed(x) /\ status'[x] = status[x] /\ missed'[x] = missed[x]
            BY <2>1, <2>3 DEF Passed
        <3> QED
            BY <2>1, <2>3, <3>1, <3>2 DEF PassedIsDisjoint, Passed
    <2> QED
        BY <2>2, <2>3
<1>4. CASE UNCHANGED vars
    BY <1>4 DEF vars, PassedIsDisjoint, Passed
<1> QED
    BY <1>1, <1>2, <1>3, <1>4 DEF Next

LEMMA Inductive == Spec => []IInv
<1>1. IInv /\ [Next]_vars => IInv'
    BY NextTypeOK, NextDisjoint, NextJobsSee, NextJobsRecorded DEF IInv
<1> QED
    BY InitIInv, <1>1, PTL DEF Spec

-----------------------------------------------------------------------------
(* The theorems *)

\* What is recorded, read and planned keeps its shape: a plan is always a pair
\* of CIDRs, or none, for pools of any size.
THEOREM TypeCorrect == Spec => []TypeOK
<1>1. IInv => TypeOK
    BY DEF IInv
<1> QED
    BY Inductive, <1>1, PTL

\* Two networks that passed their check overlap only when the job of one could
\* not see the other, nor do they overlap the hub or what OVN-Kubernetes keeps.
THEOREM PassedNetworksDisjoint == Spec => []PassedIsDisjoint
<1>1. IInv => PassedIsDisjoint
    BY DEF IInv
<1> QED
    BY Inductive, <1>1, PTL

\* A cluster that is there keeps its recorded network unless what its job read
\* overlaps it: no job's plan replaces a record it has not read.
THEOREM RecordsMoveOnlyOnClash == Spec => MovesOnlyOnClash
<1> DEFINE Moves ==
      \A c \in Clusters :
        IsNetwork(status[c].net) /\ cr'[c].there /\ status'[c].net # status[c].net
        => \E cidr \in Own(status[c].net) : Clashes(cidr, job[c])
<1>1. ASSUME IInv, [Next]_vars PROVE [Moves]_vars
    <2> USE <1>1 DEF IInv, TypeOK
    <2>1. ASSUME NEW c \in Clusters,
                 Create(c) \/ Start(c) \/ ReadHub(c) \/ ListPeers(c) \/ GiveUp(c)
          PROVE  Moves
        BY <2>1 DEF Create, Start, ReadHub, ListPeers, GiveUp
    <2>2. ASSUME NEW c \in Clusters, Delete(c) PROVE Moves
        BY <2>2 DEF Delete, NoSpec
    <2>3. ASSUME NEW c \in Clusters, Record(c) PROVE Moves
        <3>1. job[c].recorded = status[c].net
            BY <2>3 DEF Record, JobsRecorded
        <3>2. status'[c].net = Plan(job[c])
              /\ \A d \in Clusters \ {c} : status'[d] = status[d]
            BY <2>3 DEF Record
        <3>3. IsNetwork(status[c].net) /\ Plan(job[c]) # status[c].net =>
                \E cidr \in Own(status[c].net) : Clashes(cidr, job[c])
            BY <3>1 DEF Plan
        <3> QED
            BY <3>2, <3>3
    <2> QED
        BY <2>1, <2>2, <2>3 DEF Next
<1>2. Spec => [][Moves]_vars
    BY Inductive, <1>1, PTL DEF Spec
<1> QED
    BY <1>2 DEF MovesOnlyOnClash
=============================================================================
