--------------------------- MODULE WireGuardProofs ---------------------------
(***************************************************************************)
(* For every finite set of gateways and of addresses, every set of jobs    *)
(* and every number of attempts: the ledger of tunnel addresses is         *)
(* well-typed, no two gateways hold one address and none the border        *)
(* gateway's, an entry goes only where a job's list or a release says, and *)
(* an allocate that ends well has served every gateway of its list.        *)
(*                                                                         *)
(* LedgerDistinct is not inductive: a PUT writes what was planned from a   *)
(* copy read at an earlier step.  PlanIsFresh makes that harmless: a job   *)
(* whose PUT can still succeed has planned from the ledger as it is.       *)
(***************************************************************************)
EXTENDS WireGuardLedger, FiniteSetTheorems, TLAPS

PlanIsFresh == \A j \in current : job[j].pc = "put" /\ job[j].new = New(j)

IInv == TypeOK /\ LedgerDistinct /\ PlanIsFresh

-----------------------------------------------------------------------------
(* What a plan allocates *)

\* The rank of an element grows with the element.
LEMMA RankGrows ==
    ASSUME NEW S \in SUBSET Nat, IsFiniteSet(S), NEW x \in S, NEW y \in S, x < y
    PROVE  Rank(x, S) # Rank(y, S)
<1> DEFINE Below == {z \in S : z <= x}
<1> DEFINE Upto == {z \in S : z <= y}
<1>1. IsFiniteSet(Upto)
    BY FS_Subset
<1>2. Below \in SUBSET Upto
    <2>1. ASSUME NEW z \in S, z <= x PROVE z <= y
        <3>1. x \in Nat /\ y \in Nat /\ z \in Nat
            OBVIOUS
        <3> QED BY <2>1, <3>1
    <2> QED BY <2>1
<1>3. y \in Upto /\ y \notin Below
    OBVIOUS
<1>4. Cardinality(Upto) = Cardinality(Below) => Upto = Below
    <2> HIDE DEF Upto, Below
    <2> QED BY <1>1, <1>2, FS_Subset
<1> QED
    BY <1>3, <1>4 DEF Rank

\* The rank of an element of a finite set is a place in it.
LEMMA RankInRange ==
    ASSUME NEW S \in SUBSET Nat, IsFiniteSet(S), NEW x \in S
    PROVE  Rank(x, S) \in 1 .. Cardinality(S)
<1> DEFINE Below == {y \in S : y <= x}
<1>1. IsFiniteSet(Below) /\ Cardinality(Below) <= Cardinality(S)
    <2>1. Below \in SUBSET S
        OBVIOUS
    <2> QED BY <2>1, FS_Subset
<1>2. Cardinality(Below) \in Nat /\ Cardinality(S) \in Nat
    BY <1>1, FS_CardinalityType
<1>3. Cardinality(Below) # 0
    <2>1. x \in Below
        OBVIOUS
    <2> QED BY <1>1, <2>1, FS_EmptySet
<1>4. Rank(x, S) = Cardinality(Below)
    BY DEF Rank
<1> HIDE DEF Below
<1> QED
    BY <1>1, <1>2, <1>3, <1>4

\* Every place is taken.
LEMMA RankOnto ==
    ASSUME NEW S \in SUBSET Nat, IsFiniteSet(S), NEW r \in 1 .. Cardinality(S)
    PROVE  \E x \in S : Rank(x, S) = r
<1> DEFINE rank == [x \in S |-> Rank(x, S)]
<1> DEFINE Places == 1 .. Cardinality(S)
<1>1. Cardinality(S) \in Nat
    BY FS_CardinalityType
<1>2. IsFiniteSet(Places) /\ Cardinality(Places) = Cardinality(S)
    BY <1>1, FS_Interval
<1>3. rank \in [S -> Places]
    BY RankInRange
<1>4. ASSUME NEW x \in S, NEW y \in S, x # y PROVE rank[x] # rank[y]
    <2>1. x < y \/ y < x
        BY <1>4
    <2> QED BY <2>1, RankGrows
<1>5. rank \in Injection(S, Places)
    BY <1>3, <1>4, Zenon DEF Injection, IsInjective
<1>6. rank \in Surjection(S, Places)
    <2> HIDE DEF rank, Places
    <2> QED BY <1>2, <1>5, FS_Injection
<1>7. \A t \in Places : \E x \in S : rank[x] = t
    BY <1>6, Zenon DEF Surjection
<1> QED
    BY <1>7

\* An address handed out is an unused one, and its place among these is that
\* of the gateway among those that want one.
LEMMA HandedOut ==
    ASSUME NEW led \in Ledgers, NEW list \in [Gateways -> GatewayStates],
           NEW g \in Wanting(led, list), Allocated(led, list)[g] # None
    PROVE  /\ Allocated(led, list)[g] \in Unused(led, list)
           /\ Rank(Allocated(led, list)[g], Unused(led, list)) = Rank(g, Wanting(led, list))
<1>1. g \in Gateways
    BY DEF Wanting
<1>2. NextHosts(g, led, list) # {}
    BY <1>1 DEF Allocated
<1>3. Allocated(led, list)[g] = CHOOSE x \in NextHosts(g, led, list) : TRUE
    BY <1>1, <1>2 DEF Allocated
<1>4. Allocated(led, list)[g] \in NextHosts(g, led, list)
    BY <1>2, <1>3
<1> QED
    BY <1>4 DEF NextHosts

\* What a gateway that wants no entry has in the plan is what it had, or none.
LEMMA NotHandedOut ==
    ASSUME NEW led \in Ledgers, NEW list \in [Gateways -> GatewayStates],
           NEW g \in Gateways \ Wanting(led, list)
    PROVE  /\ Allocated(led, list)[g] = Kept(led, list)[g]
           /\ Kept(led, list)[g] \in {None, led[g]}
BY DEF Allocated, Kept

\* A plan is a ledger.
LEMMA AllocatedType ==
    ASSUME NEW led \in Ledgers, NEW list \in [Gateways -> GatewayStates]
    PROVE  Allocated(led, list) \in Ledgers
<1>1. \A g \in Wanting(led, list) : Allocated(led, list)[g] \in Addresses
    BY HandedOut DEF Unused, Addresses
<1>2. \A g \in Gateways \ Wanting(led, list) : Allocated(led, list)[g] \in Addresses
    BY NotHandedOut DEF Addresses, Ledgers
<1>3. Allocated(led, list) = [g \in Gateways |-> Allocated(led, list)[g]]
    BY DEF Allocated
<1> QED
    BY <1>1, <1>2, <1>3 DEF Ledgers

\* Two gateways that want an address do not get the same one.
LEMMA HandedOutOnce ==
    ASSUME NEW led \in Ledgers, NEW list \in [Gateways -> GatewayStates],
           NEW g \in Wanting(led, list), NEW h \in Wanting(led, list), g # h,
           Allocated(led, list)[g] # None
    PROVE  Allocated(led, list)[h] # Allocated(led, list)[g]
<1>1. Wanting(led, list) \in SUBSET Nat /\ IsFiniteSet(Wanting(led, list))
    <2>1. Wanting(led, list) \in SUBSET Gateways
        BY DEF Wanting
    <2>2. IsFiniteSet(Wanting(led, list))
        BY <2>1, GatewaysAssumption, FS_Subset
    <2> QED
        BY <2>1, <2>2, GatewaysAssumption
<1>2. g < h \/ h < g
    BY <1>1
<1>3. Rank(g, Wanting(led, list)) # Rank(h, Wanting(led, list))
    BY <1>1, <1>2, RankGrows
<1>4. SUFFICES ASSUME Allocated(led, list)[h] = Allocated(led, list)[g]
               PROVE  FALSE
    OBVIOUS
<1> QED
    BY <1>3, <1>4, HandedOut

\* The plan of an allocate keeps addresses distinct.
LEMMA AllocatedDistinct ==
    ASSUME NEW led \in Ledgers, NEW list \in [Gateways -> GatewayStates], Distinct(led)
    PROVE  Distinct(Allocated(led, list))
<1> DEFINE new == Allocated(led, list)
<1>1. ASSUME NEW g \in Gateways, new[g] # None
      PROVE  new[g] \notin Reserved
    <2>1. CASE g \in Wanting(led, list)
        BY <1>1, <2>1, HandedOut DEF Unused
    <2>2. CASE g \notin Wanting(led, list)
        BY <1>1, <2>2, NotHandedOut DEF Distinct
    <2> QED
        BY <2>1, <2>2
<1>2. ASSUME NEW g \in Wanting(led, list), NEW h \in Gateways \ Wanting(led, list),
             new[g] # None
      PROVE  new[h] # new[g]
    <2>1. new[g] \in Unused(led, list)
        BY <1>2, HandedOut
    <2>2. new[h] = Kept(led, list)[h] /\ h \in Gateways
        BY NotHandedOut
    <2>3. Kept(led, list)[h] \notin Unused(led, list)
        BY <2>2 DEF Unused
    <2> QED
        BY <2>1, <2>2, <2>3
<1>3. ASSUME NEW g \in Gateways, new[g] # None, NEW h \in Gateways \ {g}
      PROVE  new[h] # new[g]
    <2>1. CASE g \in Wanting(led, list) /\ h \in Wanting(led, list)
        BY <1>3, <2>1, HandedOutOnce
    <2>2. CASE g \in Wanting(led, list) /\ h \notin Wanting(led, list)
        BY <1>2, <1>3, <2>2
    <2>3. CASE g \notin Wanting(led, list) /\ h \in Wanting(led, list)
        BY <1>2, <1>3, <2>3
    <2>4. CASE g \notin Wanting(led, list) /\ h \notin Wanting(led, list)
        BY <1>3, <2>4, NotHandedOut DEF Distinct
    <2> QED
        BY <2>1, <2>2, <2>3, <2>4
<1> QED
    BY <1>1, <1>3 DEF Distinct

\* So does a release.
LEMMA ReleasedDistinct ==
    ASSUME NEW led \in Ledgers, NEW g \in Gateways, Distinct(led)
    PROVE  Released(led, g) \in Ledgers /\ Distinct(Released(led, g))
BY DEF Released, Ledgers, Addresses, Distinct

\* Whatever a job plans from a ledger with distinct addresses.
LEMMA NewDistinct ==
    ASSUME TypeOK, LedgerDistinct, NEW j \in Jobs
    PROVE  New(j) \in Ledgers /\ Distinct(New(j))
<1>1. /\ ledger \in Ledgers /\ Distinct(ledger)
      /\ job[j].list \in [Gateways -> GatewayStates]
      /\ job[j].releases \in {None} \cup Gateways
    BY DEF TypeOK, JobStates, LedgerDistinct
<1>2. CASE job[j].releases = None
    BY <1>1, <1>2, AllocatedType, AllocatedDistinct DEF New
<1>3. CASE job[j].releases # None
    BY <1>1, <1>3, ReleasedDistinct DEF New
<1> QED
    BY <1>2, <1>3

\* A plan keeps the entry of every gateway its list has without an address.
LEMMA NewKeeps ==
    ASSUME TypeOK, NEW j \in Jobs, NEW g \in Gateways,
           ledger[g] # None, New(j)[g] # ledger[g]
    PROVE  \/ job[j].releases = g
           \/ /\ job[j].releases = None
              /\ ~job[j].list[g].there \/ job[j].list[g].address # None
<1>1. ledger \in Ledgers /\ job[j].list \in [Gateways -> GatewayStates]
      /\ job[j].releases \in {None} \cup Gateways
    BY DEF TypeOK, JobStates
<1>2. CASE job[j].releases = None
    <2>1. New(j) = Allocated(ledger, job[j].list)
        BY <1>2 DEF New
    <2>2. SUFFICES ASSUME job[j].list[g].there, job[j].list[g].address = None
                   PROVE  FALSE
        BY <1>2
    <2>3. Kept(ledger, job[j].list)[g] = ledger[g]
        BY <2>2 DEF Kept
    <2>4. g \notin Wanting(ledger, job[j].list)
        BY <2>3 DEF Wanting
    <2> QED
        BY <1>1, <2>1, <2>3, <2>4, NotHandedOut
<1>3. CASE job[j].releases # None
    BY <1>1, <1>3 DEF New, Released, Ledgers
<1> QED
    BY <1>2, <1>3

\* The unused addresses and the gateways that want one are finite sets of numbers.
LEMMA FiniteSides ==
    ASSUME NEW led, NEW list
    PROVE  /\ Unused(led, list) \in SUBSET Nat /\ IsFiniteSet(Unused(led, list))
           /\ Wanting(led, list) \in SUBSET Nat /\ IsFiniteSet(Wanting(led, list))
<1>1. Unused(led, list) \in SUBSET Hosts /\ Wanting(led, list) \in SUBSET Gateways
    BY DEF Unused, Wanting
<1> QED
    BY <1>1, GatewaysAssumption, AddressesAssumption, FS_Subset

\* A gateway that wants an address and gets none finds every unused one handed
\* out: there are fewer of them than gateways before it.
LEMMA NoneLeft ==
    ASSUME NEW led \in Ledgers, NEW list \in [Gateways -> GatewayStates],
           NEW g \in Wanting(led, list), Allocated(led, list)[g] = None,
           NEW x \in Unused(led, list)
    PROVE  \E h \in Gateways : Allocated(led, list)[h] = x
<1> DEFINE U == Unused(led, list)
<1> DEFINE W == Wanting(led, list)
<1>1. /\ U \in SUBSET Nat /\ IsFiniteSet(U) /\ W \in SUBSET Nat /\ IsFiniteSet(W)
      /\ g \in Gateways /\ g \in W /\ x \in U /\ W \subseteq Gateways
    BY FiniteSides DEF Wanting
<1>2. NextHosts(g, led, list) = {}
    <2>1. SUFFICES ASSUME NextHosts(g, led, list) # {} PROVE FALSE
        OBVIOUS
    <2>2. Allocated(led, list)[g] \in NextHosts(g, led, list)
        BY <1>1, <2>1 DEF Allocated
    <2> QED
        BY <2>2, AddressesAssumption DEF NextHosts, Unused
<1>3. \A y \in U : Rank(y, U) # Rank(g, W)
    BY <1>2 DEF NextHosts
<1> HIDE DEF U, W
<1>4. Rank(g, W) \in 1 .. Cardinality(W) /\ Rank(x, U) \in 1 .. Cardinality(U)
    BY <1>1, RankInRange
<1>5. Cardinality(W) \in Nat /\ Cardinality(U) \in Nat
    BY <1>1, FS_CardinalityType
<1>6. Rank(g, W) \notin 1 .. Cardinality(U)
    BY <1>1, <1>3, RankOnto
<1>7. Rank(x, U) \in 1 .. Cardinality(W)
    BY <1>4, <1>5, <1>6
<1>8. PICK h \in W : Rank(h, W) = Rank(x, U)
    BY <1>1, <1>7, RankOnto
<1>9. x \in NextHosts(h, led, list)
    BY <1>1, <1>8 DEF NextHosts, U, W
<1>10. Allocated(led, list)[h] \in NextHosts(h, led, list)
    BY <1>1, <1>9 DEF Allocated, W
<1>11. Allocated(led, list)[h] \in U /\ Rank(Allocated(led, list)[h], U) = Rank(x, U)
    BY <1>8, <1>10 DEF NextHosts, U, W
<1>12. Allocated(led, list)[h] = x
    <2>1. SUFFICES ASSUME Allocated(led, list)[h] # x PROVE FALSE
        OBVIOUS
    <2>2. Allocated(led, list)[h] < x \/ x < Allocated(led, list)[h]
        <3>1. Allocated(led, list)[h] \in Nat /\ x \in Nat
            BY <1>1, <1>11
        <3> QED
            BY <2>1, <3>1
    <2> QED
        BY <1>1, <1>11, <2>2, RankGrows
<1> QED
    BY <1>1, <1>12

\* A plan is in line with the list it was made from.
LEMMA AllocatedServes ==
    ASSUME NEW led \in Ledgers, NEW list \in [Gateways -> GatewayStates]
    PROVE  Serves(Allocated(led, list), list)
<1> DEFINE new == Allocated(led, list)
<1>1. ASSUME NEW g \in Gateways, new[g] # None
      PROVE  list[g].there /\ list[g].address = None
    <2>1. CASE g \in Wanting(led, list)
        BY <2>1 DEF Wanting
    <2>2. CASE g \notin Wanting(led, list)
        BY <1>1, <2>2, NotHandedOut DEF Kept
    <2> QED
        BY <2>1, <2>2
<1>2. ASSUME NEW g \in Gateways, list[g].there, list[g].address = None,
             list[g].wireguard, ~ list[g].deleting, new[g] = None
      PROVE  Hosts \subseteq SpecAddresses(list) \cup Reserved \cup {new[h] : h \in Gateways}
    <2>1. g \in Wanting(led, list)
        BY <1>2, NotHandedOut DEF Wanting
    <2>2. ASSUME NEW x \in Hosts, x \notin SpecAddresses(list) \cup Reserved
          PROVE  \E h \in Gateways : new[h] = x
        <3>1. CASE x \in Unused(led, list)
            BY <1>2, <2>1, <3>1, NoneLeft
        <3>2. CASE x \notin Unused(led, list)
            <4>1. PICK h \in Gateways : Kept(led, list)[h] = x
                BY <2>2, <3>2 DEF Unused
            <4>2. h \notin Wanting(led, list)
                BY <2>2, <4>1, AddressesAssumption DEF Wanting
            <4> QED
                BY <4>1, <4>2, NotHandedOut
        <3> QED
            BY <3>1, <3>2
    <2> HIDE DEF new
    <2> QED
        BY <2>2
<1> QED
    BY <1>1, <1>2 DEF Serves

-----------------------------------------------------------------------------
(* The inductive invariant *)

LEMMA IdleType ==
    ASSUME NEW pc \in {"get", "put", "done", "noLedger", "conflict", "error"}
    PROVE  Idle(pc) \in JobStates
BY BoundsAssumption DEF Idle, JobStates, NoList, NoEntries, NoGateway, GatewayStates,
   Ledgers, Addresses

\* Before anything happens.
LEMMA InitIInv == Init => IInv
<1> SUFFICES ASSUME Init PROVE IInv
    OBVIOUS
<1>1. TypeOK
    BY IdleType DEF Init, TypeOK, NoList, NoEntries, NoGateway, GatewayStates, Ledgers,
       Addresses
<1>2. LedgerDistinct /\ PlanIsFresh
    BY DEF Init, LedgerDistinct, Distinct, PlanIsFresh, NoEntries
<1> QED
    BY <1>1, <1>2 DEF IInv

\* Gateways leave as they should.
LEMMA GoneType ==
    ASSUME TypeOK, NEW j \in Jobs
    PROVE  Gone(j) \in [Gateways -> GatewayStates]
BY DEF TypeOK, Gone, NoGateway, GatewayStates

\* Every step keeps the types.
LEMMA NextTypeOK ==
    ASSUME IInv, [Next]_vars
    PROVE  TypeOK'
<1> USE DEF IInv
<1>1. CASE UNCHANGED vars
    BY <1>1 DEF TypeOK, vars
<1>2. ASSUME NEW g \in Gateways, Change(g)
      PROVE  TypeOK'
    <2>1. ASSUME NEW wireguard \in BOOLEAN, NEW address \in {None} \cup OwnAddresses
          PROVE  [there |-> TRUE, deleting |-> FALSE,
                  wireguard |-> wireguard, address |-> address] \in GatewayStates
        BY DEF GatewayStates
    <2>2. [gw[g] EXCEPT !.deleting = TRUE] \in GatewayStates
        BY DEF TypeOK, GatewayStates
    <2>3. gw' \in [Gateways -> GatewayStates]
        BY <1>2, <2>1, <2>2 DEF TypeOK, Change
    <2>4. changes' \in Nat
        BY <1>2 DEF TypeOK, Change
    <2> QED
        BY <1>2, <2>3, <2>4 DEF TypeOK, Change
<1>3. CASE CreateLedger
    BY <1>3 DEF TypeOK, CreateLedger
<1>4. CASE WriteVnis
    BY <1>4 DEF TypeOK, WriteVnis
<1>5. ASSUME NEW j \in Jobs, StartAllocate(j)
      PROVE  TypeOK'
    <2>1. [Idle("get") EXCEPT !.list = gw] \in JobStates
        BY IdleType DEF TypeOK, JobStates
    <2> QED
        BY <1>5, <2>1 DEF TypeOK, StartAllocate
<1>6. ASSUME NEW j \in Jobs, NEW g \in Gateways, StartRelease(j, g)
      PROVE  TypeOK'
    <2>1. [Idle("get") EXCEPT !.releases = g] \in JobStates
        BY IdleType DEF JobStates
    <2> QED
        BY <1>6, <2>1 DEF TypeOK, StartRelease
<1>7. ASSUME NEW j \in Jobs, Get(j)
      PROVE  TypeOK'
    <2>1. [job[j] EXCEPT !.pc = "put", !.new = New(j)] \in JobStates
        BY NewDistinct DEF TypeOK, JobStates
    <2> QED
        BY <1>7, <2>1, IdleType, GoneType DEF TypeOK, Get
<1>8. ASSUME NEW j \in Jobs, Put(j)
      PROVE  TypeOK'
    BY <1>8, IdleType, GoneType DEF TypeOK, Put, JobStates
<1>9. ASSUME NEW j \in Jobs, PutConflict(j)
      PROVE  TypeOK'
    <2> DEFINE next == IF job[j].attempts + 1 < MaxAttempts THEN StartsOver(j)
                       ELSE Idle("conflict")
    <2>1. job[j] \in JobStates /\ NoEntries \in Ledgers
        BY DEF TypeOK, NoEntries, Ledgers, Addresses
    <2>2. job[j].attempts \in Nat /\ MaxAttempts \in Nat
        BY <2>1, BoundsAssumption DEF JobStates
    <2>3. job[j].attempts + 1 < MaxAttempts => job[j].attempts + 1 \in 0 .. MaxAttempts
        BY <2>2
    <2>4. job[j].attempts + 1 < MaxAttempts => StartsOver(j) \in JobStates
        BY <2>1, <2>3 DEF JobStates, StartsOver
    <2>5. next \in JobStates
        BY <2>4, IdleType
    <2>6. job' = [job EXCEPT ![j] = next]
        BY <1>9 DEF PutConflict
    <2>7. job' \in [Jobs -> JobStates]
        BY <2>5, <2>6 DEF TypeOK
    <2> QED
        BY <1>9, <2>7 DEF TypeOK, PutConflict
<1>10. ASSUME NEW j \in Jobs, Fail(j)
       PROVE  TypeOK'
    BY <1>10, IdleType DEF TypeOK, Fail, JobStates
<1> QED
    BY <1>1, <1>2, <1>3, <1>4, <1>5, <1>6, <1>7, <1>8, <1>9, <1>10 DEF Next

\* A step that writes the ledger writes a fresh plan of one job.
LEMMA Writes ==
    ASSUME IInv, [Next]_vars
    PROVE  \/ ledger' = ledger
           \/ \E j \in current : /\ ledger' = New(j) /\ current' = {}
                                 /\ job[j].pc = "put" /\ job'[j].pc \in {"done", "error"}
<1>1. ASSUME NEW j \in Jobs, Put(j) \/ Fail(j)
      PROVE  \/ ledger' = ledger
             \/ /\ j \in current /\ ledger' = New(j) /\ current' = {}
                /\ job[j].pc = "put" /\ job'[j].pc \in {"done", "error"}
    BY <1>1 DEF Put, Fail, IInv, PlanIsFresh, TypeOK, Idle
<1> QED
    BY <1>1 DEF Next, vars, Change, CreateLedger, WriteVnis, StartAllocate, StartRelease,
       Get, PutConflict

\* Every step keeps the addresses distinct.
LEMMA NextDistinct ==
    ASSUME IInv, [Next]_vars
    PROVE  LedgerDistinct'
<1>1. CASE ledger' = ledger
    BY <1>1 DEF IInv, LedgerDistinct, Distinct
<1>2. ASSUME NEW j \in current, ledger' = New(j)
      PROVE  LedgerDistinct'
    <2>1. j \in Jobs
        BY DEF IInv, TypeOK
    <2> QED
        BY <1>2, <2>1, NewDistinct DEF IInv, LedgerDistinct, Distinct
<1> QED
    BY <1>1, <1>2, Writes

\* Every step keeps the plans fresh: a job is of the current version only until
\* the ledger or its own copy of it changes.
LEMMA NextFresh ==
    ASSUME IInv, [Next]_vars
    PROVE  PlanIsFresh'
<1> USE DEF IInv
<1>1. ASSUME NEW j \in current', j \in current, ledger' = ledger, job'[j] = job[j]
      PROVE  job'[j].pc = "put" /\ job'[j].new = New(j)'
    BY <1>1 DEF PlanIsFresh, New
<1>2. CASE UNCHANGED vars
    BY <1>1, <1>2 DEF PlanIsFresh, vars
<1>3. ASSUME NEW g \in Gateways, Change(g)
      PROVE  PlanIsFresh'
    BY <1>1, <1>3 DEF PlanIsFresh, Change
<1>4. CASE CreateLedger
    BY <1>1, <1>4 DEF PlanIsFresh, CreateLedger
<1>5. CASE WriteVnis
    BY <1>5 DEF PlanIsFresh, WriteVnis
<1>6. ASSUME NEW j \in Jobs, \/ StartAllocate(j)
                             \/ \E g \in Gateways : StartRelease(j, g)
                             \/ PutConflict(j)
      PROVE  PlanIsFresh'
    <2>1. j \notin current
        BY <1>6 DEF StartAllocate, StartRelease, PutConflict, Ended, PlanIsFresh
    <2>2. current' = current /\ ledger' = ledger /\ \A k \in Jobs \ {j} : job'[k] = job[k]
        BY <1>6 DEF StartAllocate, StartRelease, PutConflict, TypeOK
    <2> QED
        BY <1>1, <2>1, <2>2 DEF PlanIsFresh, TypeOK
<1>7. ASSUME NEW j \in Jobs, Get(j)
      PROVE  PlanIsFresh'
    <2>1. ledger' = ledger /\ \A k \in Jobs \ {j} : job'[k] = job[k]
        BY <1>7 DEF Get, TypeOK
    <2>2. j \notin current
        BY <1>7 DEF Get, PlanIsFresh
    <2>3. CASE stored /\ New(j) # ledger
        <3>1. /\ current' = current \cup {j}
              /\ job'[j] = [job[j] EXCEPT !.pc = "put", !.new = New(j)]
            BY <1>7, <2>3 DEF Get, TypeOK
        <3>2. job[j] \in JobStates
            BY DEF TypeOK
        <3>3. /\ job'[j].pc = "put" /\ job'[j].new = New(j)
              /\ job'[j].releases = job[j].releases /\ job'[j].list = job[j].list
            BY <3>1, <3>2 DEF JobStates
        <3>4. New(j)' = New(j)
            BY <2>1, <3>3 DEF New
        <3> QED
            BY <1>1, <2>1, <3>1, <3>3, <3>4 DEF PlanIsFresh, TypeOK
    <2>4. CASE ~(stored /\ New(j) # ledger)
        <3>1. current' = current
            BY <1>7, <2>4 DEF Get
        <3> QED
            BY <1>1, <2>1, <2>2, <3>1 DEF PlanIsFresh, TypeOK
    <2> QED
        BY <2>3, <2>4
<1>8. ASSUME NEW j \in Jobs, Put(j)
      PROVE  PlanIsFresh'
    BY <1>8 DEF PlanIsFresh, Put
<1>9. ASSUME NEW j \in Jobs, Fail(j)
      PROVE  PlanIsFresh'
    <2>1. \A k \in Jobs \ {j} : job'[k] = job[k]
        BY <1>9 DEF Fail, TypeOK
    <2>2. current' = {} \/ (current' = current \ {j} /\ ledger' = ledger)
        BY <1>9 DEF Fail
    <2> QED
        BY <1>1, <2>1, <2>2 DEF PlanIsFresh, TypeOK
<1> QED
    BY <1>2, <1>3, <1>4, <1>5, <1>6, <1>7, <1>8, <1>9 DEF Next

\* IInv is an invariant.
THEOREM Inductive == Spec => []IInv
<1>1. IInv /\ [Next]_vars => IInv'
    BY NextTypeOK, NextDistinct, NextFresh DEF IInv
<1> QED
    BY InitIInv, <1>1, PTL DEF Spec

\* The type invariant of the ledger, its jobs and the gateways.
THEOREM TypeCorrect == Spec => []TypeOK
<1>1. IInv => TypeOK
    BY DEF IInv
<1> QED
    BY Inductive, <1>1, PTL

\* No two gateways of a fabric hold one tunnel address in the ledger, and none
\* the border gateway's, whatever jobs cross (fabric_wg_ledger.py).
THEOREM AddressesDistinct == Spec => []LedgerDistinct
<1>1. IInv => LedgerDistinct
    BY DEF IInv
<1> QED
    BY Inductive, <1>1, PTL

\* A gateway loses its address only to its own release, or to a job on whose
\* list it was gone or brought its own (fabric_wg_ledger.py).
THEOREM EntriesKept == Spec => EntriesAreKept
<1> DEFINE Kept1 == \A g \in Gateways : ledger[g] # None /\ ledger'[g] # ledger[g] =>
       \E j \in Jobs : /\ job[j].pc = "put" /\ job'[j].pc \in {"done", "error"}
                       /\ \/ job[j].releases = g
                          \/ /\ job[j].releases = None
                             /\ ~job[j].list[g].there \/ job[j].list[g].address # None
<1>1. IInv /\ [Next]_vars => [Kept1]_vars
    <2> SUFFICES ASSUME IInv, [Next]_vars, NEW g \in Gateways,
                        ledger[g] # None, ledger'[g] # ledger[g]
                 PROVE  \E j \in Jobs :
                           /\ job[j].pc = "put" /\ job'[j].pc \in {"done", "error"}
                           /\ \/ job[j].releases = g
                              \/ /\ job[j].releases = None
                                 /\ ~job[j].list[g].there \/ job[j].list[g].address # None
        OBVIOUS
    <2>1. PICK j \in current : /\ ledger' = New(j)
                               /\ job[j].pc = "put" /\ job'[j].pc \in {"done", "error"}
        BY Writes
    <2>2. j \in Jobs /\ TypeOK
        BY DEF IInv, TypeOK
    <2> QED
        BY <2>1, <2>2, NewKeeps
<1> QED
    BY Inductive, <1>1, PTL DEF Spec, EntriesAreKept

\* An allocate that ends well leaves a ledger in line with the gateways it listed,
\* however often it had to start over (the loop of fabric_wg_ledger.py).
THEOREM ListsServed == Spec => ListIsServed
<1> DEFINE Served(j) ==
       job[j].pc \in {"get", "put"} /\ job[j].releases = None /\ job'[j].pc = "done"
       => Serves(ledger', job[j].list)
<1>1. IInv /\ [Next]_vars => [\A j \in Jobs : Served(j)]_vars
    <2> SUFFICES ASSUME IInv, [Next]_vars, NEW j \in Jobs,
                        job[j].pc \in {"get", "put"}, job[j].releases = None,
                        job'[j].pc = "done"
                 PROVE  Serves(ledger', job[j].list)
        OBVIOUS
    <2>1. ledger \in Ledgers /\ job[j].list \in [Gateways -> GatewayStates] /\ TypeOK
        BY DEF IInv, TypeOK, JobStates
    <2>2. New(j) = Allocated(ledger, job[j].list)
        BY DEF New
    <2>3. ledger' = New(j)
        <3>1. ASSUME NEW k \in Jobs, Get(k) \/ Put(k) \/ Fail(k) \/ PutConflict(k)
              PROVE  ledger' = New(j)
            <4>1. k = j
                <5>1. \A i \in Jobs \ {k} : job'[i] = job[i]
                    BY <2>1, <3>1 DEF TypeOK, Get, Put, Fail, PutConflict
                <5> QED
                    BY <5>1
            <4>2. CASE Get(j)
                BY <2>1, <4>2 DEF TypeOK, Get, Idle, JobStates
            <4>3. CASE Put(j)
                BY <4>3 DEF Put, IInv, PlanIsFresh
            <4>4. CASE Fail(j)
                BY <2>1, <4>4 DEF TypeOK, Fail, Idle
            <4>5. CASE PutConflict(j)
                BY <2>1, <4>5 DEF TypeOK, PutConflict, StartsOver, Idle, JobStates
            <4> QED
                BY <3>1, <4>1, <4>2, <4>3, <4>4, <4>5
        <3>2. ASSUME \/ job' = job
                     \/ \E k \in Jobs : \/ StartAllocate(k)
                                        \/ \E g \in Gateways : StartRelease(k, g)
              PROVE  FALSE
            BY <2>1, <3>2 DEF TypeOK, StartAllocate, StartRelease, Ended
        <3> QED
            BY <3>1, <3>2 DEF Next, vars, Change, CreateLedger, WriteVnis
    <2> QED
        BY <2>1, <2>2, <2>3, AllocatedServes
<1> QED
    BY Inductive, <1>1, PTL DEF Spec, ListIsServed
=============================================================================
