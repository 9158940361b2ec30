--------------------------- MODULE WireGuardLedger ---------------------------
(***************************************************************************)
(* The WireGuard tunnel addresses of a fabric's site gateways: key          *)
(* wgAddresses of ConfigMap fabric-numbering-<fabric>, written by           *)
(* fabric_wg_ledger.py (allocate from bgw_facts.yml, release from the       *)
(* teardown of a CloudGateway) and, under other keys, by the VNI scripts.   *)
(*                                                                          *)
(* As in VniLedger, `current` is the set of the jobs whose copy of the      *)
(* ConfigMap is the stored one: a PUT of any other is answered 409.         *)
(***************************************************************************)
EXTENDS Naturals, FiniteSets

CONSTANTS
  Gateways,     \* the names of CloudGateways, numbered in the order of the names
  Jobs,         \* AAP jobs that may run the script at the same time
  Hosts,        \* WG_NETWORK from START_OFFSET on
  OwnAddresses, \* what users write into spec.wireguard.address
  Reserved,     \* WG_RESERVED: the border gateway's own address
  MaxAttempts,  \* `for _ in range(10)`
  MaxChanges    \* bound on what users do

None == 0

ASSUME GatewaysAssumption == Gateways \subseteq Nat \ {None} /\ IsFiniteSet(Gateways)
ASSUME AddressesAssumption ==
  /\ Hosts \subseteq Nat \ {None} /\ IsFiniteSet(Hosts)
  /\ OwnAddresses \subseteq Nat \ {None}
  /\ Reserved \subseteq Nat \ {None}
ASSUME BoundsAssumption == MaxAttempts \in Nat \ {0} /\ MaxChanges \in Nat

VARIABLES
  gw,       \* the CloudGateways of the fabric
  stored,   \* does the ConfigMap exist?
  ledger,   \* its wgAddresses: gateway -> address
  current,  \* the jobs that read the version now stored
  job,      \* per job: its script, its place in it and what it has read
  changes   \* what users have done so far

vars == <<gw, stored, ledger, current, job, changes>>

Addresses == {None} \cup Hosts
Ledgers == [Gateways -> Addresses]
GatewayStates == [there : BOOLEAN, deleting : BOOLEAN, wireguard : BOOLEAN,
                  address : {None} \cup OwnAddresses]
NoGateway == [there |-> FALSE, deleting |-> FALSE, wireguard |-> FALSE, address |-> None]
JobStates == [pc : {"get", "put", "done", "noLedger", "conflict", "error"},
              releases : {None} \cup Gateways,   \* RELEASE_NAME; None: allocate
              list : [Gateways -> GatewayStates],
              attempts : 0 .. MaxAttempts,
              new : Ledgers]

-----------------------------------------------------------------------------
(* plan_allocate: a pure function of the ledger read and the list of gateways *)

SpecAddresses(list) == {list[g].address : g \in Gateways} \ {None}

\* Mutant: entries are only added.
KeptAll(led, list) == led

\* Entries of gateways that are gone, or bring an address now, are dropped.
Kept(led, list) ==
  [g \in Gateways |-> IF list[g].there /\ list[g].address = None THEN led[g] ELSE None]

\* The gateways that need an entry.
Wanting(led, list) ==
  {g \in Gateways : /\ list[g].there /\ list[g].address = None
                    /\ Kept(led, list)[g] = None
                    /\ list[g].wireguard /\ ~list[g].deleting}

Unused(led, list) ==
  Hosts \ (SpecAddresses(list) \cup {Kept(led, list)[g] : g \in Gateways} \cup Reserved)

Rank(x, S) == Cardinality({y \in S : y <= x})

\* Mutant: an address just handed out is not counted as used.
NextHostsUncounted(g, led, list) ==
  {x \in Unused(led, list) : Rank(x, Unused(led, list)) = 1}

\* One gateway after the other takes the lowest address still free: the n-th of
\* them the n-th of these.  The set is empty when there are none left.
NextHosts(g, led, list) ==
  {x \in Unused(led, list) : Rank(x, Unused(led, list)) = Rank(g, Wanting(led, list))}

Allocated(led, list) ==
  [g \in Gateways |->
     IF g \in Wanting(led, list)
     THEN IF NextHosts(g, led, list) = {} THEN None
          ELSE CHOOSE x \in NextHosts(g, led, list) : TRUE
     ELSE Kept(led, list)[g]]

Released(led, g) == [led EXCEPT ![g] = None]

New(j) == IF job[j].releases = None THEN Allocated(ledger, job[j].list)
          ELSE Released(ledger, job[j].releases)

-----------------------------------------------------------------------------
NoList == [g \in Gateways |-> NoGateway]
NoEntries == [g \in Gateways |-> None]
Idle(pc) == [pc |-> pc, releases |-> None, list |-> NoList, attempts |-> 0, new |-> NoEntries]

Ended(j) == job[j].pc \in {"done", "noLedger", "conflict", "error"}

Init ==
  /\ gw = NoList
  /\ stored = FALSE
  /\ ledger = NoEntries
  /\ current = {}
  /\ job = [j \in Jobs |-> Idle("done")]
  /\ changes = 0

\* Users create a gateway, change its transport or its address, or delete it.
Change(g) ==
  /\ changes < MaxChanges
  /\ changes' = changes + 1
  /\ \/ /\ ~gw[g].deleting
        /\ \E wireguard \in BOOLEAN, address \in {None} \cup OwnAddresses :
             gw' = [gw EXCEPT ![g] = [there |-> TRUE, deleting |-> FALSE,
                                      wireguard |-> wireguard, address |-> address]]
     \/ /\ gw[g].there
        /\ gw' = [gw EXCEPT ![g].deleting = TRUE]
  /\ UNCHANGED <<stored, ledger, current, job>>

\* The HybridFabric's own playbook creates the ConfigMap.
CreateLedger ==
  /\ ~stored
  /\ stored' = TRUE
  /\ UNCHANGED <<gw, ledger, current, job, changes>>

\* A VNI script writes its keys of the same ConfigMap.
WriteVnis ==
  /\ stored /\ current # {}
  /\ current' = {}
  /\ UNCHANGED <<gw, stored, ledger, job, changes>>

\* A job that configures the border gateway, or a site gateway, lists the gateways.
StartAllocate(j) ==
  /\ Ended(j)
  /\ job' = [job EXCEPT ![j] = [Idle("get") EXCEPT !.list = gw]]
  /\ UNCHANGED <<gw, stored, ledger, current, changes>>

\* The teardown job of a gateway reaches its release.
StartRelease(j, g) ==
  /\ Ended(j)
  /\ gw[g].there /\ gw[g].deleting
  /\ job' = [job EXCEPT ![j] = [Idle("get") EXCEPT !.releases = g]]
  /\ UNCHANGED <<gw, stored, ledger, current, changes>>

\* What a gateway's teardown leads to once the script has ended well (a ledger that
\* is not there is no error): deletionComplete, and a resource being deleted goes.
Gone(j) ==
  [g \in Gateways |-> IF g = job[j].releases /\ gw[g].deleting THEN NoGateway ELSE gw[g]]

\* The GET, and the decision on what it read.
Get(j) ==
  /\ job[j].pc = "get"
  /\ \/ /\ ~stored
        /\ job' = [job EXCEPT ![j] = Idle("noLedger")]
        /\ gw' = Gone(j)
        /\ UNCHANGED current
     \/ /\ stored /\ New(j) = ledger
        /\ job' = [job EXCEPT ![j] = Idle("done")]
        /\ gw' = Gone(j)
        /\ UNCHANGED current
     \/ /\ stored /\ New(j) # ledger
        /\ job' = [job EXCEPT ![j].pc = "put", ![j].new = New(j)]
        /\ current' = current \cup {j}
        /\ UNCHANGED gw
  /\ UNCHANGED <<stored, ledger, changes>>

\* Mutant: the PUT carries no resourceVersion.
PutUnconditional(j) ==
  /\ job[j].pc = "put"
  /\ ledger' = job[j].new
  /\ current' = {}
  /\ job' = [job EXCEPT ![j] = Idle("done")]
  /\ gw' = Gone(j)
  /\ UNCHANGED <<stored, changes>>

Put(j) ==
  /\ job[j].pc = "put" /\ j \in current
  /\ ledger' = job[j].new
  /\ current' = {}
  /\ job' = [job EXCEPT ![j] = Idle("done")]
  /\ gw' = Gone(j)
  /\ UNCHANGED <<stored, changes>>

\* 409: the script reads again, at most MaxAttempts times.
StartsOver(j) == [job[j] EXCEPT !.pc = "get", !.attempts = @ + 1, !.new = NoEntries]
PutConflict(j) ==
  /\ job[j].pc = "put" /\ j \notin current
  /\ job' = [job EXCEPT ![j] =
       IF job[j].attempts + 1 < MaxAttempts THEN StartsOver(j) ELSE Idle("conflict")]
  /\ UNCHANGED <<gw, stored, ledger, current, changes>>

\* Any other answer ends the script; so does a request without one, which may
\* have been carried out all the same.
Fail(j) ==
  /\ job[j].pc \in {"get", "put"}
  /\ job' = [job EXCEPT ![j] = Idle("error")]
  /\ \/ /\ current' = current \ {j}
        /\ UNCHANGED ledger
     \/ /\ job[j].pc = "put" /\ j \in current
        /\ ledger' = job[j].new
        /\ current' = {}
  /\ UNCHANGED <<gw, stored, changes>>

Next ==
  \/ \E g \in Gateways : Change(g)
  \/ CreateLedger \/ WriteVnis
  \/ \E j \in Jobs : StartAllocate(j) \/ Get(j) \/ Put(j) \/ PutConflict(j) \/ Fail(j)
  \/ \E j \in Jobs, g \in Gateways : StartRelease(j, g)

Spec == Init /\ [][Next]_vars

-----------------------------------------------------------------------------
(* Properties *)

TypeOK ==
  /\ gw \in [Gateways -> GatewayStates]
  /\ stored \in BOOLEAN
  /\ ledger \in Ledgers
  /\ current \in SUBSET Jobs
  /\ job \in [Jobs -> JobStates]
  /\ changes \in Nat

Distinct(led) ==
  \A g \in Gateways : led[g] # None =>
    /\ led[g] \notin Reserved
    /\ \A h \in Gateways \ {g} : led[h] # led[g]

\* No two gateways hold the same tunnel address in the ledger, and none holds the
\* border gateway's, whatever jobs cross (`used` of plan_allocate, the PUT's
\* resourceVersion).
LedgerDistinct == Distinct(ledger)

\* A gateway's address is taken away or changed only by its own release, or by a job
\* on whose list the gateway was gone or brought its own: never by a job that came
\* from an older copy of the ledger (the PUT of main).
EntriesAreKept ==
  [][\A g \in Gateways : ledger[g] # None /\ ledger'[g] # ledger[g] =>
       \E j \in Jobs : /\ job[j].pc = "put" /\ job'[j].pc \in {"done", "error"}
                       /\ \/ job[j].releases = g
                          \/ /\ job[j].releases = None
                             /\ ~job[j].list[g].there \/ job[j].list[g].address # None]_vars

\* What a finished allocate leaves: an entry for no gateway that is gone or brings an
\* address, one for each WireGuard gateway that needs it, unless no address is free.
Serves(led, list) ==
  /\ \A g \in Gateways : led[g] # None => list[g].there /\ list[g].address = None
  /\ \A g \in Gateways :
       (/\ list[g].there /\ list[g].address = None
        /\ list[g].wireguard /\ ~list[g].deleting /\ led[g] = None)
       => Hosts \subseteq SpecAddresses(list) \cup Reserved \cup {led[h] : h \in Gateways}

\* An allocate that ends well has brought the ledger in line with its list, even when
\* others wrote in between and it had to start over (the loop of main).
ListIsServed ==
  [][\A j \in Jobs :
       job[j].pc \in {"get", "put"} /\ job[j].releases = None /\ job'[j].pc = "done"
       => Serves(ledger', job[j].list)]_vars
==============================================================================
