----------------------------- MODULE VniLedger ------------------------------
(***************************************************************************)
(* The VNI numbering ledger of one HybridFabric: ConfigMap                 *)
(* fabric-numbering-<fabric>, read and written by the allocate and release *)
(* scripts of eda/common/tasks.  Each script runs in an AAP job of its     *)
(* own; any number of jobs run at a time, for different networks or, after *)
(* a relaunch, for the same one.                                           *)
(*                                                                         *)
(* A script loops: GET the ConfigMap, decide on the copy it read, PUT the  *)
(* changed copy.  The API server refuses a PUT whose resourceVersion is    *)
(* not the stored one (409) and the script starts over, at most            *)
(* MaxAttempts times.  Every write gives the ConfigMap a new version, so   *)
(* "the version I read is the stored one" is all the scripts ever learn    *)
(* from it: `current` is the set of jobs of which this is true.            *)
(*                                                                         *)
(* The ConfigMap exists while scripts run.  A release that finds none has  *)
(* nothing to do and exits 0, an allocation exits 1: HybridNetworks, where *)
(* a fabric's teardown deletes the ledger, has both (ReleaseVni,           *)
(* AllocateFails).                                                         *)
(*                                                                         *)
(* An operator introduced by "Mutant:" is a plausible slip in the          *)
(* definition after it; no behaviour of the specification uses it.         *)
(***************************************************************************)
EXTENDS Naturals

CONSTANTS
    Keys,        \* ledger keys, "<namespace>/<HybridNetwork>"
    Jobs,        \* AAP jobs that may run a script at the same time
    PoolStart,   \* data.poolStart
    PoolEnd,     \* data.poolEnd
    MaxAttempts  \* `for attempt in range(10)`

ASSUME PoolAssumption ==
    /\ PoolStart \in Nat \ {0}
    /\ PoolEnd \in Nat
    /\ PoolStart <= PoolEnd

ASSUME MaxAttemptsAssumption == MaxAttempts \in Nat \ {0}

VARIABLES
    ledger,   \* [allocated, nextVni]: the data of the stored ConfigMap
    current,  \* the jobs that read the version now stored
    job       \* per job: its script, its place in it and its local variables

vars == <<ledger, current, job>>

NoVni == 0
Pool == PoolStart..PoolEnd
Vnis == Pool \cup {NoVni}

Ledgers == [allocated : [Keys -> Vnis], nextVni : Pool]

Outcomes == {"done", "exhausted", "conflict", "error"}
JobStates ==
    [pc : {"get", "put"} \cup Outcomes,
     op : {"allocate", "release"},
     key : Keys,
     preferred : Vnis,
     attempts : 0..MaxAttempts,
     read : Ledgers,
     vni : Vnis]

-----------------------------------------------------------------------------
(* The decision on a copy of the ledger. *)

Used(led) == {led.allocated[k] : k \in Keys} \ {NoVni}
Free(led) == Pool \ Used(led)

\* The scan goes from nextVni to the end of the pool, then from its start.
Smallest(S) == CHOOSE x \in S : \A y \in S : x <= y
Ahead(led) == (led.nextVni..PoolEnd) \ Used(led)

\* Mutant: The scan stops at the end of the pool.
WrappedNever(led) == {}

Wrapped(led) == (PoolStart..(led.nextVni - 1)) \ Used(led)

\* Mutant: the preferred VNI is not checked against the ones in use.
ChoicePreferred(led, preferred) ==
    CASE preferred \in Pool -> {preferred}
      [] preferred \notin Pool /\ Free(led) # {} -> {Smallest(Free(led))}
      [] OTHER -> {}

\* The number a network is given: the caller's previous VNI when it is free
\* and of this pool, else the first the scan finds; none when it finds none.
Choice(led, preferred) ==
    CASE preferred \in Free(led) -> {preferred}
      [] preferred \notin Free(led) /\ Ahead(led) # {} -> {Smallest(Ahead(led))}
      [] preferred \notin Free(led) /\ Ahead(led) = {} /\ Wrapped(led) # {} ->
            {Smallest(Wrapped(led))}
      [] OTHER -> {}

\* Mutant: nextVni is not wrapped at the end of the pool.
AfterAllocateNoWrap(led, key, vni) ==
    [allocated |-> [led.allocated EXCEPT ![key] = vni], nextVni |-> vni + 1]

AfterAllocate(led, key, vni) ==
    [allocated |-> [led.allocated EXCEPT ![key] = vni],
     nextVni |-> IF vni + 1 <= PoolEnd THEN vni + 1 ELSE PoolStart]

AfterRelease(led, key) ==
    [led EXCEPT !.allocated = [@ EXCEPT ![key] = NoVni]]

\* What a job PUTs: the copy it read, with its own change.
Written(j) ==
    IF job[j].op = "allocate"
    THEN AfterAllocate(job[j].read, job[j].key, job[j].vni)
    ELSE AfterRelease(job[j].read, job[j].key)

-----------------------------------------------------------------------------
EmptyLedger == [allocated |-> [k \in Keys |-> NoVni], nextVni |-> PoolStart]

\* A script exits: its answer remains, its local variables do not.
Exit(j, outcome, vni) ==
    job' = [job EXCEPT ![j] = [@ EXCEPT !.pc = outcome, !.vni = vni,
                                        !.preferred = NoVni, !.attempts = 0,
                                        !.read = EmptyLedger]]

\* A script has read the ledger and will PUT.
Decide(j, vni) ==
    /\ job' = [job EXCEPT ![j] = [@ EXCEPT !.pc = "put", !.read = ledger,
                                           !.vni = vni]]
    /\ current' = current \cup {j}

Init ==
    /\ ledger = EmptyLedger
    /\ current = {}
    /\ job \in [Jobs -> [pc : {"done"}, op : {"release"}, key : Keys,
                         preferred : {NoVni}, attempts : {0},
                         read : {EmptyLedger}, vni : {NoVni}]]

\* An idle job slot starts a script for some key.  The preferred VNI is the
\* status.vni of the network; one outside this pool counts as none.
Start(j) ==
    /\ job[j].pc \in Outcomes
    /\ \E op \in {"allocate", "release"}, key \in Keys, preferred \in Vnis :
          /\ op = "release" => preferred = NoVni
          /\ job' = [job EXCEPT ![j] =
                       [@ EXCEPT !.pc = "get", !.op = op, !.key = key,
                                 !.preferred = preferred, !.vni = NoVni]]
    /\ UNCHANGED <<ledger, current>>

\* GET answered 200 and the decision taken on it, up to the PUT or the exit.
GetToAllocate(j) ==
    /\ job[j].pc = "get" /\ job[j].op = "allocate"
    /\ job[j].attempts < MaxAttempts
    /\ LET held == ledger.allocated[job[j].key] IN
       \/ held # NoVni /\ Exit(j, "done", held) /\ UNCHANGED current
       \/ /\ held = NoVni /\ Choice(ledger, job[j].preferred) = {}
          /\ Exit(j, "exhausted", NoVni)
          /\ UNCHANGED current
       \/ /\ held = NoVni
          /\ \E vni \in Choice(ledger, job[j].preferred) : Decide(j, vni)
    /\ UNCHANGED ledger

GetToRelease(j) ==
    /\ job[j].pc = "get" /\ job[j].op = "release"
    /\ job[j].attempts < MaxAttempts
    /\ LET held == ledger.allocated[job[j].key] IN
       \/ held = NoVni /\ Exit(j, "done", NoVni) /\ UNCHANGED current
       \/ held # NoVni /\ Decide(j, NoVni)
    /\ UNCHANGED ledger

\* Mutant: The PUT carries no resourceVersion, so it is never refused.
PutUnguarded(j) ==
    /\ job[j].pc = "put"
    /\ ledger' = Written(j)
    /\ current' = {}
    /\ Exit(j, "done", job[j].vni)

\* Mutant: The resourceVersion does not change with the write.
PutSameVersion(j) ==
    /\ job[j].pc = "put" /\ j \in current
    /\ ledger' = Written(j)
    /\ current' = current \ {j}
    /\ Exit(j, "done", job[j].vni)

\* PUT with the stored resourceVersion: the write happens, and no job holds
\* the stored version any more.  The answer may still be lost: the request
\* times out, the script dies, and the change stays.
Put(j) ==
    /\ job[j].pc = "put" /\ j \in current
    /\ ledger' = Written(j)
    /\ current' = {}
    /\ \/ Exit(j, "done", job[j].vni)
       \/ Exit(j, "error", NoVni)

\* Mutant: A 409 is taken for success.
PutConflictIgnored(j) ==
    /\ job[j].pc = "put" /\ j \notin current
    /\ Exit(j, "done", job[j].vni)
    /\ UNCHANGED <<ledger, current>>

\* Mutant: The retries are not counted.
PutConflictForever(j) ==
    /\ job[j].pc = "put" /\ j \notin current
    /\ job' = [job EXCEPT ![j] = [@ EXCEPT !.pc = "get", !.vni = NoVni,
                                           !.read = EmptyLedger]]
    /\ UNCHANGED <<ledger, current>>

\* PUT with an older resourceVersion: 409, read again.
PutConflict(j) ==
    /\ job[j].pc = "put" /\ j \notin current
    /\ job' = [job EXCEPT ![j] = [@ EXCEPT !.pc = "get", !.vni = NoVni,
                                           !.attempts = job[j].attempts + 1,
                                           !.read = EmptyLedger]]
    /\ UNCHANGED <<ledger, current>>

\* All attempts ended in 409.
GiveUp(j) ==
    /\ job[j].pc = "get" /\ job[j].attempts = MaxAttempts
    /\ Exit(j, "conflict", NoVni)
    /\ UNCHANGED <<ledger, current>>

\* Any other answer to the GET or the PUT, or the death of the job.
Fail(j) ==
    /\ job[j].pc \in {"get", "put"}
    /\ Exit(j, "error", NoVni)
    /\ current' = current \ {j}
    /\ UNCHANGED ledger

Step(j) == GetToAllocate(j) \/ GetToRelease(j) \/ Put(j) \/ PutConflict(j) \/ GiveUp(j)

Next == \E j \in Jobs : Start(j) \/ Step(j) \/ Fail(j)

\* A started script runs until it exits: its requests have timeouts and its
\* loop is bounded.
Fairness == \A j \in Jobs : WF_vars(Step(j))

Spec == Init /\ [][Next]_vars /\ Fairness

-----------------------------------------------------------------------------
(* Properties *)

TypeOK ==
    /\ ledger \in Ledgers
    /\ current \subseteq Jobs
    /\ job \in [Jobs -> JobStates]

\* No two networks of the fabric hold the same VNI, however their jobs
\* interleave ("concurrent HybridNetwork allocations against the same fabric
\* never collide", fabric_numbering_allocate.yml:20).
UniqueVnis ==
    \A k, l \in Keys :
        ledger.allocated[k] = ledger.allocated[l] /\ ledger.allocated[k] # NoVni
            => k = l

\* The reason it holds: a job that may still write has read what is stored.
ReadIsStored ==
    \A j \in current : job[j].pc = "put" /\ job[j].read = ledger

\* A script that reports success tells the truth at that moment: the VNI it
\* prints is the one the ledger gives its key, and a released key (vni is
\* NoVni then) is absent: exit 0 of both scripts.
ReportsAreTrue ==
    [][\A j \in Jobs :
          job[j].pc # "done" /\ job'[j].pc = "done" =>
              ledger'.allocated[job[j].key] = job'[j].vni]_vars

\* "Pool exhausted" (exit 2) is reported only when every number of the pool
\* is in use, wherever the scan started.
ExhaustedMeansFull ==
    [][\A j \in Jobs :
          job[j].pc # "exhausted" /\ job'[j].pc = "exhausted" =>
              Used(ledger) = Pool]_vars

\* A started script ends, even when every PUT of it is refused.
ScriptsEnd == \A j \in Jobs : job[j].pc = "get" ~> job[j].pc \in Outcomes

\* The ledger implements the abstract numbering.
Allocator == INSTANCE VniAllocator WITH allocated <- ledger.allocated
ImplementsAllocator == Allocator!Spec

=============================================================================
