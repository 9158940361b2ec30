-------------------------- MODULE VniLedgerProofs ---------------------------
(***************************************************************************)
(* For every set of networks and of jobs, every pool and every number of   *)
(* attempts: the ledger is well-typed, no two networks hold one VNI, the   *)
(* scripts report what is stored and call the pool exhausted only when it  *)
(* is, and the ledger implements VniAllocator.                             *)
(*                                                                         *)
(* UniqueVnis is not inductive: a PUT writes a copy of the ledger read at  *)
(* an earlier step.  IInv adds what makes the copy harmless: a job that    *)
(* holds the stored version has read what is stored (ReadIsStored), and    *)
(* the change it decided on still applies to it (ChangeApplies).           *)
(***************************************************************************)
EXTENDS VniLedger, WellFoundedInduction, TLAPS

\* A job that may still write gives a free VNI to a network that has none, or
\* takes one from a network that has it.
ChangeApplies ==
    \A j \in current :
        LET held == ledger.allocated[job[j].key] IN
        IF job[j].op = "allocate"
        THEN held = NoVni /\ job[j].vni \in Free(ledger)
        ELSE held # NoVni /\ job[j].vni = NoVni

\* A release never carries a VNI.
ReleaseHasNone ==
    \A j \in Jobs : job[j].op = "release" => job[j].vni = NoVni

\* A job that is about to PUT has an attempt left for the conflict.
AttemptLeft ==
    \A j \in Jobs : job[j].pc = "put" => job[j].attempts < MaxAttempts

IInv ==
    /\ TypeOK
    /\ UniqueVnis
    /\ ReadIsStored
    /\ ChangeApplies
    /\ ReleaseHasNone
    /\ AttemptLeft

-----------------------------------------------------------------------------
(* Choosing a number *)

\* Every nonempty set of naturals has a smallest element.
LEMMA SmallestInSet ==
    ASSUME NEW S \in SUBSET Nat, S # {}
    PROVE  Smallest(S) \in S
<1>1. \E x \in S : \A y \in S : ~ (<<y, x>> \in OpToRel(<, Nat))
    BY NatLessThanWellFounded, WFMin
<1>2. PICK x \in S : \A y \in S : ~ (<<y, x>> \in OpToRel(<, Nat))
    BY <1>1
<1>3. ASSUME NEW y \in S PROVE x <= y
    <2>1. <<y, x>> \in Nat \X Nat
        OBVIOUS
    <2>2. y < x => <<y, x>> \in OpToRel(<, Nat)
        BY <2>1 DEF OpToRel
    <2>3. ~ (y < x)
        BY <1>2, <2>2, Zenon
    <2> QED
        BY <2>3
<1> QED
    BY <1>3 DEF Smallest

\* What a script decides to allocate is a free number of the pool.
LEMMA ChoiceIsFree ==
    ASSUME NEW led \in Ledgers, NEW preferred \in Vnis,
           NEW vni \in Choice(led, preferred)
    PROVE  vni \in Free(led)
<1>1. Ahead(led) \subseteq Free(led) /\ Wrapped(led) \subseteq Free(led)
    BY PoolAssumption DEF Ahead, Wrapped, Free, Pool, Ledgers
<1>2. Free(led) \in SUBSET Nat
    BY PoolAssumption DEF Free, Pool
<1>3. Ahead(led) # {} => Smallest(Ahead(led)) \in Free(led)
    BY <1>1, <1>2, SmallestInSet
<1>4. Wrapped(led) # {} => Smallest(Wrapped(led)) \in Free(led)
    BY <1>1, <1>2, SmallestInSet
<1> QED
    BY <1>3, <1>4 DEF Choice

\* A script finds no number only when the whole pool is in use: what lies ahead
\* of nextVni and what the scan wraps round to are all there is.
LEMMA NoChoiceIsFull ==
    ASSUME NEW led \in Ledgers, NEW preferred \in Vnis, Choice(led, preferred) = {}
    PROVE  Used(led) = Pool
<1>1. Ahead(led) = {} /\ Wrapped(led) = {}
    BY DEF Choice
<1>2. Pool = (led.nextVni..PoolEnd) \cup (PoolStart..(led.nextVni - 1))
    BY PoolAssumption DEF Ledgers, Pool
<1>3. Pool \subseteq Used(led)
    BY <1>1, <1>2 DEF Ahead, Wrapped
<1>4. Used(led) \subseteq Pool
    BY DEF Used, Ledgers, Vnis
<1> QED
    BY <1>3, <1>4

-----------------------------------------------------------------------------
(* The inductive invariant *)

\* The ledger a script writes is a ledger.
LEMMA ChangesAreLedgers ==
    ASSUME NEW led \in Ledgers, NEW key \in Keys
    PROVE  /\ \A vni \in Pool : AfterAllocate(led, key, vni) \in Ledgers
           /\ AfterRelease(led, key) \in Ledgers
BY PoolAssumption DEF Ledgers, Pool, Vnis, NoVni, AfterAllocate, AfterRelease

LEMMA EmptyIsLedger == EmptyLedger \in Ledgers
BY PoolAssumption DEF EmptyLedger, Ledgers, Vnis, NoVni, Pool

LEMMA InitInv == Init => IInv
<1> SUFFICES ASSUME Init PROVE IInv
    OBVIOUS
<1>1. TypeOK
    BY EmptyIsLedger, MaxAttemptsAssumption
    DEF Init, TypeOK, JobStates, Outcomes, Vnis
<1>2. UniqueVnis
    BY DEF Init, EmptyLedger, UniqueVnis
<1>3. ReadIsStored /\ ChangeApplies /\ ReleaseHasNone /\ AttemptLeft
    BY DEF Init, ReadIsStored, ChangeApplies, ReleaseHasNone, AttemptLeft
<1> QED
    BY <1>1, <1>2, <1>3 DEF IInv

\* A job that does not touch the ledger and does not become a writer keeps
\* the part of the invariant that speaks of the ledger and its writers.
LEMMA QuietStep ==
    ASSUME IInv, NEW j \in Jobs, NEW rec \in JobStates,
           job' = [job EXCEPT ![j] = rec], j \notin current',
           current' \subseteq current, ledger' = ledger,
           rec.op = "release" => rec.vni = NoVni, rec.pc # "put"
    PROVE  IInv'
<1>1. TypeOK'
    BY DEF IInv, TypeOK
<1>2. \A i \in current' : job'[i] = job[i]
    BY DEF IInv, TypeOK
<1>3. UniqueVnis'
    BY DEF IInv, UniqueVnis
<1>4. ReadIsStored'
    BY <1>2 DEF IInv, ReadIsStored
<1>5. ChangeApplies'
    BY <1>2 DEF IInv, ChangeApplies, Free, Used
<1>6. ReleaseHasNone' /\ AttemptLeft'
    BY DEF IInv, TypeOK, ReleaseHasNone, AttemptLeft
<1> QED
    BY <1>1, <1>3, <1>4, <1>5, <1>6 DEF IInv

\* Exit leaves the slot a well-typed record.
LEMMA ExitTyped ==
    ASSUME TypeOK, NEW j \in Jobs, NEW outcome \in Outcomes, NEW vni \in Vnis,
           Exit(j, outcome, vni)
    PROVE  \E rec \in JobStates :
              /\ job' = [job EXCEPT ![j] = rec]
              /\ rec.op = job[j].op /\ rec.vni = vni /\ rec.pc = outcome
<1> DEFINE rec == [job[j] EXCEPT !.pc = outcome, !.vni = vni,
                                 !.preferred = NoVni, !.attempts = 0,
                                 !.read = EmptyLedger]
<1>1. job[j] \in JobStates
    BY DEF TypeOK
<1>2. rec \in JobStates
    <2>1. /\ EmptyLedger \in Ledgers /\ NoVni \in Vnis
          /\ 0 \in 0..MaxAttempts
        BY EmptyIsLedger, MaxAttemptsAssumption DEF Vnis
    <2> QED
        BY <1>1, <2>1 DEF JobStates
<1>3. rec.op = job[j].op /\ rec.vni = vni /\ rec.pc = outcome
    BY <1>1 DEF JobStates
<1>4. job' = [job EXCEPT ![j] = rec]
    BY DEF Exit
<1> QED
    BY <1>2, <1>3, <1>4

\* An exit that writes nothing keeps the invariant.
LEMMA QuietExit ==
    ASSUME IInv, NEW j \in Jobs, NEW outcome \in Outcomes, NEW vni \in Vnis,
           Exit(j, outcome, vni), j \notin current', current' \subseteq current,
           ledger' = ledger, job[j].op = "release" => vni = NoVni
    PROVE  IInv'
<1>1. TypeOK
    BY DEF IInv
<1>2. PICK rec \in JobStates : /\ job' = [job EXCEPT ![j] = rec]
                               /\ rec.op = job[j].op /\ rec.vni = vni
                               /\ rec.pc = outcome
    BY <1>1, ExitTyped
<1>3. rec.pc # "put"
    BY <1>2 DEF Outcomes
<1> QED
    BY <1>2, <1>3, QuietStep

LEMMA StartInv ==
    ASSUME IInv, NEW j \in Jobs, Start(j)
    PROVE  IInv'
<1>1. PICK op \in {"allocate", "release"}, key \in Keys, preferred \in Vnis :
          /\ op = "release" => preferred = NoVni
          /\ job' = [job EXCEPT ![j] =
                       [@ EXCEPT !.pc = "get", !.op = op, !.key = key,
                                 !.preferred = preferred, !.vni = NoVni]]
    BY DEF Start
<1> DEFINE rec == [job[j] EXCEPT !.pc = "get", !.op = op, !.key = key,
                                 !.preferred = preferred, !.vni = NoVni]
<1>2. job[j] \in JobStates
    BY DEF IInv, TypeOK
<1>3. rec \in JobStates /\ rec.vni = NoVni /\ rec.pc # "put"
    BY <1>2 DEF JobStates, Vnis
<1>4. j \notin current /\ current' = current /\ ledger' = ledger
    BY DEF Start, IInv, ReadIsStored, Outcomes
<1>5. job' = [job EXCEPT ![j] = rec]
    BY <1>1
<1> HIDE DEF rec
<1> QED
    BY <1>3, <1>4, <1>5, QuietStep

\* A job that has read the ledger and decided on a change that applies to it
\* becomes a writer.
LEMMA DecideInv ==
    ASSUME IInv, NEW j \in Jobs, NEW vni \in Vnis, Decide(j, vni),
           job[j].pc = "get", job[j].attempts < MaxAttempts, ledger' = ledger,
           IF job[j].op = "allocate"
           THEN ledger.allocated[job[j].key] = NoVni /\ vni \in Free(ledger)
           ELSE ledger.allocated[job[j].key] # NoVni /\ vni = NoVni
    PROVE  IInv'
<1> DEFINE rec == [job[j] EXCEPT !.pc = "put", !.read = ledger, !.vni = vni]
<1>1. job[j] \in JobStates /\ ledger \in Ledgers
    BY DEF IInv, TypeOK
<1>2. /\ rec \in JobStates /\ rec.op = job[j].op /\ rec.key = job[j].key
      /\ rec.pc = "put" /\ rec.read = ledger /\ rec.vni = vni
      /\ rec.attempts = job[j].attempts
    BY <1>1 DEF JobStates
<1>3. job' = [job EXCEPT ![j] = rec] /\ current' = current \cup {j}
    BY DEF Decide
<1> HIDE DEF rec
<1>4. /\ job'[j] = rec
      /\ \A i \in Jobs \ {j} : job'[i] = job[i]
    BY <1>3 DEF IInv, TypeOK
<1>5. TypeOK'
    BY <1>2, <1>3 DEF IInv, TypeOK
<1>6. UniqueVnis'
    BY DEF IInv, UniqueVnis
<1>7. ReadIsStored'
    BY <1>2, <1>3, <1>4 DEF IInv, TypeOK, ReadIsStored
<1>8. ChangeApplies'
    BY <1>2, <1>3, <1>4 DEF IInv, TypeOK, ChangeApplies, Free, Used
<1>9. ReleaseHasNone'
    BY <1>1, <1>2, <1>4 DEF IInv, TypeOK, ReleaseHasNone, JobStates
<1>10. AttemptLeft'
    BY <1>2, <1>4 DEF IInv, TypeOK, AttemptLeft
<1> QED
    BY <1>5, <1>6, <1>7, <1>8, <1>9, <1>10 DEF IInv

LEMMA NotCurrent ==
    ASSUME IInv, NEW j \in Jobs, job[j].pc # "put"
    PROVE  j \notin current
BY DEF IInv, ReadIsStored

LEMMA GetToAllocateInv ==
    ASSUME IInv, NEW j \in Jobs, GetToAllocate(j)
    PROVE  IInv'
<1> DEFINE held == ledger.allocated[job[j].key]
<1>1. /\ job[j] \in JobStates /\ ledger \in Ledgers
      /\ job[j].preferred \in Vnis /\ job[j].key \in Keys /\ held \in Vnis
    BY DEF IInv, TypeOK, JobStates, Ledgers
<1>2. /\ job[j].pc = "get" /\ job[j].op = "allocate" /\ ledger' = ledger
      /\ j \notin current /\ job[j].attempts < MaxAttempts
    BY NotCurrent DEF GetToAllocate
<1>3. CASE Exit(j, "done", held) /\ UNCHANGED current
    BY <1>1, <1>2, <1>3, QuietExit DEF Outcomes
<1>4. CASE Exit(j, "exhausted", NoVni) /\ UNCHANGED current
    BY <1>1, <1>2, <1>4, QuietExit DEF Outcomes, Vnis
<1>5. ASSUME held = NoVni,
             NEW vni \in Choice(ledger, job[j].preferred), Decide(j, vni)
      PROVE  IInv'
    <2>1. vni \in Free(ledger)
        BY <1>1, ChoiceIsFree
    <2>2. vni \in Vnis
        BY <2>1 DEF Free, Vnis
    <2> QED
        BY <1>2, <1>5, <2>1, <2>2, DecideInv
<1> QED
    BY <1>3, <1>4, <1>5 DEF GetToAllocate

LEMMA GetToReleaseInv ==
    ASSUME IInv, NEW j \in Jobs, GetToRelease(j)
    PROVE  IInv'
<1>1. /\ job[j].pc = "get" /\ job[j].op = "release" /\ ledger' = ledger
      /\ j \notin current /\ job[j].attempts < MaxAttempts /\ NoVni \in Vnis
    BY NotCurrent DEF GetToRelease, Vnis
<1>2. CASE Exit(j, "done", NoVni) /\ UNCHANGED current
    BY <1>1, <1>2, QuietExit DEF Outcomes
<1>3. CASE ledger.allocated[job[j].key] # NoVni /\ Decide(j, NoVni)
    BY <1>1, <1>3, DecideInv
<1> QED
    BY <1>2, <1>3 DEF GetToRelease

\* The write is the stored ledger with the change the job decided on.
LEMMA PutWrites ==
    ASSUME IInv, NEW j \in current, ledger' = Written(j)
    PROVE  /\ job[j].key \in Keys
           /\ job[j].op = "allocate" =>
                 /\ ledger.allocated[job[j].key] = NoVni
                 /\ job[j].vni \in Free(ledger)
                 /\ ledger' = AfterAllocate(ledger, job[j].key, job[j].vni)
           /\ job[j].op # "allocate" =>
                 /\ ledger.allocated[job[j].key] # NoVni
                 /\ job[j].vni = NoVni
                 /\ ledger' = AfterRelease(ledger, job[j].key)
           /\ ledger'.allocated =
                 [ledger.allocated EXCEPT ![job[j].key] = job[j].vni]
<1>1. job[j].read = ledger /\ j \in Jobs /\ job[j].key \in Keys
    BY DEF IInv, TypeOK, ReadIsStored, JobStates
<1>2. CASE job[j].op = "allocate"
    BY <1>1, <1>2 DEF IInv, ChangeApplies, Written, AfterAllocate
<1>3. CASE job[j].op # "allocate"
    BY <1>1, <1>3 DEF IInv, TypeOK, Ledgers, ChangeApplies, Written, AfterRelease
<1> QED
    BY <1>1, <1>2, <1>3

LEMMA PutInv ==
    ASSUME IInv, NEW j \in Jobs, Put(j)
    PROVE  IInv'
<1>1. /\ j \in current /\ ledger' = Written(j) /\ current' = {}
      /\ ledger \in Ledgers /\ TypeOK
    BY DEF Put, IInv, TypeOK
<1>2. ledger' \in Ledgers
    <2>1. CASE job[j].op = "allocate"
        <3>1. /\ job[j].vni \in Pool /\ job[j].key \in Keys
              /\ ledger' = AfterAllocate(ledger, job[j].key, job[j].vni)
            BY <1>1, <2>1, PutWrites DEF Free
        <3> QED
            BY <1>1, <3>1, ChangesAreLedgers
    <2>2. CASE job[j].op # "allocate"
        <3>1. job[j].key \in Keys /\ ledger' = AfterRelease(ledger, job[j].key)
            BY <1>1, <2>2, PutWrites
        <3> QED
            BY <1>1, <3>1, ChangesAreLedgers
    <2> QED
        BY <2>1, <2>2
<1>3. PICK outcome \in Outcomes, vni \in Vnis :
          Exit(j, outcome, vni) /\ (job[j].op = "release" => vni = NoVni)
    <2>1. CASE Exit(j, "done", job[j].vni)
        BY <2>1 DEF IInv, TypeOK, JobStates, ReleaseHasNone, Outcomes
    <2>2. CASE Exit(j, "error", NoVni)
        BY <2>2 DEF Outcomes, Vnis
    <2> QED
        BY <2>1, <2>2 DEF Put
<1>4. PICK rec \in JobStates : /\ job' = [job EXCEPT ![j] = rec]
                               /\ rec.op = job[j].op /\ rec.vni = vni
                               /\ rec.pc = outcome
    BY <1>1, <1>3, ExitTyped
<1>5. TypeOK'
    BY <1>1, <1>2, <1>4 DEF TypeOK
<1>6. UniqueVnis'
    <2>1. /\ ledger'.allocated = [ledger.allocated EXCEPT ![job[j].key] = job[j].vni]
          /\ job[j].key \in Keys
          /\ ledger.allocated \in [Keys -> Vnis]
        BY <1>1, PutWrites DEF Ledgers
    <2>2. job[j].vni = NoVni \/ \A k \in Keys : ledger.allocated[k] # job[j].vni
        BY <1>1, PutWrites DEF Free, Used
    <2> QED
        BY <2>1, <2>2 DEF IInv, UniqueVnis
<1>7. ReadIsStored' /\ ChangeApplies'
    BY <1>1 DEF ReadIsStored, ChangeApplies
<1>8. ReleaseHasNone' /\ AttemptLeft'
    BY <1>1, <1>3, <1>4 DEF IInv, TypeOK, ReleaseHasNone, AttemptLeft, Outcomes
<1> QED
    BY <1>5, <1>6, <1>7, <1>8 DEF IInv

LEMMA PutConflictInv ==
    ASSUME IInv, NEW j \in Jobs, PutConflict(j)
    PROVE  IInv'
<1> DEFINE rec == [job[j] EXCEPT !.pc = "get", !.vni = NoVni,
                                 !.attempts = job[j].attempts + 1,
                                 !.read = EmptyLedger]
<1>1. /\ j \notin current /\ current' = current /\ ledger' = ledger
      /\ job' = [job EXCEPT ![j] = rec]
    BY DEF PutConflict
<1>2. job[j] \in JobStates /\ job[j].attempts + 1 \in 0..MaxAttempts
    BY MaxAttemptsAssumption
    DEF PutConflict, IInv, TypeOK, AttemptLeft, JobStates
<1>3. EmptyLedger \in Ledgers /\ NoVni \in Vnis
    BY EmptyIsLedger DEF Vnis
<1>4. rec \in JobStates /\ rec.vni = NoVni /\ rec.pc # "put"
    BY <1>2, <1>3 DEF JobStates
<1> HIDE DEF rec
<1> QED
    BY <1>1, <1>4, QuietStep

LEMMA GiveUpInv ==
    ASSUME IInv, NEW j \in Jobs, GiveUp(j)
    PROVE  IInv'
BY QuietExit, NotCurrent DEF GiveUp, Outcomes, Vnis

LEMMA FailInv ==
    ASSUME IInv, NEW j \in Jobs, Fail(j)
    PROVE  IInv'
BY QuietExit DEF Fail, Outcomes, Vnis

LEMMA NextInv == IInv /\ [Next]_vars => IInv'
<1> SUFFICES ASSUME IInv, [Next]_vars PROVE IInv'
    OBVIOUS
<1>1. ASSUME NEW j \in Jobs, Start(j) \/ Step(j) \/ Fail(j)
      PROVE  IInv'
    BY <1>1, StartInv, GetToAllocateInv, GetToReleaseInv, PutInv,
       PutConflictInv, GiveUpInv, FailInv DEF Step
<1>2. CASE UNCHANGED vars
    BY <1>2 DEF vars, IInv, TypeOK, UniqueVnis, ReadIsStored, ChangeApplies,
                ReleaseHasNone, AttemptLeft, Free, Used
<1> QED
    BY <1>1, <1>2 DEF Next

-----------------------------------------------------------------------------
(* Theorems *)

LEMMA Invariant == Spec => []IInv
BY InitInv, NextInv, PTL DEF Spec

\* Every variable keeps its type; in particular every VNI the ledger gives a
\* network lies in the fabric's pool, and so does the next scan's start.
THEOREM TypeCorrect == Spec => []TypeOK
<1>1. IInv => TypeOK
    BY DEF IInv
<1> QED
    BY <1>1, Invariant, PTL

\* Concurrent allocations and releases never give two networks one VNI.
THEOREM VnisAreUnique == Spec => []UniqueVnis
<1>1. IInv => UniqueVnis
    BY DEF IInv
<1> QED
    BY <1>1, Invariant, PTL

\* What a script that exits 0 has printed is what the ledger then says.
THEOREM TrueReports == Spec => ReportsAreTrue
<1> DEFINE Report(j) ==
        job[j].pc # "done" /\ job'[j].pc = "done" =>
            ledger'.allocated[job[j].key] = job'[j].vni
<1>1. ASSUME IInv, [Next]_vars
      PROVE  [\A j \in Jobs : Report(j)]_vars
    <2> SUFFICES ASSUME NEW i \in Jobs, Start(i) \/ Step(i) \/ Fail(i)
                 PROVE  \A j \in Jobs : Report(j)
        BY <1>1 DEF Next
    <2>1. TypeOK /\ job[i] \in JobStates
        BY <1>1 DEF IInv, TypeOK
    <2>2. ASSUME NEW j \in Jobs \ {i} PROVE job'[j] = job[j]
        BY <2>1 DEF TypeOK, Step, Start, GetToAllocate, GetToRelease, Put,
                    PutConflict, GiveUp, Fail, Exit, Decide
    <2>3. Report(i)
        <3>1. CASE Start(i)
            BY <2>1, <3>1 DEF Start, TypeOK, JobStates
        <3>2. CASE Fail(i)
            BY <2>1, <3>2 DEF Fail, Exit, TypeOK, JobStates
        <3>3. CASE GetToAllocate(i)
            BY <2>1, <3>3 DEF GetToAllocate, Exit, Decide, TypeOK, JobStates
        <3>4. CASE GetToRelease(i)
            BY <2>1, <3>4 DEF GetToRelease, Exit, Decide, TypeOK, JobStates
        <3>5. CASE Put(i)
            <4>1. /\ ledger'.allocated = [ledger.allocated EXCEPT ![job[i].key] = job[i].vni]
                  /\ job[i].key \in Keys /\ ledger.allocated \in [Keys -> Vnis]
                BY <1>1, <3>5, PutWrites DEF Put, IInv, TypeOK, Ledgers
            <4>2. CASE Exit(i, "done", job[i].vni)
                <5>1. job'[i].vni = job[i].vni
                    BY <2>1, <4>2 DEF Exit, TypeOK, JobStates
                <5> QED
                    BY <4>1, <5>1
            <4>3. CASE Exit(i, "error", NoVni)
                BY <2>1, <4>3 DEF Exit, TypeOK, JobStates
            <4> QED
                BY <3>5, <4>2, <4>3 DEF Put
        <3>6. CASE PutConflict(i)
            BY <2>1, <3>6 DEF PutConflict, TypeOK, JobStates
        <3>7. CASE GiveUp(i)
            BY <2>1, <3>7 DEF GiveUp, Exit, TypeOK, JobStates
        <3> QED
            BY <3>1, <3>2, <3>3, <3>4, <3>5, <3>6, <3>7 DEF Step
    <2> QED
        BY <2>2, <2>3
<1> QED
    BY <1>1, Invariant, PTL DEF Spec, ReportsAreTrue

\* "Pool exhausted" is the answer to a ledger that has no number left, wherever
\* its scan started (the scan of fabric_numbering_allocate.yml, exit 2).
THEOREM ExhaustionIsTrue == Spec => ExhaustedMeansFull
<1> DEFINE Report(j) ==
        job[j].pc # "exhausted" /\ job'[j].pc = "exhausted" => Used(ledger) = Pool
<1>1. ASSUME IInv, [Next]_vars
      PROVE  [\A j \in Jobs : Report(j)]_vars
    <2> SUFFICES ASSUME NEW i \in Jobs, Start(i) \/ Step(i) \/ Fail(i)
                 PROVE  \A j \in Jobs : Report(j)
        BY <1>1 DEF Next
    <2>1. TypeOK /\ job[i] \in JobStates /\ ledger \in Ledgers
        BY <1>1 DEF IInv, TypeOK
    <2>2. ASSUME NEW j \in Jobs \ {i} PROVE job'[j] = job[j]
        BY <2>1 DEF TypeOK, Step, Start, GetToAllocate, GetToRelease, Put,
                    PutConflict, GiveUp, Fail, Exit, Decide
    <2>3. CASE GetToAllocate(i)
        <3>1. Choice(ledger, job[i].preferred) = {} => Used(ledger) = Pool
            BY <2>1, NoChoiceIsFull DEF JobStates
        <3>2. Choice(ledger, job[i].preferred) # {} => job'[i].pc # "exhausted"
            BY <2>1, <2>3 DEF GetToAllocate, Exit, Decide, TypeOK, JobStates
        <3> QED
            BY <2>2, <3>1, <3>2
    <2>4. CASE ~ GetToAllocate(i)
        <3> SUFFICES job'[i].pc # "exhausted"
            BY <2>2
        <3>1. CASE Start(i)
            BY <2>1, <3>1 DEF Start, TypeOK, JobStates, Outcomes
        <3>2. CASE Fail(i) \/ GiveUp(i)
            BY <2>1, <3>2 DEF Fail, GiveUp, Exit, TypeOK, JobStates, Outcomes
        <3>3. CASE GetToRelease(i)
            <4>1. CASE Exit(i, "done", NoVni)
                BY <2>1, <4>1 DEF Exit, TypeOK, JobStates
            <4>2. CASE Decide(i, NoVni)
                BY <2>1, <4>2 DEF Decide, TypeOK, JobStates
            <4> QED
                BY <3>3, <4>1, <4>2 DEF GetToRelease
        <3>4. CASE Put(i)
            BY <2>1, <3>4 DEF Put, Exit, TypeOK, JobStates
        <3>5. CASE PutConflict(i)
            BY <2>1, <3>5 DEF PutConflict, TypeOK, JobStates
        <3> QED
            BY <2>4, <3>1, <3>2, <3>3, <3>4, <3>5 DEF Step
    <2> QED
        BY <2>3, <2>4
<1> QED
    BY <1>1, Invariant, PTL DEF Spec, ExhaustedMeansFull

\* The ledger, its scripts and their conflicts implement the numbering that
\* VniAllocator promises.
THEOREM LedgerImplementsAllocator == Spec => ImplementsAllocator
<1>1. Init => Allocator!Init
    BY DEF Init, EmptyLedger, Allocator!Init, NoVni, Allocator!NoVni
<1>2. ASSUME IInv, [Next]_vars
      PROVE  [Allocator!Next]_(ledger.allocated)
    <2>1. ASSUME NEW j \in Jobs, Put(j)
          PROVE  Allocator!Next
        <3>1. /\ ledger'.allocated = [ledger.allocated EXCEPT ![job[j].key] = job[j].vni]
              /\ job[j].key \in Keys
              /\ job[j].op = "allocate" => /\ ledger.allocated[job[j].key] = NoVni
                                           /\ job[j].vni \in Free(ledger)
              /\ job[j].op # "allocate" => /\ ledger.allocated[job[j].key] # NoVni
                                           /\ job[j].vni = NoVni
            BY <1>2, <2>1, PutWrites DEF Put
        <3>2. CASE job[j].op = "allocate"
            <4>1. Allocator!Allocate(job[j].key)
                BY <3>1, <3>2 DEF Allocator!Allocate, Allocator!Pool, Allocator!Held,
                    Allocator!NoVni, NoVni, Free, Used, Pool
            <4> QED
                BY <3>1, <4>1 DEF Allocator!Next
        <3>3. CASE job[j].op # "allocate"
            <4>1. Allocator!Release(job[j].key)
                BY <3>1, <3>3 DEF Allocator!Release, Allocator!NoVni, NoVni
            <4> QED
                BY <3>1, <4>1 DEF Allocator!Next
        <3> QED
            BY <3>2, <3>3
    <2>2. ASSUME NEW j \in Jobs, ~ Put(j), Start(j) \/ Step(j) \/ Fail(j)
          PROVE  UNCHANGED ledger
        BY <2>2 DEF Start, Step, GetToAllocate, GetToRelease, PutConflict, GiveUp, Fail
    <2> QED
        BY <1>2, <2>1, <2>2 DEF Next, vars
<1> QED
    BY <1>1, <1>2, Invariant, PTL DEF Spec, ImplementsAllocator, Allocator!Spec
=============================================================================
