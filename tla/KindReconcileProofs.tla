------------------------ MODULE KindReconcileProofs -------------------------
(***************************************************************************)
(* For all bounds: every field keeps its range (TypeCorrect), the tracked  *)
(* generation is the generation the tracked job was launched for           *)
(* (GenerationTracked), and one setting of reconcileNow launches at most   *)
(* one job (NowOncePerSet).                                                *)
(*                                                                         *)
(* When AAP never shows a tracked job as new: the finalizer is removed     *)
(* only after a teardown has completed (FinalizerHeld), no job that may    *)
(* still report is forgotten but one that was overdue or that a deletion   *)
(* overtook (NoJobEscapes), and a resource whose runs nothing disturbed is *)
(* left alone as ready only when a playbook has applied its generation     *)
(* (EndedMeansApplied).                                                    *)
(*                                                                         *)
(* The invariants behind them: GInv; FInv; NInv (every forced launch, done *)
(* or about to be, has its setting); UInv, on FInv (what a run about to    *)
(* launch knows of the job it forgets); EInv, on GInv and UInv             *)
(* (status.ready is a report of the tracked job).                          *)
(***************************************************************************)
EXTENDS KindReconcile, TLAPS

-----------------------------------------------------------------------------
(* Types *)

\* The range of JobGeneration.
LEMMA JobGenerationType ==
    ASSUME TypeOK
    PROVE  JobGeneration \in Gens
BY DEF TypeOK, Runs, JobGeneration, GensOrNone

LEMMA IdleRunType == IdleRun \in Runs
BY BoundsAssumption
DEF IdleRun, Runs, NoJob, NoGen, Gens, GensOrNone, JobStatuses, JobIds

LEMMA TypeInit == Init => TypeOK
<1> SUFFICES ASSUME Init PROVE TypeOK
    OBVIOUS
<1>1. /\ 1 \in Gens /\ 1 \in JobIds /\ NoGen \in GensOrNone
      /\ 1 \in GensOrNone /\ NoJob \in JobIds \cup {NoJob}
    BY BoundsAssumption DEF Gens, JobIds, GensOrNone
<1>2. NewCr \in Crs /\ UnusedJob \in Jobs
    BY <1>1 DEF NewCr, Crs, UnusedJob, Jobs, JobStatuses
<1>3. cr \in Crs
    <2>1. [NewCr EXCEPT !.ready = TRUE, !.observed = 1, !.job = 1] \in Crs
        BY <1>1, <1>2 DEF Crs
    <2> QED
        BY <1>2, <2>1 DEF Init
<1>4. jobs \in [JobIds -> Jobs]
    <2>1. [UnusedJob EXCEPT !.status = "successful", !.read = 1, !.result = "ready"] \in Jobs
        BY <1>1, <1>2 DEF Jobs, JobStatuses, Ended
    <2> QED
        BY <1>2, <2>1 DEF Init
<1>5. hist \in Histories
    BY <1>1, BoundsAssumption DEF Init, Histories
<1> QED
    BY <1>3, <1>4, <1>5, IdleRunType DEF Init, TypeOK

\* A step of a user or of the installation.
LEMMA TypeUser ==
    ASSUME TypeOK, User \/ InstallAap
    PROVE  TypeOK'
<1>1. CASE Edit
    <2>1. cr.gen + 1 \in Gens
        BY <1>1, BoundsAssumption DEF Edit, TypeOK, Crs, Gens
    <2>2. cr' \in Crs
        BY <1>1, <2>1 DEF Edit, TypeOK, Crs
    <2> QED
        BY <1>1, <2>2 DEF Edit, TypeOK
<1>2. CASE SetNow
    <2>1. cr' \in Crs
        BY <1>2 DEF SetNow, TypeOK, Crs
    <2>2. hist' \in Histories
        BY <1>2, BoundsAssumption DEF SetNow, TypeOK, Histories
    <2> QED
        BY <1>2, <2>1, <2>2 DEF SetNow, TypeOK
<1>3. CASE Delete
    <2>1. cr' \in Crs
        BY <1>3 DEF Delete, TypeOK, Crs
    <2> QED
        BY <1>3, <2>1 DEF Delete, TypeOK
<1>4. CASE InstallAap
    BY <1>4, IdleRunType DEF InstallAap, TypeOK
<1> QED
    BY <1>1, <1>2, <1>3, <1>4 DEF User

LEMMA TypeOperator ==
    ASSUME TypeOK, Operator
    PROVE  TypeOK'
<1>0. cr \in Crs /\ run \in Runs /\ JobGeneration \in Gens
    BY JobGenerationType DEF TypeOK
<1>1. CASE StartRun
    <2>2. run' \in Runs
        <3>1. PICK retry \in BOOLEAN, pc \in {"release", "clear", "query"} :
                 run' = [IdleRun EXCEPT
                           !.pc = pc, !.gen = cr.gen, !.deleting = cr.deleting,
                           !.ready = cr.ready, !.retry = retry,
                           !.job = cr.job, !.jobGen = cr.jobGen]
            BY <1>1 DEF StartRun
        <3>2. /\ cr.gen \in Gens /\ cr.deleting \in BOOLEAN /\ cr.ready \in BOOLEAN
              /\ cr.job \in JobIds \cup {NoJob} /\ cr.jobGen \in GensOrNone
            BY <1>0 DEF Crs
        <3> QED
            BY <3>1, <3>2, IdleRunType DEF Runs
    <2> QED
        BY <1>1, <2>2 DEF StartRun, TypeOK
<1>2. CASE ClearNow
    <2>1. cr' \in Crs
        BY <1>0, <1>2 DEF ClearNow, Crs, Runs, GensOrNone
    <2>2. run' \in Runs
        BY <1>0, <1>2, IdleRunType DEF ClearNow, Runs
    <2> QED
        BY <1>2, <2>1, <2>2 DEF ClearNow, TypeOK
<1>3. CASE NoCredentials
    <2>1. cr' \in Crs
        BY <1>0, <1>3 DEF NoCredentials, Crs, Runs, GensOrNone
    <2>2. run' \in Runs
        BY <1>0, <1>3, IdleRunType DEF NoCredentials, Runs
    <2> QED
        BY <1>3, <2>1, <2>2 DEF NoCredentials, TypeOK
<1>4. CASE QueryJob
    <2>2. run' \in Runs
        <3>1. run.job # NoJob =>
                 jobs[run.job].status \in JobStatuses /\ jobs[run.job].overdue \in BOOLEAN
            BY <1>0 DEF TypeOK, Runs, Jobs
        <3>2. PICK seen \in JobStatuses \cup {"none"},
                   teardown \in BOOLEAN, overdue \in BOOLEAN :
                 run' = [run EXCEPT !.pc = "decide", !.seen = seen,
                                    !.teardown = teardown, !.overdue = overdue]
            BY <1>4, <3>1, Zenon DEF QueryJob
        <3> QED
            BY <1>0, <3>2 DEF Runs
    <2> QED
        BY <1>4, <2>2 DEF QueryJob, TypeOK
<1>5. CASE RecordSuccess
    <2>1. cr' \in Crs
        BY <1>0, <1>5 DEF RecordSuccess, Crs, Runs, GensOrNone
    <2>2. run' \in Runs
        BY <1>0, <1>5, IdleRunType DEF RecordSuccess, Runs
    <2> QED
        BY <1>5, <2>1, <2>2 DEF RecordSuccess, TypeOK
<1>6. CASE KeepSuccess
    <2>1. cr' \in Crs
        BY <1>0, <1>6 DEF KeepSuccess, Crs, Runs, GensOrNone
    <2>2. run' \in Runs
        BY <1>0, <1>6, IdleRunType DEF KeepSuccess, Runs
    <2> QED
        BY <1>6, <2>1, <2>2 DEF KeepSuccess, TypeOK
<1>7. CASE WaitForJob
    <2>1. cr' \in Crs
        BY <1>0, <1>7 DEF WaitForJob, Crs, Runs, GensOrNone
    <2>2. run' \in Runs
        BY <1>0, <1>7, IdleRunType DEF WaitForJob, Runs
    <2> QED
        BY <1>7, <2>1, <2>2 DEF WaitForJob, TypeOK
<1>8. CASE CancelJob
    <2>2. run' \in Runs
        BY <1>0, <1>8, IdleRunType DEF CancelJob, Runs
    <2>3. jobs' \in [JobIds -> Jobs]
        <3>1. CASE run.job \in JobIds
            <4>1. [jobs[run.job] EXCEPT !.cancelled = TRUE] \in Jobs
                BY <3>1 DEF TypeOK, Jobs
            <4> QED
                BY <1>8, <4>1 DEF CancelJob, TypeOK
        <3>2. CASE run.job \notin JobIds
            BY <1>8, <3>2 DEF CancelJob, TypeOK
        <3> QED
            BY <3>1, <3>2
    <2> QED
        BY <1>8, <2>2, <2>3 DEF CancelJob, TypeOK
<1>9. CASE AwaitCompletion
    <2>1. cr' \in Crs
        <3>1. [cr EXCEPT !.phase = "reconciling", !.ready = FALSE,
                         !.observed = run.gen, !.jobGen = JobGeneration] \in Crs
            BY <1>0 DEF Crs, Runs, GensOrNone
        <3> QED
            BY <1>0, <1>9, <3>1 DEF AwaitCompletion
    <2>2. run' \in Runs
        BY <1>0, <1>9, IdleRunType DEF AwaitCompletion, Runs
    <2> QED
        BY <1>9, <2>1, <2>2 DEF AwaitCompletion, TypeOK
<1>10. CASE TemplateMissing
    <2>1. cr' \in Crs
        BY <1>0, <1>10 DEF TemplateMissing, Crs, Runs, GensOrNone
    <2>2. run' \in Runs
        BY <1>0, <1>10, IdleRunType DEF TemplateMissing, Runs
    <2> QED
        BY <1>10, <2>1, <2>2 DEF TemplateMissing, TypeOK
<1>11. CASE LaunchJob
    <2>2. run' \in Runs
        <3>1. PICK n \in JobIds : run' = [run EXCEPT !.pc = "track", !.launched = n]
            BY <1>11 DEF LaunchJob
        <3> QED
            BY <1>0, <3>1 DEF Runs
    <2>3. jobs' \in [JobIds -> Jobs]
        <3>1. PICK n \in JobIds :
                 jobs' = [jobs EXCEPT ![n] =
                           [UnusedJob EXCEPT
                              !.status = IF ShowsNew THEN "new" ELSE "pending",
                              !.kind = IF run.deleting THEN "teardown" ELSE "provision",
                              !.gen = run.gen]]
            BY <1>11 DEF LaunchJob
        <3>2. run.gen \in Gens
            BY <1>0 DEF Runs
        <3>3. [UnusedJob EXCEPT
                 !.status = IF ShowsNew THEN "new" ELSE "pending",
                 !.kind = IF run.deleting THEN "teardown" ELSE "provision",
                 !.gen = run.gen] \in Jobs
            BY <3>2 DEF Jobs, JobStatuses, Active, UnusedJob, GensOrNone, NoGen
        <3> QED
            BY <3>1, <3>3 DEF TypeOK
    <2>4. hist' \in Histories
        BY <1>11 DEF LaunchJob, TypeOK, Histories
    <2> QED
        BY <1>11, <2>2, <2>3, <2>4 DEF LaunchJob, TypeOK
<1>12. CASE TrackJob
    <2>1. cr' \in Crs
        BY <1>0, <1>12 DEF TrackJob, Crs, Runs, GensOrNone
    <2>2. run' \in Runs
        BY <1>0, <1>12, IdleRunType DEF TrackJob, Runs
    <2> QED
        BY <1>12, <2>1, <2>2 DEF TrackJob, TypeOK
<1>13. CASE FallThrough
    <2>1. cr' \in Crs
        BY <1>0, <1>13 DEF FallThrough, Crs, Runs, GensOrNone
    <2>2. run' \in Runs
        BY <1>0, <1>13, IdleRunType DEF FallThrough, Runs
    <2> QED
        BY <1>13, <2>1, <2>2 DEF FallThrough, TypeOK
<1>14. CASE WaitTeardown
    <2>2. run' \in Runs
        BY <1>0, <1>14, IdleRunType DEF WaitTeardown, Runs
    <2> QED
        BY <1>14, <2>2 DEF WaitTeardown, TypeOK
<1>15. CASE ReleaseFinalizer
    <2>1. cr' \in Crs
        BY <1>0, <1>15 DEF ReleaseFinalizer, Crs, Runs, GensOrNone
    <2>2. run' \in Runs
        BY <1>0, <1>15, IdleRunType DEF ReleaseFinalizer, Runs
    <2> QED
        BY <1>15, <2>1, <2>2 DEF ReleaseFinalizer, TypeOK
<1> QED
    BY <1>1, <1>2, <1>3, <1>4, <1>5, <1>6, <1>7, <1>8, <1>9, <1>10, <1>11,
       <1>12, <1>13, <1>14, <1>15 DEF Operator

LEMMA JobChangeType ==
    ASSUME TypeOK, NEW j \in JobIds, NEW rec \in Jobs, jobs' = [jobs EXCEPT ![j] = rec]
    PROVE  jobs' \in [JobIds -> Jobs]
BY DEF TypeOK

LEMMA TypeJob ==
    ASSUME TypeOK, NEW j \in JobIds, Playbook(j) \/ Mishap(j)
    PROVE  TypeOK'
<1>0. jobs[j] \in Jobs /\ cr \in Crs
    BY DEF TypeOK
<1>1. CASE AcceptJob(j)
    <2>1. jobs' \in [JobIds -> Jobs]
        BY <1>0, <1>1 DEF AcceptJob, TypeOK, Jobs, JobStatuses, Active, Ended
    <2> QED
        BY <1>1, <2>1 DEF AcceptJob, TypeOK
<1>2. CASE StartPlaybook(j)
    <2>1. jobs' \in [JobIds -> Jobs]
        BY <1>0, <1>2 DEF StartPlaybook, TypeOK, Jobs, JobStatuses, Active, Ended, Crs,
                           GensOrNone
    <2> QED
        BY <1>2, <2>1 DEF StartPlaybook, TypeOK
<1>3. CASE ReportReady(j)
    <2>1. jobs' \in [JobIds -> Jobs]
        BY <1>0, <1>3 DEF ReportReady, TypeOK, Jobs, JobStatuses, Active, Ended
    <2>2. cr' \in Crs
        <3>1. PICK phase \in {cr.phase, "ready"} :
                 cr' = IF cr.exists
                       THEN [cr EXCEPT !.ready = TRUE, !.phase = phase,
                                       !.observed = jobs[j].read]
                       ELSE cr
            BY <1>3 DEF ReportReady
        <3> QED
            BY <1>0, <3>1 DEF Crs, Jobs
    <2>3. hist' \in Histories
        BY <1>0, <1>3, BoundsAssumption DEF ReportReady, TypeOK, Jobs, Histories
    <2> QED
        BY <1>3, <2>1, <2>2, <2>3 DEF ReportReady, TypeOK
<1>4. CASE ReportNotReady(j)
    <2>1. jobs' \in [JobIds -> Jobs]
        BY <1>0, <1>4 DEF ReportNotReady, TypeOK, Jobs, JobStatuses, Active, Ended
    <2>2. cr' \in Crs
        BY <1>0, <1>4 DEF ReportNotReady, Reporting, Crs, Jobs, GensOrNone
    <2>3. hist' \in Histories
        BY <1>0, <1>4, BoundsAssumption DEF ReportNotReady, TypeOK, Jobs, Histories
    <2> QED
        BY <1>4, <2>1, <2>2, <2>3 DEF ReportNotReady, TypeOK
<1>5. CASE ReportComplete(j)
    <2>1. jobs' \in [JobIds -> Jobs]
        BY <1>0, <1>5 DEF ReportComplete, TypeOK, Jobs, JobStatuses, Active, Ended
    <2>2. cr' \in Crs
        BY <1>0, <1>5 DEF ReportComplete, Reporting, Crs, Jobs, GensOrNone
    <2>3. hist' \in Histories
        BY <1>0, <1>5, BoundsAssumption DEF ReportComplete, TypeOK, Jobs, Histories
    <2> QED
        BY <1>5, <2>1, <2>2, <2>3 DEF ReportComplete, TypeOK
<1>6. CASE ReportTeardownFailed(j)
    <2>1. jobs' \in [JobIds -> Jobs]
        BY <1>0, <1>6 DEF ReportTeardownFailed, TypeOK, Jobs, JobStatuses, Active, Ended
    <2>2. cr' \in Crs
        BY <1>0, <1>6 DEF ReportTeardownFailed, Reporting, Crs, Jobs, GensOrNone
    <2>3. hist' \in Histories
        BY <1>0, <1>6, BoundsAssumption DEF ReportTeardownFailed, TypeOK, Jobs, Histories
    <2> QED
        BY <1>6, <2>1, <2>2, <2>3 DEF ReportTeardownFailed, TypeOK
<1>7. CASE ReportMissing(j)
    <2>1. jobs' \in [JobIds -> Jobs]
        BY <1>0, <1>7 DEF ReportMissing, TypeOK, Jobs, JobStatuses, Active, Ended
    <2> QED
        BY <1>7, <2>1 DEF ReportMissing, TypeOK
<1>8. CASE EndJob(j)
    <2>1. jobs' \in [JobIds -> Jobs]
        BY <1>0, <1>8 DEF EndJob, TypeOK, Jobs, JobStatuses, Active, Ended
    <2> QED
        BY <1>8, <2>1 DEF EndJob, TypeOK
<1>9. CASE StopCancelled(j)
    <2>1. jobs' \in [JobIds -> Jobs]
        BY <1>0, <1>9 DEF StopCancelled, TypeOK, Jobs, JobStatuses, Active, Ended
    <2> QED
        BY <1>9, <2>1 DEF StopCancelled, TypeOK
<1>10. CASE KillJob(j)
    <2>1. jobs' \in [JobIds -> Jobs]
        BY <1>0, <1>10 DEF KillJob, TypeOK, Jobs, JobStatuses, Active, Ended
    <2>3. hist' \in Histories
        BY <1>0, <1>10, BoundsAssumption DEF KillJob, TypeOK, Jobs, Histories
    <2> QED
        BY <1>10, <2>1, <2>3 DEF KillJob, TypeOK
<1>11. CASE GoOverdue(j)
    <2>1. jobs' \in [JobIds -> Jobs]
        BY <1>0, <1>11 DEF GoOverdue, TypeOK, Jobs, JobStatuses, Active, Ended
    <2>3. hist' \in Histories
        BY <1>0, <1>11, BoundsAssumption DEF GoOverdue, TypeOK, Jobs, Histories
    <2> QED
        BY <1>11, <2>1, <2>3 DEF GoOverdue, TypeOK
<1>12. CASE PurgeJob(j)
    <2>1. jobs' \in [JobIds -> Jobs]
        BY <1>0, <1>12 DEF PurgeJob, TypeOK, Jobs, JobStatuses, Active, Ended
    <2>3. hist' \in Histories
        BY <1>0, <1>12, BoundsAssumption DEF PurgeJob, TypeOK, Jobs, Histories
    <2> QED
        BY <1>12, <2>1, <2>3 DEF PurgeJob, TypeOK
<1> QED
    BY <1>1, <1>2, <1>3, <1>4, <1>5, <1>6, <1>7, <1>8, <1>9, <1>10, <1>11,
       <1>12 DEF Playbook, Mishap

LEMMA TypeInterrupt ==
    ASSUME TypeOK, Interrupt
    PROVE  TypeOK'
<1>1. hist' \in Histories
    BY BoundsAssumption DEF Interrupt, TypeOK, Histories
<1> QED
    BY <1>1, IdleRunType DEF Interrupt, TypeOK

LEMMA TypeStep == TypeOK /\ [Next]_vars => TypeOK'
<1> SUFFICES ASSUME TypeOK, [Next]_vars PROVE TypeOK'
    OBVIOUS
<1>1. CASE UNCHANGED vars
    BY <1>1 DEF vars, TypeOK
<1> QED
    BY <1>1, TypeUser, TypeOperator, TypeJob, TypeInterrupt DEF Next

\* Every field of the resource, of the run and of the jobs keeps its range.
THEOREM TypeCorrect == Spec => []TypeOK
BY TypeInit, TypeStep, PTL DEF Spec

-----------------------------------------------------------------------------
(* What the steps of users, jobs and the installation leave alone *)

\* Only the operator's run changes the tracked job, its generation and the
\* finalizer; the generation of a job is fixed at its launch.
LEMMA OthersKeepTracking ==
    ASSUME TypeOK,
           \/ User \/ InstallAap \/ Interrupt
           \/ \E j \in JobIds : Playbook(j) \/ Mishap(j)
    PROVE  /\ cr'.job = cr.job /\ cr'.jobGen = cr.jobGen /\ cr'.exists = cr.exists
           /\ \A j \in JobIds : jobs'[j].gen = jobs[j].gen
           /\ run' = run \/ run' = IdleRun
<1> USE DEF TypeOK, Crs, Jobs
<1>1. CASE User
    BY <1>1 DEF User, Edit, SetNow, Delete
<1>2. CASE InstallAap
    BY <1>2 DEF InstallAap
<1>3. CASE Interrupt
    BY <1>3 DEF Interrupt
<1>4. ASSUME NEW j \in JobIds, Playbook(j) \/ Mishap(j)
      PROVE  /\ cr'.job = cr.job /\ cr'.jobGen = cr.jobGen /\ cr'.exists = cr.exists
             /\ \A i \in JobIds : jobs'[i].gen = jobs[i].gen
             /\ run' = run
    <2>1. CASE AcceptJob(j)
        BY <2>1 DEF AcceptJob
    <2>2. CASE StartPlaybook(j)
        BY <2>2 DEF StartPlaybook
    <2>3. CASE ReportReady(j)
        BY <2>3 DEF ReportReady
    <2>4. CASE ReportNotReady(j)
        BY <2>4 DEF ReportNotReady
    <2>5. CASE ReportComplete(j)
        BY <2>5 DEF ReportComplete
    <2>6. CASE ReportTeardownFailed(j)
        BY <2>6 DEF ReportTeardownFailed
    <2>7. CASE ReportMissing(j)
        BY <2>7 DEF ReportMissing
    <2>8. CASE EndJob(j)
        BY <2>8 DEF EndJob
    <2>9. CASE StopCancelled(j)
        BY <2>9 DEF StopCancelled
    <2>10. CASE KillJob(j)
        BY <2>10 DEF KillJob
    <2>11. CASE GoOverdue(j)
        BY <2>11 DEF GoOverdue
    <2>12. CASE PurgeJob(j)
        BY <2>12 DEF PurgeJob
    <2> QED
        BY <1>4, <2>1, <2>2, <2>3, <2>4, <2>5, <2>6, <2>7, <2>8, <2>9, <2>10,
           <2>11, <2>12 DEF Playbook, Mishap
<1> QED
    BY <1>1, <1>2, <1>3, <1>4

-----------------------------------------------------------------------------
(* The tracked generation *)

\* Until a run launches, what it read of the tracked job is what the resource
\* says: no other step changes it.
SnapshotHolds ==
    run.pc \in {"clear", "query", "decide"} =>
        run.job = cr.job /\ run.jobGen = cr.jobGen

\* A run that is about to record its launch knows the job and its generation.
LaunchKnown ==
    run.pc = "track" =>
        run.launched \in JobIds /\ jobs[run.launched].gen = run.gen

GInv == TypeOK /\ TrackedGeneration /\ SnapshotHolds /\ LaunchKnown

LEMMA GInit == Init => GInv
<1> SUFFICES ASSUME Init PROVE GInv
    OBVIOUS
<1>1. TypeOK /\ run.pc = "idle"
    BY TypeInit DEF Init, IdleRun
<1>2. TrackedGeneration
    <2>1. CASE cr = NewCr
        BY <2>1 DEF TrackedGeneration, NewCr
    <2>2. CASE cr # NewCr
        <3>0. cr = [NewCr EXCEPT !.ready = TRUE, !.observed = 1, !.job = 1]
            BY <2>2 DEF Init
        <3>1. cr.job = 1 /\ 1 \in JobIds
            BY <3>0, BoundsAssumption DEF NewCr, JobIds
        <3>2. jobs[1].gen = NoGen
            BY <2>2, <3>1 DEF Init, UnusedJob
        <3> QED
            BY <3>1, <3>2 DEF TrackedGeneration
    <2> QED
        BY <2>1, <2>2
<1> QED
    BY <1>1, <1>2 DEF GInv, SnapshotHolds, LaunchKnown

\* A run that copies the generation of the tracked job copies it unchanged.
LEMMA CopyKeepsGeneration ==
    ASSUME GInv, run.pc = "decide", cr.job # NoJob, jobs[cr.job].gen # NoGen
    PROVE  JobGeneration = jobs[cr.job].gen
BY DEF GInv, TrackedGeneration, SnapshotHolds, JobGeneration

LEMMA GOperator ==
    ASSUME GInv, Operator
    PROVE  GInv'
<1>0. TypeOK'
    BY TypeOperator DEF GInv
<1> USE DEF TypeOK, Crs, Runs, IdleRun, TrackedGeneration, SnapshotHolds, LaunchKnown
<1>1. CASE StartRun
    <2>1. PICK retry \in BOOLEAN, pc \in {"release", "clear", "query"} :
             run' = [IdleRun EXCEPT
                       !.pc = pc, !.gen = cr.gen, !.deleting = cr.deleting,
                       !.ready = cr.ready, !.retry = retry,
                       !.job = cr.job, !.jobGen = cr.jobGen]
        BY <1>1 DEF StartRun
    <2> QED
        <3>1. run'.job = cr.job /\ run'.jobGen = cr.jobGen /\ run'.pc # "track"
            BY <2>1 DEF IdleRun
        <3>2. UNCHANGED <<cr, jobs>>
            BY <1>1 DEF StartRun
        <3> QED
            BY <1>0, <3>1, <3>2 DEF GInv
<1>2. CASE ClearNow
    <2>1. /\ run'.job = run.job /\ run'.jobGen = run.jobGen /\ run'.pc = "query"
          /\ cr'.job = cr.job /\ cr'.jobGen = cr.jobGen /\ jobs' = jobs
        BY <1>2 DEF GInv, ClearNow
    <2> QED
        BY <1>0, <1>2, <2>1 DEF GInv, ClearNow
<1>3. CASE NoCredentials
    BY <1>0, <1>3 DEF GInv, NoCredentials
<1>4. CASE QueryJob
    BY <1>0, <1>4 DEF GInv, QueryJob
<1>5. CASE RecordSuccess
    BY <1>0, <1>5, CopyKeepsGeneration DEF GInv, RecordSuccess, Settled, IsCurrent
<1>6. CASE KeepSuccess
    BY <1>0, <1>6, CopyKeepsGeneration DEF GInv, KeepSuccess
<1>7. CASE WaitForJob
    BY <1>0, <1>7, CopyKeepsGeneration DEF GInv, WaitForJob
<1>8. CASE CancelJob
    BY <1>0, <1>8 DEF GInv, CancelJob, Jobs
<1>9. CASE AwaitCompletion
    <2>1. /\ cr'.job = cr.job /\ jobs' = jobs /\ run'.pc \in {"release", "idle"}
          /\ cr'.jobGen \in {cr.jobGen, JobGeneration}
        <3>1. CASE cr.complete /\ run' = [run EXCEPT !.pc = "release"] /\ UNCHANGED cr
            BY <1>9, <3>1 DEF GInv, AwaitCompletion
        <3>2. CASE /\ cr' = [cr EXCEPT !.phase = "reconciling", !.ready = FALSE,
                                       !.observed = run.gen, !.jobGen = JobGeneration]
                   /\ run' = IdleRun
            BY <1>9, <3>2 DEF GInv, AwaitCompletion
        <3> QED
            BY <1>9, <3>1, <3>2 DEF AwaitCompletion
    <2> QED
        BY <1>0, <1>9, <2>1, CopyKeepsGeneration DEF GInv, AwaitCompletion
<1>10. CASE TemplateMissing
    BY <1>0, <1>10 DEF GInv, TemplateMissing
<1>11. CASE LaunchJob
    BY <1>0, <1>11 DEF GInv, LaunchJob, Reusable, UnusedJob, Jobs
<1>12. CASE TrackJob
    BY <1>0, <1>12 DEF GInv, TrackJob
<1>13. CASE FallThrough
    BY <1>0, <1>13 DEF GInv, FallThrough
<1>14. CASE WaitTeardown
    BY <1>0, <1>14 DEF GInv, WaitTeardown
<1>15. CASE ReleaseFinalizer
    BY <1>0, <1>15 DEF GInv, ReleaseFinalizer
<1> QED
    BY <1>1, <1>2, <1>3, <1>4, <1>5, <1>6, <1>7, <1>8, <1>9, <1>10, <1>11,
       <1>12, <1>13, <1>14, <1>15 DEF Operator

LEMMA GStep == GInv /\ [Next]_vars => GInv'
<1> SUFFICES ASSUME GInv, [Next]_vars PROVE GInv'
    OBVIOUS
<1>1. TypeOK'
    BY TypeStep DEF GInv
<1>2. CASE UNCHANGED vars
    BY <1>1, <1>2 DEF vars, GInv, TrackedGeneration, SnapshotHolds, LaunchKnown
<1>3. CASE Operator
    BY <1>3, GOperator
<1>4. CASE \/ User \/ InstallAap \/ Interrupt
           \/ \E j \in JobIds : Playbook(j) \/ Mishap(j)
    <2>1. /\ cr'.job = cr.job /\ cr'.jobGen = cr.jobGen
          /\ \A j \in JobIds : jobs'[j].gen = jobs[j].gen
          /\ run' = run \/ run' = IdleRun
        BY <1>4, OthersKeepTracking DEF GInv
    <2>2. TrackedGeneration'
        BY <2>1 DEF GInv, TypeOK, Crs, TrackedGeneration
    <2>3. SnapshotHolds' /\ LaunchKnown'
        BY <2>1 DEF GInv, SnapshotHolds, LaunchKnown, IdleRun
    <2> QED
        BY <1>1, <2>2, <2>3 DEF GInv
<1> QED
    BY <1>2, <1>3, <1>4 DEF Next

\* status.aapJob.generation is the generation the tracked job was launched
\* for, through every patch that copies it and whatever is interrupted.
THEOREM GenerationTracked == Spec => []TrackedGeneration
<1>1. GInv => TrackedGeneration
    BY DEF GInv
<1> QED
    BY GInit, GStep, <1>1, PTL DEF Spec

-----------------------------------------------------------------------------
(* The finalizer *)

\* deletionComplete, and a run on its way to the release, mean that a teardown
\* playbook has reported completion.
CompletionReported ==
    cr.complete \/ run.pc = "release" => hist.toreDown

\* Every job a run may look at has a status that some row of the launch table
\* names.
StatusesNamed ==
    /\ \A j \in JobIds : jobs[j].status # "new"
    /\ cr.job # NoJob => jobs[cr.job].status # "unused"
    /\ run.job # NoJob => jobs[run.job].status # "unused"
    /\ run.pc = "track" =>
          run.launched \in JobIds /\ jobs[run.launched].status # "unused"
    /\ run.pc = "decide" => run.seen \notin {"new", "unused"}

FInv == TypeOK /\ FinalizerWaitsForTeardown /\ CompletionReported /\ StatusesNamed

LEMMA FInit == Init => FInv
<1> SUFFICES ASSUME Init PROVE FInv
    OBVIOUS
<1>1. TypeOK /\ run = IdleRun
    BY TypeInit DEF Init
<1>2. cr.exists /\ ~ cr.complete
    <2>1. CASE cr = NewCr
        BY <2>1 DEF NewCr
    <2>2. CASE cr = [NewCr EXCEPT !.ready = TRUE, !.observed = 1, !.job = 1]
        BY <2>2 DEF NewCr
    <2> QED
        BY <2>1, <2>2 DEF Init
<1>3. CASE cr = NewCr /\ jobs = [j \in JobIds |-> UnusedJob]
    BY <1>1, <1>2, <1>3
    DEF FInv, FinalizerWaitsForTeardown, CompletionReported, StatusesNamed,
        NewCr, UnusedJob, IdleRun
<1>4. CASE ~ (cr = NewCr /\ jobs = [j \in JobIds |-> UnusedJob])
    <2>1. /\ cr = [NewCr EXCEPT !.ready = TRUE, !.observed = 1, !.job = 1]
          /\ jobs = [j \in JobIds |->
                       IF j = 1 THEN [UnusedJob EXCEPT !.status = "successful",
                                                       !.read = 1, !.result = "ready"]
                       ELSE UnusedJob]
        BY <1>4 DEF Init
    <2>2. cr.job = 1 /\ 1 \in JobIds
        BY <2>1, BoundsAssumption DEF NewCr, JobIds
    <2>3. /\ jobs[1].status = "successful"
          /\ \A j \in JobIds : jobs[j].status # "new"
        BY <2>1, <2>2 DEF UnusedJob
    <2> QED
        BY <1>1, <1>2, <2>2, <2>3
        DEF FInv, FinalizerWaitsForTeardown, CompletionReported, StatusesNamed, IdleRun
<1> QED
    BY <1>3, <1>4

\* Users, jobs and the installation create no new job, forget none, and report
\* completion only when a teardown playbook does.
LEMMA OthersKeepStatuses ==
    ASSUME TypeOK,
           \/ User \/ InstallAap \/ Interrupt
           \/ \E j \in JobIds : Playbook(j) \/ Mishap(j)
    PROVE  /\ \A j \in JobIds : /\ jobs'[j].status = "new" => jobs[j].status = "new"
                                /\ jobs'[j].status = "unused" => jobs[j].status = "unused"
           /\ cr'.complete => cr.complete \/ hist'.toreDown
           /\ hist.toreDown => hist'.toreDown
<1> USE DEF TypeOK, Crs, Jobs, Histories
<1>1. CASE User
    BY <1>1 DEF User, Edit, SetNow, Delete
<1>2. CASE InstallAap
    BY <1>2 DEF InstallAap
<1>3. CASE Interrupt
    BY <1>3 DEF Interrupt
<1>4. ASSUME NEW j \in JobIds, Playbook(j) \/ Mishap(j)
      PROVE  /\ \A i \in JobIds : /\ jobs'[i].status = "new" => jobs[i].status = "new"
                                  /\ jobs'[i].status = "unused" => jobs[i].status = "unused"
             /\ cr'.complete => cr.complete \/ hist'.toreDown
             /\ hist.toreDown => hist'.toreDown
    <2>1. CASE AcceptJob(j)
        BY <2>1 DEF AcceptJob
    <2>2. CASE StartPlaybook(j)
        BY <2>2 DEF StartPlaybook
    <2>3. CASE ReportReady(j)
        BY <2>3 DEF ReportReady
    <2>4. CASE ReportNotReady(j)
        BY <2>4 DEF ReportNotReady
    <2>5. CASE ReportComplete(j)
        BY <2>5 DEF ReportComplete
    <2>6. CASE ReportTeardownFailed(j)
        BY <2>6 DEF ReportTeardownFailed
    <2>7. CASE ReportMissing(j)
        BY <2>7 DEF ReportMissing
    <2>8. CASE EndJob(j)
        BY <2>8 DEF EndJob
    <2>9. CASE StopCancelled(j)
        BY <2>9 DEF StopCancelled
    <2>10. CASE KillJob(j)
        BY <2>10 DEF KillJob
    <2>11. CASE GoOverdue(j)
        BY <2>11 DEF GoOverdue
    <2>12. CASE PurgeJob(j)
        BY <2>12 DEF PurgeJob
    <2> QED
        BY <1>4, <2>1, <2>2, <2>3, <2>4, <2>5, <2>6, <2>7, <2>8, <2>9, <2>10,
           <2>11, <2>12 DEF Playbook, Mishap
<1> QED
    BY <1>1, <1>2, <1>3, <1>4

\* With every status named by the table, a deleting run never falls through.
LEMMA NoFallThroughOnDelete ==
    ASSUME FInv, FallThrough
    PROVE  ~ run.deleting
<1>1. run.seen \in {"none", "missing", "pending", "running", "successful", "failed"}
    BY DEF FInv, TypeOK, Runs, JobStatuses, Active, Ended, StatusesNamed, FallThrough
<1> QED
    BY <1>1 DEF FallThrough, NeedLaunch, InWindow, Succeeded, Running, Failed, Active

LEMMA FOperator ==
    ASSUME ~ ShowsNew, FInv, Operator
    PROVE  FInv'
<1>0. TypeOK'
    BY TypeOperator DEF FInv
<1> USE DEF TypeOK, Crs, Runs, IdleRun, FinalizerWaitsForTeardown,
            CompletionReported, StatusesNamed
<1>1. CASE StartRun
    <2>1. PICK retry \in BOOLEAN, pc \in {"release", "clear", "query"} :
             /\ pc = "release" => cr.complete
             /\ run' = [IdleRun EXCEPT
                          !.pc = pc, !.gen = cr.gen, !.deleting = cr.deleting,
                          !.ready = cr.ready, !.retry = retry,
                          !.job = cr.job, !.jobGen = cr.jobGen]
        BY <1>1 DEF StartRun
    <2>2. /\ run'.job = cr.job /\ run'.pc \in {"release", "clear", "query"}
          /\ run'.pc = "release" => cr.complete
        BY <2>1 DEF IdleRun
    <2>3. UNCHANGED <<cr, jobs, hist>>
        BY <1>1 DEF StartRun
    <2> QED
        BY <1>0, <2>2, <2>3 DEF FInv
<1>2. CASE ClearNow
    <2>1. /\ run'.job = run.job /\ run'.pc = "query"
          /\ cr'.job = cr.job /\ cr'.exists = cr.exists /\ cr'.complete = cr.complete
          /\ jobs' = jobs /\ hist' = hist
        BY <1>2 DEF FInv, ClearNow
    <2> QED
        BY <1>0, <2>1 DEF FInv
<1>3. CASE NoCredentials
    BY <1>0, <1>3 DEF FInv, NoCredentials
<1>4. CASE QueryJob
    BY <1>0, <1>4 DEF FInv, QueryJob
<1>5. CASE RecordSuccess
    BY <1>0, <1>5 DEF FInv, RecordSuccess
<1>6. CASE KeepSuccess
    BY <1>0, <1>6 DEF FInv, KeepSuccess
<1>7. CASE WaitForJob
    BY <1>0, <1>7 DEF FInv, WaitForJob
<1>8. CASE CancelJob
    BY <1>0, <1>8 DEF FInv, CancelJob, Jobs
<1>9. CASE AwaitCompletion
    <2>1. CASE cr.complete /\ run' = [run EXCEPT !.pc = "release"] /\ UNCHANGED cr
        BY <1>0, <1>9, <2>1 DEF FInv, AwaitCompletion
    <2>2. CASE /\ cr' = [cr EXCEPT !.phase = "reconciling", !.ready = FALSE,
                                   !.observed = run.gen, !.jobGen = JobGeneration]
               /\ run' = IdleRun
        BY <1>0, <1>9, <2>2 DEF FInv, AwaitCompletion
    <2> QED
        BY <1>9, <2>1, <2>2 DEF AwaitCompletion
<1>10. CASE TemplateMissing
    BY <1>0, <1>10 DEF FInv, TemplateMissing
<1>11. CASE LaunchJob
    BY <1>0, <1>11 DEF FInv, LaunchJob, Reusable, UnusedJob, Jobs, Histories
<1>12. CASE TrackJob
    BY <1>0, <1>12 DEF FInv, TrackJob
<1>13. CASE FallThrough
    BY <1>0, <1>13, NoFallThroughOnDelete DEF FInv, FallThrough
<1>14. CASE WaitTeardown
    BY <1>0, <1>14 DEF FInv, WaitTeardown
<1>15. CASE ReleaseFinalizer
    BY <1>0, <1>15 DEF FInv, ReleaseFinalizer
<1> QED
    BY <1>1, <1>2, <1>3, <1>4, <1>5, <1>6, <1>7, <1>8, <1>9, <1>10, <1>11,
       <1>12, <1>13, <1>14, <1>15 DEF Operator

LEMMA FStep == ~ ShowsNew /\ FInv /\ [Next]_vars => FInv'
<1> SUFFICES ASSUME ~ ShowsNew, FInv, [Next]_vars PROVE FInv'
    OBVIOUS
<1>1. TypeOK'
    BY TypeStep DEF FInv
<1>2. CASE UNCHANGED vars
    BY <1>1, <1>2 DEF vars, FInv, FinalizerWaitsForTeardown, CompletionReported,
                      StatusesNamed
<1>3. CASE Operator
    BY <1>3, FOperator
<1>4. CASE \/ User \/ InstallAap \/ Interrupt
           \/ \E j \in JobIds : Playbook(j) \/ Mishap(j)
    <2>1. /\ cr'.job = cr.job /\ cr'.exists = cr.exists
          /\ run' = run \/ run' = IdleRun
        BY <1>4, OthersKeepTracking DEF FInv
    <2>2. /\ \A j \in JobIds : /\ jobs'[j].status = "new" => jobs[j].status = "new"
                               /\ jobs'[j].status = "unused" => jobs[j].status = "unused"
          /\ cr'.complete => cr.complete \/ hist'.toreDown
          /\ hist.toreDown => hist'.toreDown
        BY <1>4, OthersKeepStatuses DEF FInv
    <2>3. FinalizerWaitsForTeardown' /\ CompletionReported'
        BY <2>1, <2>2 DEF FInv, FinalizerWaitsForTeardown, CompletionReported, IdleRun
    <2>4. StatusesNamed'
        <3>0. /\ \A j \in JobIds : jobs'[j].status # "new"
              /\ \A j \in JobIds : jobs[j].status # "unused" => jobs'[j].status # "unused"
              /\ cr.job \in JobIds \cup {NoJob} /\ cr'.job = cr.job
              /\ run.job \in JobIds \cup {NoJob}
            BY <2>1, <2>2 DEF FInv, TypeOK, Crs, Runs, StatusesNamed
        <3>1. CASE run' = run
            <4>1. /\ run'.job = run.job /\ run'.pc = run.pc
                  /\ run'.launched = run.launched /\ run'.seen = run.seen
                BY <3>1
            <4>2. StatusesNamed
                BY DEF FInv
            <4> QED
                BY <3>0, <4>1, <4>2 DEF StatusesNamed
        <3>2. CASE run' = IdleRun
            <4>1. run'.job = NoJob /\ run'.pc = "idle"
                BY <3>2 DEF IdleRun
            <4> QED
                BY <3>0, <4>1 DEF FInv, StatusesNamed
        <3> QED
            BY <2>1, <3>1, <3>2
    <2> QED
        BY <1>1, <2>3, <2>4 DEF FInv
<1> QED
    BY <1>2, <1>3, <1>4 DEF Next

\* When AAP never shows a tracked job as new, the finalizer is removed only
\* after a teardown playbook has reported completion, whatever fails, dies or
\* overlaps.
THEOREM FinalizerHeld ==
    ASSUME ~ ShowsNew
    PROVE  Spec => []FinalizerWaitsForTeardown
<1>1. FInv /\ [Next]_vars => FInv'
    BY FStep
<1>2. FInv => FinalizerWaitsForTeardown
    BY DEF FInv
<1> QED
    BY FInit, <1>1, <1>2, PTL DEF Spec

-----------------------------------------------------------------------------
(* reconcileNow *)

\* The annotation, and the right to one launch that a run got by removing it.
One(claim) == IF claim THEN 1 ELSE 0
Claims == One(cr.now) + One(run.force /\ run.pc \in {"query", "decide", "launch"})

\* A run only removes an annotation that is there, and launches over a success only
\* by the right it got.
ForceEarned ==
    /\ run.pc = "clear" => cr.now /\ ~ run.force
    /\ run.pc = "launch" /\ Succeeded /\ ~ run.deleting /\ run.ready /\ IsCurrent
          => run.force

NInv == TypeOK /\ ForceEarned /\ hist.forced + Claims <= hist.nows

LEMMA NInit == Init => NInv
<1> SUFFICES ASSUME Init PROVE NInv
    OBVIOUS
<1>1. TypeOK /\ run = IdleRun /\ ~ cr.now
    <2>1. CASE cr = NewCr
        BY <2>1, TypeInit DEF Init, NewCr
    <2>2. CASE cr = [NewCr EXCEPT !.ready = TRUE, !.observed = 1, !.job = 1]
        BY <2>2, TypeInit DEF Init, NewCr
    <2> QED
        BY <2>1, <2>2 DEF Init
<1>2. hist.forced = 0 /\ hist.nows = 0
    BY DEF Init
<1> QED
    BY <1>1, <1>2 DEF NInv, ForceEarned, Claims, One, IdleRun

\* Nothing but a launch counts as forced, and nothing but a user sets the annotation.
LEMMA OthersKeepClaims ==
    ASSUME TypeOK,
           \/ User \/ InstallAap \/ Interrupt
           \/ \E j \in JobIds : Playbook(j) \/ Mishap(j)
    PROVE  /\ hist'.forced = hist.forced
           /\ \/ cr'.now = cr.now /\ hist'.nows = hist.nows
              \/ ~ cr.now /\ cr'.now /\ hist'.nows = hist.nows + 1
<1> USE DEF TypeOK, Crs, Histories
<1>1. CASE User
    BY <1>1 DEF User, Edit, SetNow, Delete
<1>2. CASE InstallAap
    BY <1>2 DEF InstallAap
<1>3. CASE Interrupt
    BY <1>3 DEF Interrupt
<1>4. ASSUME NEW j \in JobIds, Playbook(j) \/ Mishap(j)
      PROVE  hist'.forced = hist.forced /\ cr'.now = cr.now /\ hist'.nows = hist.nows
    <2>1. CASE AcceptJob(j)
        BY <2>1 DEF AcceptJob
    <2>2. CASE StartPlaybook(j)
        BY <2>2 DEF StartPlaybook
    <2>3. CASE ReportReady(j)
        BY <2>3 DEF ReportReady
    <2>4. CASE ReportNotReady(j)
        BY <2>4 DEF ReportNotReady
    <2>5. CASE ReportComplete(j)
        BY <2>5 DEF ReportComplete
    <2>6. CASE ReportTeardownFailed(j)
        BY <2>6 DEF ReportTeardownFailed
    <2>7. CASE ReportMissing(j)
        BY <2>7 DEF ReportMissing
    <2>8. CASE EndJob(j)
        BY <2>8 DEF EndJob
    <2>9. CASE StopCancelled(j)
        BY <2>9 DEF StopCancelled
    <2>10. CASE KillJob(j)
        BY <2>10 DEF KillJob
    <2>11. CASE GoOverdue(j)
        BY <2>11 DEF GoOverdue
    <2>12. CASE PurgeJob(j)
        BY <2>12 DEF PurgeJob
    <2> QED
        BY <1>4, <2>1, <2>2, <2>3, <2>4, <2>5, <2>6, <2>7, <2>8, <2>9, <2>10,
           <2>11, <2>12 DEF Playbook, Mishap
<1> QED
    BY <1>1, <1>2, <1>3, <1>4

\* What a run that starts has read, and where it goes from there.
LEMMA StartRunEffect ==
    ASSUME StartRun
    PROVE  /\ run.pc = "idle" /\ run'.pc \in {"release", "clear", "query"}
           /\ run'.pc = "clear" => cr.now
           /\ run'.gen = cr.gen /\ run'.deleting = cr.deleting /\ run'.ready = cr.ready
           /\ run'.job = cr.job /\ run'.jobGen = cr.jobGen
           /\ ~ run'.force /\ UNCHANGED <<cr, jobs, aap, hist>>
<1>1. PICK retry \in BOOLEAN :
         run' = [IdleRun EXCEPT
                   !.pc = CASE cr.deleting /\ cr.complete -> "release"
                            [] ~ (cr.deleting /\ cr.complete) /\ cr.now -> "clear"
                            [] OTHER -> "query",
                   !.gen = cr.gen, !.deleting = cr.deleting,
                   !.ready = cr.ready, !.retry = retry,
                   !.job = cr.job, !.jobGen = cr.jobGen]
    BY DEF StartRun
<1>2. run'.pc = CASE cr.deleting /\ cr.complete -> "release"
                   [] ~ (cr.deleting /\ cr.complete) /\ cr.now -> "clear"
                   [] OTHER -> "query"
    BY <1>1 DEF IdleRun
<1>3. run'.pc \in {"release", "clear", "query"} /\ (run'.pc = "clear" => cr.now)
    BY <1>2
<1>4. /\ run'.gen = cr.gen /\ run'.deleting = cr.deleting /\ run'.ready = cr.ready
      /\ run'.job = cr.job /\ run'.jobGen = cr.jobGen /\ run'.force = FALSE
    BY <1>1 DEF IdleRun
<1> QED
    BY <1>3, <1>4 DEF StartRun

LEMMA NOperator ==
    ASSUME NInv, Operator
    PROVE  ForceEarned' /\ hist'.forced + Claims' <= hist'.nows
<1> USE DEF NInv, TypeOK, Crs, Runs, Histories, IdleRun, ForceEarned, Claims, One,
            Succeeded, IsCurrent, JobGeneration
<1>1. CASE StartRun
    <2>1. /\ run.pc = "idle" /\ run'.pc \in {"release", "clear", "query"}
          /\ run'.pc = "clear" => cr.now
          /\ ~ run'.force /\ UNCHANGED <<cr, hist>>
        BY <1>1, StartRunEffect
    <2> QED
        BY <2>1
<1>2. CASE ClearNow
    <2>1. run.pc = "clear" /\ run'.pc = "query" /\ hist' = hist
        BY <1>2 DEF ClearNow
    <2>2. \/ ~ cr'.now
          \/ cr' = cr /\ run'.force = run.force
        BY <1>2 DEF ClearNow
    <2> QED
        BY <2>1, <2>2
<1>3. CASE NoCredentials
    BY <1>3 DEF NoCredentials
<1>4. CASE QueryJob
    BY <1>4 DEF QueryJob
<1>5. CASE RecordSuccess
    BY <1>5 DEF RecordSuccess
<1>6. CASE KeepSuccess
    BY <1>6 DEF KeepSuccess, Settled
<1>7. CASE WaitForJob
    BY <1>7 DEF WaitForJob
<1>8. CASE CancelJob
    BY <1>8 DEF CancelJob, Running, Active
<1>9. CASE AwaitCompletion
    <2>1. /\ run'.pc \in {"release", "idle"} /\ cr'.now = cr.now /\ hist' = hist
        <3>1. CASE cr.complete /\ run' = [run EXCEPT !.pc = "release"] /\ UNCHANGED cr
            BY <1>9, <3>1 DEF AwaitCompletion
        <3>2. CASE /\ cr' = [cr EXCEPT !.phase = "reconciling", !.ready = FALSE,
                                       !.observed = run.gen, !.jobGen = JobGeneration]
                   /\ run' = IdleRun
            BY <1>9, <3>2 DEF AwaitCompletion
        <3> QED
            BY <1>9, <3>1, <3>2 DEF AwaitCompletion
    <2> QED
        BY <2>1
<1>10. CASE TemplateMissing
    BY <1>10 DEF TemplateMissing
<1>11. CASE LaunchJob
    BY <1>11 DEF LaunchJob, Launching
<1>12. CASE TrackJob
    BY <1>12 DEF TrackJob
<1>13. CASE FallThrough
    BY <1>13 DEF FallThrough
<1>14. CASE WaitTeardown
    BY <1>14 DEF WaitTeardown
<1>15. CASE ReleaseFinalizer
    BY <1>15 DEF ReleaseFinalizer
<1> QED
    BY <1>1, <1>2, <1>3, <1>4, <1>5, <1>6, <1>7, <1>8, <1>9, <1>10, <1>11,
       <1>12, <1>13, <1>14, <1>15 DEF Operator

LEMMA NStep == NInv /\ [Next]_vars => NInv'
<1> SUFFICES ASSUME NInv, [Next]_vars PROVE NInv'
    OBVIOUS
<1>1. TypeOK /\ TypeOK'
    BY TypeStep DEF NInv
<1>2. CASE UNCHANGED vars
    BY <1>1, <1>2 DEF vars, NInv, ForceEarned, Claims, One, Succeeded, IsCurrent, JobGeneration
<1>3. CASE Operator
    BY <1>1, <1>3, NOperator DEF NInv
<1>4. CASE \/ User \/ InstallAap \/ Interrupt
           \/ \E j \in JobIds : Playbook(j) \/ Mishap(j)
    <2>1. run' = run \/ run' = IdleRun
        BY <1>1, <1>4, OthersKeepTracking
    <2>2. /\ hist'.forced = hist.forced
          /\ \/ cr'.now = cr.now /\ hist'.nows = hist.nows
             \/ ~ cr.now /\ cr'.now /\ hist'.nows = hist.nows + 1
        BY <1>1, <1>4, OthersKeepClaims
    <2>3. ForceEarned'
        BY <2>1, <2>2 DEF NInv, ForceEarned, IdleRun, Succeeded, IsCurrent, JobGeneration
    <2>4. hist'.forced + Claims' <= hist'.nows
        BY <1>1, <2>1, <2>2 DEF NInv, Claims, One, IdleRun, TypeOK, Histories, Crs, Runs
    <2> QED
        BY <1>1, <2>3, <2>4 DEF NInv
<1> QED
    BY <1>2, <1>3, <1>4 DEF Next

\* A launch that only reconcileNow explains happens at most once for each time a user
\* set the annotation, whatever fails on the way of removing it.
THEOREM NowOncePerSet == Spec => []ReconcileNowOncePerSet
<1>1. NInv => ReconcileNowOncePerSet
    BY DEF NInv, TypeOK, Histories, Claims, One, ReconcileNowOncePerSet
<1> QED
    BY NInit, NStep, <1>1, PTL DEF Spec

-----------------------------------------------------------------------------
(* Jobs that are tracked *)

\* The job j may be forgotten: it is over, or one the property makes an exception of.
Superseded(j) ==
    \/ jobs[j].status \notin Active
    \/ jobs[j].overdue
    \/ cr.deleting /\ jobs[j].kind = "provision"

\* What a run that decides has seen of the tracked job is still so, or has become
\* its end; one that launches or has launched may forget the tracked job.
RunKnows ==
    /\ run.pc # "idle" => (run.deleting => cr.deleting) /\ run.gen <= cr.gen
    /\ run.pc \in {"clear", "query", "decide", "launch", "track"} => run.job = cr.job
    /\ run.pc = "decide" =>
          /\ run.seen = "none" <=> run.job = NoJob
          /\ run.job # NoJob =>
                /\ run.seen \in Ended \cup {"missing"} => jobs[run.job].status \notin Active
                /\ run.overdue => jobs[run.job].overdue
                /\ run.seen # "missing" /\ ~ run.teardown => jobs[run.job].kind = "provision"
    /\ run.pc \in {"launch", "track"} /\ run.job # NoJob => Superseded(run.job)
    /\ run.pc = "track" => aap = "seeded"

UInv == FInv /\ RunKnows /\ NoUntrackedJob

LEMMA UInit == Init => UInv
<1> SUFFICES ASSUME Init PROVE UInv
    OBVIOUS
<1>1. run.pc = "idle"
    BY DEF Init, IdleRun
<1>2. NoUntrackedJob
    <2>1. \A j \in JobIds : jobs[j].status \in {"unused", "successful"}
        <3>1. CASE jobs = [j \in JobIds |-> UnusedJob]
            BY <3>1 DEF UnusedJob
        <3>2. CASE jobs = [j \in JobIds |->
                             IF j = 1 THEN [UnusedJob EXCEPT !.status = "successful",
                                                             !.read = 1, !.result = "ready"]
                             ELSE UnusedJob]
            BY <3>2 DEF UnusedJob
        <3> QED
            BY <3>1, <3>2 DEF Init
    <2> QED
        BY <2>1 DEF NoUntrackedJob, Active
<1> QED
    BY <1>1, <1>2, FInit DEF UInv, RunKnows

\* A job that is over stays over, one given up stays given up, whatever users and jobs
\* do; a run is only cut short by an interruption, or before any job can be launched.
LEMMA OthersKeepJobs ==
    ASSUME TypeOK,
           \/ User \/ InstallAap \/ Interrupt
           \/ \E j \in JobIds : Playbook(j) \/ Mishap(j)
    PROVE  /\ \A j \in JobIds :
                 /\ jobs'[j].kind = jobs[j].kind
                 /\ jobs[j].overdue => jobs'[j].overdue
                 /\ jobs[j].status \notin Active \cup {"new"} => jobs'[j].status \notin Active
           /\ cr.deleting => cr'.deleting
           /\ cr.gen <= cr'.gen
           /\ hist.interrupts <= hist'.interrupts
           /\ aap = "seeded" => aap' = "seeded"
           /\ \/ run' = run
              \/ run' = IdleRun /\ (hist'.interrupts > 0 \/ aap # "seeded")
<1> USE DEF TypeOK, Crs, Jobs, Histories, Gens, Active
<1>1. CASE User
    BY <1>1 DEF User, Edit, SetNow, Delete
<1>2. CASE InstallAap
    BY <1>2 DEF InstallAap
<1>3. CASE Interrupt
    BY <1>3 DEF Interrupt
<1>4. ASSUME NEW j \in JobIds, Playbook(j) \/ Mishap(j)
      PROVE  /\ \A i \in JobIds :
                   /\ jobs'[i].kind = jobs[i].kind
                   /\ jobs[i].overdue => jobs'[i].overdue
                   /\ jobs[i].status \notin Active \cup {"new"} => jobs'[i].status \notin Active
             /\ cr'.deleting = cr.deleting /\ cr'.gen = cr.gen
             /\ hist'.interrupts = hist.interrupts /\ aap' = aap /\ run' = run
    <2>1. CASE AcceptJob(j)
        BY <2>1 DEF AcceptJob
    <2>2. CASE StartPlaybook(j)
        BY <2>2 DEF StartPlaybook
    <2>3. CASE ReportReady(j)
        BY <2>3 DEF ReportReady, Reporting
    <2>4. CASE ReportNotReady(j)
        BY <2>4 DEF ReportNotReady
    <2>5. CASE ReportComplete(j)
        BY <2>5 DEF ReportComplete
    <2>6. CASE ReportTeardownFailed(j)
        BY <2>6 DEF ReportTeardownFailed
    <2>7. CASE ReportMissing(j)
        BY <2>7 DEF ReportMissing
    <2>8. CASE EndJob(j)
        BY <2>8 DEF EndJob, Ended
    <2>9. CASE StopCancelled(j)
        BY <2>9 DEF StopCancelled
    <2>10. CASE KillJob(j)
        BY <2>10 DEF KillJob
    <2>11. CASE GoOverdue(j)
        BY <2>11 DEF GoOverdue
    <2>12. CASE PurgeJob(j)
        BY <2>12 DEF PurgeJob, Ended
    <2> QED
        BY <1>4, <2>1, <2>2, <2>3, <2>4, <2>5, <2>6, <2>7, <2>8, <2>9, <2>10,
           <2>11, <2>12 DEF Playbook, Mishap
<1> QED
    BY <1>1, <1>2, <1>3, <1>4

\* A run that goes on to launch, or to wait, has looked at the tracked job, and may
\* forget it when it launches.
LEMMA LaunchForgets ==
    ASSUME UInv, run.job # NoJob,
           \/ KeepSuccess \/ CancelJob
           \/ run.pc = "launch"
           \/ (run.pc = "decide" /\ Launching)
    PROVE  Superseded(run.job)
<1>1. CASE run.pc = "launch"
    BY <1>1 DEF UInv, RunKnows
<1>2. CASE run.pc # "launch"
    <2>1. /\ run.pc = "decide"
          /\ run.seen \in {"none", "missing"} \cup Active \cup Ended
          /\ run.job \in JobIds /\ jobs[run.job] \in Jobs
        BY <1>2 DEF UInv, FInv, TypeOK, Runs, StatusesNamed, JobStatuses, KeepSuccess,
                    CancelJob, Launching
    <2>2. CASE run.seen \in Ended \cup {"missing", "none"}
        BY <2>1, <2>2 DEF UInv, RunKnows, Superseded
    <2>3. CASE run.seen \in Active
        <3>1. CancelJob
            BY <1>2, <2>1, <2>3 DEF KeepSuccess, Launching, Succeeded, Running, Active
        <3>2. run.overdue \/ (run.deleting /\ ~ run.teardown)
            BY <3>1 DEF CancelJob, InWindow
        <3> QED
            BY <2>1, <2>3, <3>2 DEF UInv, RunKnows, Superseded, Active
    <2> QED
        BY <2>1, <2>2, <2>3
<1> QED
    BY <1>1, <1>2

LEMMA UOperator ==
    ASSUME ~ ShowsNew, UInv, Operator
    PROVE  RunKnows' /\ NoUntrackedJob'
<1>0. TypeOK /\ TypeOK'
    BY TypeOperator DEF UInv, FInv
<1> USE DEF TypeOK, Crs, Runs, RunKnows, Superseded, NoUntrackedJob, IdleRun
<1>1. CASE StartRun
    BY <1>0, <1>1, StartRunEffect DEF UInv, Gens
<1>2. CASE ClearNow
    <2>1. /\ run.pc = "clear" /\ run'.pc = "query" /\ run'.job = run.job
          /\ run'.gen = run.gen /\ run'.deleting = run.deleting
          /\ cr'.job = cr.job /\ cr'.gen = cr.gen /\ cr'.deleting = cr.deleting
          /\ UNCHANGED <<jobs, aap, hist>>
        BY <1>0, <1>2 DEF ClearNow
    <2> QED
        BY <1>0, <2>1 DEF UInv
<1>3. CASE NoCredentials
    BY <1>0, <1>3 DEF UInv, NoCredentials
<1>4. CASE QueryJob
    <2>1. /\ run.pc = "query" /\ run'.pc = "decide" /\ run'.job = run.job
          /\ run'.gen = run.gen /\ run'.deleting = run.deleting
          /\ UNCHANGED <<cr, jobs, aap, hist>>
        BY <1>0, <1>4 DEF QueryJob
    <2>2. /\ run.job = NoJob => run'.seen = "none"
          /\ run.job # NoJob =>
                /\ run'.seen = jobs[run.job].status
                /\ run'.overdue => jobs[run.job].overdue
                /\ run'.seen # "missing" /\ ~ run'.teardown => jobs[run.job].kind # "teardown"
        <3>1. CASE run.job = NoJob
            BY <1>0, <1>4, <3>1 DEF QueryJob
        <3>2. CASE run.job # NoJob
            <4>1. run' = [run EXCEPT
                            !.pc = "decide",
                            !.seen = IF run.job # NoJob THEN jobs[run.job].status ELSE "none",
                            !.teardown = run.job # NoJob /\ jobs[run.job].status # "missing"
                                         /\ jobs[run.job].kind = "teardown",
                            !.overdue = run.job # NoJob /\ jobs[run.job].overdue]
                BY <1>4 DEF QueryJob
            <4>2. run'.teardown <=> /\ run.job # NoJob /\ jobs[run.job].status # "missing"
                                    /\ jobs[run.job].kind = "teardown"
                BY <1>0, <4>1
            <4>3. /\ run'.seen = jobs[run.job].status
                  /\ run'.overdue => jobs[run.job].overdue
                BY <1>0, <3>2, <4>1 DEF Jobs
            <4> QED
                BY <3>2, <4>2, <4>3
        <3> QED
            BY <3>1, <3>2
    <2>3. run.job # NoJob => /\ jobs[run.job].status \in JobStatuses
                             /\ jobs[run.job].kind \in {"provision", "teardown"}
        BY <1>0 DEF Jobs
    <2>4. RunKnows'
        BY <1>0, <2>1, <2>2, <2>3 DEF UInv, JobStatuses, Active, Ended
    <2> QED
        BY <2>1, <2>4 DEF UInv
<1>5. CASE RecordSuccess
    BY <1>0, <1>5 DEF UInv, RecordSuccess
<1>6. CASE KeepSuccess
    BY <1>0, <1>6, LaunchForgets DEF UInv, KeepSuccess
<1>7. CASE WaitForJob
    BY <1>0, <1>7 DEF UInv, WaitForJob
<1>8. CASE CancelJob
    BY <1>0, <1>8, LaunchForgets DEF UInv, CancelJob, Jobs
<1>9. CASE AwaitCompletion
    <2>1. CASE cr.complete /\ run' = [run EXCEPT !.pc = "release"] /\ UNCHANGED cr
        BY <1>0, <1>9, <2>1 DEF UInv, AwaitCompletion
    <2>2. CASE /\ cr' = [cr EXCEPT !.phase = "reconciling", !.ready = FALSE,
                                   !.observed = run.gen, !.jobGen = JobGeneration]
               /\ run' = IdleRun
        BY <1>0, <1>9, <2>2 DEF UInv, AwaitCompletion
    <2> QED
        BY <1>9, <2>1, <2>2 DEF AwaitCompletion
<1>10. CASE TemplateMissing
    BY <1>0, <1>10 DEF UInv, TemplateMissing, Launching
<1>11. CASE LaunchJob
    BY <1>0, <1>11, LaunchForgets DEF UInv, LaunchJob, Launching, Reusable, UnusedJob, Jobs
<1>12. CASE TrackJob
    <2>1. /\ run.pc = "track" /\ run'.pc \in {"wait", "idle"}
          /\ cr'.job = run.launched /\ cr'.gen = cr.gen /\ cr'.deleting = cr.deleting
          /\ UNCHANGED <<jobs, aap, hist>>
        BY <1>0, <1>12 DEF TrackJob
    <2>2. run' = IdleRun \/ (run'.gen = run.gen /\ run'.deleting = run.deleting)
        BY <1>0, <1>12 DEF TrackJob
    <2>3. RunKnows'
        BY <1>0, <2>1, <2>2 DEF UInv, Gens
    <2>4. \A j \in JobIds : j = cr.job => Superseded(j)
        BY <2>1 DEF UInv, NoJob, JobIds
    <2>5. NoUntrackedJob'
        BY <1>0, <2>1, <2>4 DEF UInv
    <2> QED
        BY <2>3, <2>5
<1>13. CASE FallThrough
    BY <1>0, <1>13 DEF UInv, FallThrough
<1>14. CASE WaitTeardown
    BY <1>0, <1>14 DEF UInv, WaitTeardown
<1>15. CASE ReleaseFinalizer
    BY <1>0, <1>15 DEF UInv, ReleaseFinalizer
<1> QED
    BY <1>1, <1>2, <1>3, <1>4, <1>5, <1>6, <1>7, <1>8, <1>9, <1>10, <1>11,
       <1>12, <1>13, <1>14, <1>15 DEF Operator

LEMMA UStep == ~ ShowsNew /\ UInv /\ [Next]_vars => UInv'
<1> SUFFICES ASSUME ~ ShowsNew, UInv, [Next]_vars PROVE UInv'
    OBVIOUS
<1>1. FInv' /\ TypeOK /\ TypeOK'
    BY FStep DEF UInv, FInv
<1>2. CASE UNCHANGED vars
    BY <1>1, <1>2 DEF vars, UInv, RunKnows, Superseded, NoUntrackedJob
<1>3. CASE Operator
    BY <1>1, <1>3, UOperator DEF UInv
<1>4. CASE \/ User \/ InstallAap \/ Interrupt
           \/ \E j \in JobIds : Playbook(j) \/ Mishap(j)
    <2>1. cr'.job = cr.job
        BY <1>1, <1>4, OthersKeepTracking
    <2>2. /\ \A j \in JobIds :
                /\ jobs'[j].kind = jobs[j].kind
                /\ jobs[j].overdue => jobs'[j].overdue
                /\ jobs[j].status \notin Active \cup {"new"} => jobs'[j].status \notin Active
          /\ cr.deleting => cr'.deleting
          /\ cr.gen <= cr'.gen
          /\ hist.interrupts <= hist'.interrupts
          /\ aap = "seeded" => aap' = "seeded"
          /\ \/ run' = run
             \/ run' = IdleRun /\ (hist'.interrupts > 0 \/ aap # "seeded")
        BY <1>1, <1>4, OthersKeepJobs
    <2>3. \A j \in JobIds : jobs[j].status \notin Active => jobs'[j].status \notin Active
        BY <2>2 DEF UInv, FInv, StatusesNamed
    <2>4. \A j \in JobIds : Superseded(j) => Superseded(j)'
        BY <2>2, <2>3 DEF Superseded
    <2>5. RunKnows'
        <3>1. CASE run' = IdleRun
            BY <3>1 DEF RunKnows, IdleRun
        <3>2. CASE run' = run
            <4>1. run.gen \in Gens /\ cr.gen \in Gens /\ cr'.gen \in Gens
                  /\ run.job \in JobIds \cup {NoJob}
                BY <1>1 DEF TypeOK, Runs, Crs
            <4> QED
                BY <2>1, <2>2, <2>3, <2>4, <3>2, <4>1 DEF UInv, RunKnows, Gens
        <3> QED
            BY <2>2, <3>1, <3>2
    <2>6. NoUntrackedJob'
        <3>1. hist'.interrupts = 0 => hist.interrupts = 0 /\ (run' = run \/ run.pc # "track")
            BY <1>1, <2>2 DEF TypeOK, Histories, UInv, RunKnows
        <3> QED
            BY <2>1, <2>2, <2>3, <3>1 DEF UInv, NoUntrackedJob
    <2> QED
        BY <1>1, <2>5, <2>6 DEF UInv
<1> QED
    BY <1>2, <1>3, <1>4 DEF Next

\* When AAP never shows a tracked job as new, no job of the resource escapes the
\* operator unless a run was interrupted, whatever fails, is edited or is deleted.
THEOREM NoJobEscapes ==
    ASSUME ~ ShowsNew
    PROVE  Spec => []NoUntrackedJob
<1>1. UInv /\ [Next]_vars => UInv'
    BY UStep
<1>2. UInv => NoUntrackedJob
    BY DEF UInv
<1> QED
    BY UInit, <1>1, <1>2, PTL DEF Spec

-----------------------------------------------------------------------------
(* What ends a reconcile *)

Undisturbed == hist.interrupts + hist.overdues = 0

\* The generation of a job is no later than the resource's, and its playbook reads that
\* generation or a later one; a teardown is only launched for a deleted resource.
JobsFit ==
    \A j \in JobIds :
        /\ jobs[j].gen <= cr.gen
        /\ jobs[j].read # NoGen => jobs[j].read >= jobs[j].gen
        /\ jobs[j].result = "ready" => jobs[j].read # NoGen
        /\ jobs[j].status \in {"new", "pending"} => jobs[j].result = "none"
        /\ jobs[j].kind = "teardown" => cr.deleting
        /\ jobs[j].overdue => hist.overdues > 0

\* Unless something disturbed the runs, ready is the tracked job's own report.
ReadyIsReported ==
    Undisturbed =>
        /\ cr.ready /\ ~ cr.deleting /\ run.pc # "track" /\ cr.job # NoJob
              => jobs[cr.job].result = "ready"
        /\ run.pc \in {"clear", "query", "decide"} /\ run.ready /\ ~ run.deleting
           /\ run.job # NoJob
              => jobs[run.job].result = "ready"

EInv == UInv /\ GInv /\ JobsFit /\ ReadyIsReported

LEMMA EInit == Init => EInv
<1> SUFFICES ASSUME Init PROVE EInv
    OBVIOUS
<1>0. UInv /\ GInv /\ TypeOK /\ run.pc = "idle"
    BY UInit, GInit DEF GInv, Init, IdleRun
<1>1. CASE cr = NewCr /\ jobs = [j \in JobIds |-> UnusedJob]
    <2>1. ~ cr.ready /\ cr.gen = 1
        BY <1>1 DEF NewCr
    <2>2. \A j \in JobIds : jobs[j] = UnusedJob
        BY <1>1
    <2> QED
        BY <1>0, <2>1, <2>2 DEF EInv, JobsFit, ReadyIsReported, UnusedJob, NoGen
<1>2. CASE /\ cr = [NewCr EXCEPT !.ready = TRUE, !.observed = 1, !.job = 1]
           /\ jobs = [j \in JobIds |->
                        IF j = 1 THEN [UnusedJob EXCEPT !.status = "successful",
                                                        !.read = 1, !.result = "ready"]
                        ELSE UnusedJob]
    <2>1. cr.job = 1 /\ cr.gen = 1 /\ 1 \in JobIds
        BY <1>2, BoundsAssumption DEF NewCr, JobIds
    <2>2. \A j \in JobIds : /\ jobs[j].gen = NoGen /\ jobs[j].kind = "provision"
                            /\ ~ jobs[j].overdue
                            /\ IF j = 1 THEN /\ jobs[j].read = 1
                                             /\ jobs[j].result = "ready"
                                             /\ jobs[j].status = "successful"
                               ELSE /\ jobs[j].read = NoGen
                                    /\ jobs[j].result = "none"
        BY <1>2 DEF UnusedJob
    <2> QED
        BY <1>0, <2>1, <2>2 DEF EInv, JobsFit, ReadyIsReported, NoGen
<1> QED
    BY <1>1, <1>2 DEF Init

\* A report stays, and ready is set by the report of a running playbook alone.
LEMMA OthersReport ==
    ASSUME TypeOK,
           \/ User \/ InstallAap \/ Interrupt
           \/ \E j \in JobIds : Playbook(j) \/ Mishap(j)
    PROVE  /\ \A j \in JobIds : jobs[j].result = "ready" => jobs'[j].result = "ready"
           /\ hist.overdues <= hist'.overdues
           /\ cr'.ready =>
                 \/ cr.ready
                 \/ \E j \in JobIds :
                       /\ jobs[j].status = "running"
                       /\ jobs[j].kind = "teardown" \/ jobs'[j].result = "ready"
<1> USE DEF TypeOK, Crs, Jobs, Histories
<1>1. CASE User
    BY <1>1 DEF User, Edit, SetNow, Delete
<1>2. CASE InstallAap
    BY <1>2 DEF InstallAap
<1>3. CASE Interrupt
    BY <1>3 DEF Interrupt
<1>4. ASSUME NEW j \in JobIds, Playbook(j) \/ Mishap(j)
      PROVE  /\ \A i \in JobIds : jobs[i].result = "ready" => jobs'[i].result = "ready"
             /\ hist.overdues <= hist'.overdues
             /\ cr'.ready =>
                   \/ cr.ready
                   \/ /\ jobs[j].status = "running"
                      /\ jobs[j].kind = "teardown" \/ jobs'[j].result = "ready"
    <2>1. CASE AcceptJob(j)
        BY <2>1 DEF AcceptJob
    <2>2. CASE StartPlaybook(j)
        BY <2>2 DEF StartPlaybook
    <2>3. CASE ReportReady(j)
        BY <2>3 DEF ReportReady, Reporting
    <2>4. CASE ReportNotReady(j)
        BY <2>4 DEF ReportNotReady, Reporting
    <2>5. CASE ReportComplete(j)
        BY <2>5 DEF ReportComplete, Reporting
    <2>6. CASE ReportTeardownFailed(j)
        BY <2>6 DEF ReportTeardownFailed, Reporting
    <2>7. CASE ReportMissing(j)
        BY <2>7 DEF ReportMissing, Reporting
    <2>8. CASE EndJob(j)
        BY <2>8 DEF EndJob
    <2>9. CASE StopCancelled(j)
        BY <2>9 DEF StopCancelled
    <2>10. CASE KillJob(j)
        BY <2>10 DEF KillJob
    <2>11. CASE GoOverdue(j)
        BY <2>11 DEF GoOverdue
    <2>12. CASE PurgeJob(j)
        BY <2>12 DEF PurgeJob
    <2> QED
        BY <1>4, <2>1, <2>2, <2>3, <2>4, <2>5, <2>6, <2>7, <2>8, <2>9, <2>10,
           <2>11, <2>12 DEF Playbook, Mishap
<1> QED
    BY <1>1, <1>2, <1>3, <1>4

LEMMA OthersKeepFit ==
    ASSUME TypeOK, JobsFit,
           \/ User \/ InstallAap \/ Interrupt
           \/ \E j \in JobIds : Playbook(j) \/ Mishap(j)
    PROVE  JobsFit'
<1> USE DEF TypeOK, Crs, Jobs, Histories, Gens, GensOrNone, NoGen, JobsFit
<1>1. CASE User
    BY <1>1 DEF User, Edit, SetNow, Delete
<1>2. CASE InstallAap
    BY <1>2 DEF InstallAap
<1>3. CASE Interrupt
    BY <1>3 DEF Interrupt
<1>4. ASSUME NEW j \in JobIds, Playbook(j) \/ Mishap(j)
      PROVE  JobsFit'
    <2>1. CASE AcceptJob(j)
        BY <2>1 DEF AcceptJob
    <2>2. CASE StartPlaybook(j)
        <3>1. /\ UNCHANGED <<cr, hist>>
              /\ \A i \in JobIds :
                    /\ jobs'[i].gen = jobs[i].gen /\ jobs'[i].kind = jobs[i].kind
                    /\ jobs'[i].result = jobs[i].result /\ jobs'[i].overdue = jobs[i].overdue
                    /\ jobs'[i].read = jobs[i].read \/ i = j
                    /\ jobs'[i].status = jobs[i].status \/ jobs'[i].status = "running"
            BY <2>2 DEF StartPlaybook
        <3>2. /\ jobs'[j].read = IF cr.exists THEN cr.gen ELSE NoGen
              /\ jobs[j].result = "none"
            BY <2>2 DEF StartPlaybook
        <3> QED
            BY <3>1, <3>2
    <2>3. CASE ReportReady(j)
        BY <2>3 DEF ReportReady, Reporting
    <2>4. CASE ReportNotReady(j)
        BY <2>4 DEF ReportNotReady, Reporting
    <2>5. CASE ReportComplete(j)
        BY <2>5 DEF ReportComplete, Reporting
    <2>6. CASE ReportTeardownFailed(j)
        BY <2>6 DEF ReportTeardownFailed, Reporting
    <2>7. CASE ReportMissing(j)
        BY <2>7 DEF ReportMissing, Reporting
    <2>8. CASE EndJob(j)
        BY <2>8 DEF EndJob
    <2>9. CASE StopCancelled(j)
        BY <2>9 DEF StopCancelled
    <2>10. CASE KillJob(j)
        BY <2>10 DEF KillJob
    <2>11. CASE GoOverdue(j)
        BY <2>11 DEF GoOverdue
    <2>12. CASE PurgeJob(j)
        BY <2>12 DEF PurgeJob
    <2> QED
        BY <1>4, <2>1, <2>2, <2>3, <2>4, <2>5, <2>6, <2>7, <2>8, <2>9, <2>10,
           <2>11, <2>12 DEF Playbook, Mishap
<1> QED
    BY <1>1, <1>2, <1>3, <1>4

LEMMA EOperator ==
    ASSUME ~ ShowsNew, EInv, Operator
    PROVE  JobsFit' /\ ReadyIsReported'
<1>0. /\ TypeOK /\ RunKnows /\ JobsFit /\ ReadyIsReported
      /\ cr \in Crs /\ run \in Runs /\ jobs \in [JobIds -> Jobs]
    BY DEF EInv, UInv, FInv, TypeOK
<1> USE DEF Crs, Runs, RunKnows, IdleRun, ReadyIsReported, Undisturbed
<1>1. CASE StartRun
    <2>1. JobsFit'
        BY <1>0, <1>1, StartRunEffect DEF JobsFit
    <2> QED
        BY <1>0, <1>1, <2>1, StartRunEffect
<1>2. CASE ClearNow
    <2>1. /\ run.pc = "clear" /\ run'.pc = "query" /\ run'.job = run.job
          /\ run'.ready = run.ready /\ run'.deleting = run.deleting
          /\ cr'.job = cr.job /\ cr'.gen = cr.gen /\ cr'.deleting = cr.deleting
          /\ cr'.ready = cr.ready /\ UNCHANGED <<jobs, aap, hist>>
        BY <1>0, <1>2 DEF ClearNow
    <2> QED
        BY <1>0, <2>1 DEF JobsFit
<1>3. CASE NoCredentials
    BY <1>0, <1>3 DEF NoCredentials, JobsFit
<1>4. CASE QueryJob
    BY <1>0, <1>4 DEF QueryJob, JobsFit
<1>5. CASE RecordSuccess
    BY <1>0, <1>5 DEF RecordSuccess, JobsFit
<1>6. CASE KeepSuccess
    BY <1>0, <1>6 DEF KeepSuccess, JobsFit
<1>7. CASE WaitForJob
    BY <1>0, <1>7 DEF WaitForJob, JobsFit
<1>8. CASE CancelJob
    BY <1>0, <1>8 DEF CancelJob, Jobs, JobsFit
<1>9. CASE AwaitCompletion
    <2>1. CASE cr.complete /\ run' = [run EXCEPT !.pc = "release"] /\ UNCHANGED cr
        BY <1>0, <1>9, <2>1 DEF AwaitCompletion, JobsFit
    <2>2. CASE /\ cr' = [cr EXCEPT !.phase = "reconciling", !.ready = FALSE,
                                   !.observed = run.gen, !.jobGen = JobGeneration]
               /\ run' = IdleRun
        BY <1>0, <1>9, <2>2 DEF AwaitCompletion, JobsFit
    <2> QED
        BY <1>9, <2>1, <2>2 DEF AwaitCompletion
<1>10. CASE TemplateMissing
    BY <1>0, <1>10 DEF TemplateMissing, Launching, JobsFit
<1>11. CASE LaunchJob
    <2>1. JobsFit'
        BY <1>0, <1>11 DEF LaunchJob, Launching, UnusedJob, Jobs, Histories, JobsFit, NoGen,
                           Gens, TypeOK
    <2>2. run'.pc = "track"
        BY <1>0, <1>11 DEF LaunchJob
    <2> QED
        BY <2>1, <2>2
<1>12. CASE TrackJob
    BY <1>0, <1>12 DEF TrackJob, JobsFit
<1>13. CASE FallThrough
    BY <1>0, <1>13 DEF FallThrough, JobsFit
<1>14. CASE WaitTeardown
    BY <1>0, <1>14 DEF WaitTeardown, JobsFit
<1>15. CASE ReleaseFinalizer
    BY <1>0, <1>15 DEF ReleaseFinalizer, JobsFit
<1> QED
    BY <1>1, <1>2, <1>3, <1>4, <1>5, <1>6, <1>7, <1>8, <1>9, <1>10, <1>11,
       <1>12, <1>13, <1>14, <1>15 DEF Operator

LEMMA EStep == ~ ShowsNew /\ EInv /\ [Next]_vars => EInv'
<1> SUFFICES ASSUME ~ ShowsNew, EInv, [Next]_vars PROVE EInv'
    OBVIOUS
<1>1. UInv' /\ GInv' /\ UInv /\ TypeOK
    BY UStep, GStep DEF EInv, GInv
<1>2. CASE UNCHANGED vars
    BY <1>1, <1>2 DEF vars, EInv, JobsFit, ReadyIsReported, Undisturbed
<1>3. CASE Operator
    BY <1>1, <1>3, EOperator DEF EInv
<1>4. CASE \/ User \/ InstallAap \/ Interrupt
           \/ \E j \in JobIds : Playbook(j) \/ Mishap(j)
    <2>1. cr'.job = cr.job /\ JobsFit'
        BY <1>1, <1>4, OthersKeepTracking, OthersKeepFit DEF EInv
    <2>2. /\ cr.deleting => cr'.deleting
          /\ hist.interrupts <= hist'.interrupts /\ hist.overdues <= hist'.overdues
          /\ \/ run' = run
             \/ run' = IdleRun /\ (hist'.interrupts > 0 \/ aap # "seeded")
        BY <1>1, <1>4, OthersKeepJobs, OthersReport
    <2>3. ReadyIsReported'
        <3> SUFFICES ASSUME Undisturbed' PROVE ReadyIsReported'
            BY DEF ReadyIsReported
        <3>1. /\ Undisturbed /\ hist.interrupts = 0 /\ hist.overdues = 0
              /\ run' = run \/ (run' = IdleRun /\ run.pc # "track")
            <4>1. /\ hist.interrupts \in Nat /\ hist.overdues \in Nat
                  /\ hist'.interrupts \in Nat /\ hist'.overdues \in Nat
                BY <1>1 DEF TypeOK, Histories, UInv, FInv
            <4>2. hist'.interrupts = 0 /\ hist'.overdues = 0
                BY <4>1 DEF Undisturbed
            <4>3. hist.interrupts = 0 /\ hist.overdues = 0
                BY <2>2, <4>1, <4>2
            <4> QED
                BY <1>1, <2>2, <4>2, <4>3 DEF Undisturbed, UInv, RunKnows
        <3>2. \A j \in JobIds : jobs[j].result = "ready" => jobs'[j].result = "ready"
            BY <1>1, <1>4, OthersReport
        <3>3. ASSUME cr'.ready, ~ cr'.deleting, run'.pc # "track", cr'.job # NoJob
              PROVE  jobs'[cr'.job].result = "ready"
            <4>1. ~ cr.deleting /\ run.pc # "track" /\ cr.job \in JobIds
                BY <1>1, <2>1, <2>2, <3>1, <3>3 DEF TypeOK, Crs
            <4>2. CASE cr.ready
                BY <2>1, <3>1, <3>2, <4>1, <4>2, <3>3 DEF EInv, ReadyIsReported
            <4>3. CASE ~ cr.ready
                <5>1. PICK j \in JobIds :
                         /\ jobs[j].status = "running"
                         /\ jobs[j].kind = "teardown" \/ jobs'[j].result = "ready"
                    BY <1>1, <1>4, <3>3, <4>3, OthersReport
                <5>2. jobs[j].kind # "teardown" /\ ~ jobs[j].overdue
                    BY <3>1, <4>1 DEF EInv, JobsFit
                <5>3. j = cr.job
                    BY <1>1, <3>1, <4>1, <5>1, <5>2 DEF UInv, NoUntrackedJob, Active
                <5> QED
                    BY <2>1, <5>1, <5>2, <5>3
            <4> QED
                BY <4>2, <4>3
        <3>4. ASSUME run'.pc \in {"clear", "query", "decide"}, run'.ready, ~ run'.deleting,
                     run'.job # NoJob
              PROVE  jobs'[run'.job].result = "ready"
            <4>1. run' = run
                BY <3>1, <3>4 DEF IdleRun
            <4>2. run.job \in JobIds
                BY <1>1, <3>4, <4>1 DEF TypeOK, Runs
            <4> QED
                BY <3>1, <3>2, <3>4, <4>1, <4>2 DEF EInv, ReadyIsReported
        <3> QED
            BY <3>3, <3>4 DEF ReadyIsReported
    <2> QED
        BY <1>1, <2>1, <2>3 DEF EInv
<1> QED
    BY <1>2, <1>3, <1>4 DEF Next

\* When AAP never shows a tracked job as new, and no run was interrupted and no job
\* given up, "End after ready" is only reached for a generation that a playbook has
\* read, or a later one, and reported ready.
THEOREM EndedMeansApplied ==
    ASSUME ~ ShowsNew
    PROVE  Spec => EndsOnlyWhenApplied
<1> DEFINE Ends ==
       RecordSuccess /\ hist.interrupts + hist.overdues = 0 /\ jobs[run.job].gen # NoGen
           => jobs[run.job].result = "ready" /\ jobs[run.job].read >= run.gen
<1>1. EInv /\ [Next]_vars => EInv'
    BY EStep
<1>2. EInv => Ends
    <2> SUFFICES ASSUME EInv, RecordSuccess, Undisturbed, jobs[run.job].gen # NoGen
                 PROVE  jobs[run.job].result = "ready" /\ jobs[run.job].read >= run.gen
        BY DEF Undisturbed
    <2>1. /\ run.pc = "decide" /\ run.seen = "successful" /\ ~ run.deleting
          /\ run.ready /\ IsCurrent
        BY DEF RecordSuccess, Settled, Succeeded
    <2>2. run.job # NoJob /\ run.job = cr.job /\ run.job \in JobIds
        BY <2>1 DEF EInv, UInv, RunKnows, FInv, TypeOK, Runs
    <2>3. jobs[run.job].result = "ready"
        BY <2>1, <2>2 DEF EInv, ReadyIsReported
    <2>4. JobGeneration = jobs[run.job].gen
        BY <2>1, <2>2, CopyKeepsGeneration DEF EInv
    <2> QED
        BY <2>1, <2>2, <2>3, <2>4 DEF EInv, JobsFit, IsCurrent
<1>3. EInv /\ [Next]_vars => [Ends]_vars
    BY <1>2
<1> QED
    BY EInit, <1>1, <1>3, PTL DEF Spec, EndsOnlyWhenApplied
=============================================================================
