--------------------------- MODULE KindReconcile ----------------------------
(***************************************************************************)
(* One custom resource, the operator role kind_reconcile that runs for it, *)
(* the AAP jobs the role launches and the playbooks those jobs run.        *)
(*                                                                         *)
(* The operator never does the work of a kind: a run of the role reads the *)
(* resource, asks AAP for the job recorded in status.aapJob, and decides   *)
(* to end, to wait, to cancel or to launch <kind>-provision, or, once the  *)
(* resource is being deleted, <kind>-teardown.  The playbook of the job    *)
(* reads the resource again and reports by patching its status.  A run and *)
(* the playbooks interleave at every API call; users edit, annotate and    *)
(* delete the resource at any time; a run may die between any two calls.   *)
(*                                                                         *)
(* One run per resource at a time (the controller's work queue), started   *)
(* again by reconcilePeriod, by watch events and after failed runs.        *)
(*                                                                         *)
(* An operator introduced by "Mutant:" is a plausible slip in the          *)
(* definition after it; no behaviour of the specification uses it.         *)
(***************************************************************************)
EXTENDS Naturals, FiniteSets

CONSTANTS
    MaxGen,         \* bound: edits of the spec stop at this generation
    MaxJobs,        \* bound: AAP jobs of this resource that matter at a time
    MaxFailures,    \* bound: playbooks that do not succeed
    MaxInterrupts,  \* bound: runs that die, or stop at a failed API call
    MaxNows,        \* bound: times a user sets reconcileNow
    MaxOverdue,     \* bound: jobs that outlive job_stale_seconds (3h)
    Simultaneous,   \* allow_simultaneous of the AAP job templates
    ShowsNew,       \* AAP reports a job as "new" before it is "pending"
    Legacy          \* the resource may come from an older operator image

ASSUME BoundsAssumption ==
    /\ MaxGen \in Nat \ {0} /\ MaxJobs \in Nat \ {0}
    /\ MaxFailures \in Nat /\ MaxInterrupts \in Nat
    /\ MaxNows \in Nat /\ MaxOverdue \in Nat
    /\ {Simultaneous, ShowsNew, Legacy} \subseteq BOOLEAN

VARIABLES
    cr,    \* the custom resource: metadata and status
    run,   \* the operator run in progress and the facts it has set
    jobs,  \* the AAP jobs of this resource
    aap,   \* how far the installation of AAP has come
    hist   \* history: what has happened, for bounds and properties

vars == <<cr, run, jobs, aap, hist>>

NoJob == 0       \* status.aapJob absent
NoGen == 0       \* no generation: aapJob.generation absent, nothing read
JobIds == 1..MaxJobs
Gens == 1..MaxGen
GensOrNone == Gens \cup {NoGen}

\* "pending" stands for pending and waiting, "failed" for failed, error and
\* canceled: the code treats each group alike.
Active == {"pending", "running"}
Ended == {"successful", "failed"}
JobStatuses == {"unused", "new", "missing"} \cup Active \cup Ended

Crs ==
    [exists : BOOLEAN,        \* the operator's finalizer is still in place
     gen : Gens,              \* metadata.generation
     deleting : BOOLEAN,      \* metadata.deletionTimestamp is set
     now : BOOLEAN,           \* annotation reconcileNow is set
     ready : BOOLEAN,         \* status.ready
     phase : {"none", "ready", "reconciling", "pending"},
     observed : GensOrNone,   \* status.observedGeneration
     complete : BOOLEAN,      \* status.deletionComplete
     job : JobIds \cup {NoJob},
     jobGen : GensOrNone]     \* status.aapJob.generation

Runs ==
    [pc : {"idle", "clear", "query", "decide", "launch", "track",
           "wait", "release"},
     gen : Gens, deleting : BOOLEAN, ready : BOOLEAN, retry : BOOLEAN,
     job : JobIds \cup {NoJob}, jobGen : GensOrNone,
     force : BOOLEAN,         \* hs_reconcile_now
     seen : JobStatuses \cup {"none"}, teardown : BOOLEAN, overdue : BOOLEAN,
     launched : JobIds \cup {NoJob}]

Jobs ==
    [status : JobStatuses,
     kind : {"provision", "teardown"},
     gen : GensOrNone,        \* generation the job was launched for
     read : GensOrNone,       \* generation its playbook has read
     result : {"none", "ready", "notReady", "complete", "failed"},
     overdue : BOOLEAN, cancelled : BOOLEAN]

Histories ==
    [toreDown : BOOLEAN,      \* a teardown playbook has reported completion
     applied : GensOrNone,    \* latest generation reported ready
     forced : Nat,            \* launches that only reconcileNow explains
     nows : 0..MaxNows, failures : 0..MaxFailures,
     interrupts : 0..MaxInterrupts, overdues : 0..MaxOverdue]

IdleRun ==
    [pc |-> "idle", gen |-> 1, deleting |-> FALSE, ready |-> FALSE,
     retry |-> FALSE, job |-> NoJob, jobGen |-> NoGen, force |-> FALSE,
     seen |-> "none", teardown |-> FALSE, overdue |-> FALSE,
     launched |-> NoJob]

UnusedJob ==
    [status |-> "unused", kind |-> "provision", gen |-> NoGen, read |-> NoGen,
     result |-> "none", overdue |-> FALSE, cancelled |-> FALSE]

-----------------------------------------------------------------------------
(* The environment: a new resource, or one left by an older operator image *)
(* (a ready resource whose tracked job carries no generation).             *)

NewCr ==
    [exists |-> TRUE, gen |-> 1, deleting |-> FALSE, now |-> FALSE,
     ready |-> FALSE, phase |-> "none", observed |-> NoGen,
     complete |-> FALSE, job |-> NoJob, jobGen |-> NoGen]

Init ==
    /\ run = IdleRun
    /\ aap \in {"noCredentials", "noTemplates", "seeded"}
    /\ hist = [toreDown |-> FALSE, applied |-> NoGen, forced |-> 0, nows |-> 0,
               failures |-> 0, interrupts |-> 0, overdues |-> 0]
    /\ \/ /\ cr = NewCr
          /\ jobs = [j \in JobIds |-> UnusedJob]
       \/ /\ Legacy /\ aap = "seeded"
          /\ cr = [NewCr EXCEPT !.ready = TRUE, !.observed = 1, !.job = 1]
          /\ jobs = [j \in JobIds |->
                       IF j = 1 THEN [UnusedJob EXCEPT !.status = "successful",
                                                       !.read = 1, !.result = "ready"]
                       ELSE UnusedJob]

\* A user changes the spec.
Edit ==
    /\ cr.exists /\ ~ cr.deleting /\ cr.gen < MaxGen
    /\ cr' = [cr EXCEPT !.gen = @ + 1]
    /\ UNCHANGED <<run, jobs, aap, hist>>

\* A user asks for a reconcile with the annotation.
SetNow ==
    /\ cr.exists /\ ~ cr.now /\ hist.nows < MaxNows
    /\ cr' = [cr EXCEPT !.now = TRUE]
    /\ hist' = [hist EXCEPT !.nows = @ + 1]
    /\ UNCHANGED <<run, jobs, aap>>

Delete ==
    /\ cr.exists /\ ~ cr.deleting
    /\ cr' = [cr EXCEPT !.deleting = TRUE]
    /\ UNCHANGED <<run, jobs, aap, hist>>

\* The installation brings the AAP credentials (the operator pod restarts
\* with them) and then the job templates.
InstallAap ==
    /\ \/ aap = "noCredentials" /\ aap' = "noTemplates" /\ run' = IdleRun
       \/ aap = "noTemplates" /\ aap' = "seeded" /\ UNCHANGED run
    /\ UNCHANGED <<cr, jobs, hist>>

-----------------------------------------------------------------------------
(* A run of the role: main.yml *)

\* "Skip when generation already observed and phase ready".  Only kinds whose
\* playbook writes status.phase ever get there.  (That status.status is not failed,
\* error or degraded follows from cr.ready: whoever writes one of these writes
\* ready: false with it.)
FastPath ==
    /\ ~ cr.deleting
    /\ cr.observed = cr.gen /\ cr.jobGen = cr.gen
    /\ cr.phase = "ready" /\ cr.ready
    /\ ~ cr.now

\* Mutant: the generation is taken from ansible_operator_meta, which has none.
StartRunNoGeneration ==
    /\ run.pc = "idle" /\ cr.exists /\ ~ FastPath
    /\ run' = [IdleRun EXCEPT !.pc = "query", !.gen = NoGen, !.deleting = cr.deleting,
                              !.ready = cr.ready, !.job = cr.job, !.jobGen = cr.jobGen]
    /\ UNCHANGED <<cr, jobs, aap, hist>>

\* The run reads the live resource and sets its facts.  hs_force_hourly_retry
\* holds when the status looks failed and lastReconciledAt is old or absent.
StartRun ==
    /\ run.pc = "idle" /\ cr.exists /\ ~ FastPath
    /\ \E retry \in {b \in BOOLEAN : b => ~ cr.ready \/ cr.phase = "pending"} :
          run' = [IdleRun EXCEPT
                    !.pc = CASE cr.deleting /\ cr.complete -> "release"
                             [] ~ (cr.deleting /\ cr.complete) /\ cr.now -> "clear"
                             [] OTHER -> "query",
                    !.gen = cr.gen, !.deleting = cr.deleting,
                    !.ready = cr.ready, !.retry = retry,
                    !.job = cr.job, !.jobGen = cr.jobGen]
    /\ UNCHANGED <<cr, jobs, aap, hist>>

\* Mutant: the launch is forced whether or not the annotation was removed.
ClearNowForced ==
    /\ run.pc = "clear"
    /\ cr' \in {cr, [cr EXCEPT !.now = FALSE]}
    /\ run' = [run EXCEPT !.pc = "query", !.force = ~ run.deleting]
    /\ UNCHANGED <<jobs, aap, hist>>

\* The annotation is removed and forces one launch; when the patch fails it
\* stays and forces nothing.
ClearNow ==
    /\ run.pc = "clear"
    /\ \/ /\ cr' = [cr EXCEPT !.now = FALSE]
          /\ run' = [run EXCEPT !.pc = "query", !.force = ~ run.deleting]
       \/ /\ run' = [run EXCEPT !.pc = "query"]
          /\ UNCHANGED cr
    /\ UNCHANGED <<jobs, aap, hist>>

\* "Patch waiting-for-aap status" and fail.
NoCredentials ==
    /\ run.pc = "query" /\ aap = "noCredentials"
    /\ cr' = IF cr.phase = "pending" THEN cr
             ELSE [cr EXCEPT !.phase = "pending", !.observed = run.gen]
    /\ run' = IdleRun
    /\ UNCHANGED <<jobs, aap, hist>>

-----------------------------------------------------------------------------
(* A run of the role: aap_job.yml *)

\* The tracked job as AAP shows it now.  A job that AAP no longer has (404)
\* has no name, so it is never taken for a teardown.
QueryJob ==
    /\ run.pc = "query" /\ aap # "noCredentials"
    /\ LET tracked == run.job # NoJob IN
       run' = [run EXCEPT
                 !.pc = "decide",
                 !.seen = IF tracked THEN jobs[run.job].status ELSE "none",
                 !.teardown = tracked /\ jobs[run.job].status # "missing"
                                      /\ jobs[run.job].kind = "teardown",
                 !.overdue = tracked /\ jobs[run.job].overdue]
    /\ UNCHANGED <<cr, jobs, aap, hist>>

\* Jobs launched by older images carry no generation and are adopted.
JobGeneration == IF run.jobGen = NoGen THEN run.gen ELSE run.jobGen
IsCurrent == JobGeneration = run.gen

Succeeded == run.seen = "successful"
Running == run.seen \in Active
Failed == run.seen \in {"failed", "missing"}

\* Mutant: the generation of the job is not compared.
SettledAnyGeneration == Succeeded /\ ~ run.deleting /\ run.ready /\ ~ run.force

\* "Record successful AAP job when playbook already marked CR ready".
Settled == Succeeded /\ ~ run.deleting /\ run.ready /\ IsCurrent /\ ~ run.force

\* Mutant: a job for another generation is not waited for.
InWindowCurrent ==
    Running /\ ~ run.overdue /\ (run.deleting => run.teardown) /\ IsCurrent

\* "No-op while job running within 3h window".
InWindow == Running /\ ~ run.overdue /\ (run.deleting => run.teardown)

NeedLaunch ==
    \/ run.seen = "none" \/ Failed
    \/ /\ run.deleting
       /\ \/ Succeeded /\ ~ run.teardown
          \/ Running /\ (~ run.teardown \/ run.overdue)
    \/ /\ ~ run.deleting
       /\ \/ run.retry
          \/ Succeeded /\ (~ run.ready \/ ~ IsCurrent \/ run.force)
          \/ Running /\ run.overdue

RecordSuccess ==
    /\ run.pc = "decide" /\ Settled
    /\ cr' = [cr EXCEPT !.jobGen = run.gen, !.observed = run.gen]
    /\ run' = IdleRun
    /\ UNCHANGED <<jobs, aap, hist>>

\* Mutant: the live generation is recorded for the finished job.
KeepSuccessLive ==
    /\ run.pc = "decide" /\ Succeeded /\ ~ run.deleting /\ ~ Settled
    /\ cr' = [cr EXCEPT !.jobGen = run.gen, !.observed = run.gen]
    /\ run' = [run EXCEPT !.pc = "launch"]
    /\ UNCHANGED <<jobs, aap, hist>>

\* "Keep aapJob successful but allow relaunch", on the way to the launch.
KeepSuccess ==
    /\ run.pc = "decide" /\ Succeeded /\ ~ run.deleting /\ ~ Settled
    /\ cr' = [cr EXCEPT !.jobGen = JobGeneration, !.observed = JobGeneration]
    /\ run' = [run EXCEPT !.pc = "launch"]
    /\ UNCHANGED <<jobs, aap, hist>>

\* Mutant: the live generation is recorded for the running job.
WaitForJobLive ==
    /\ run.pc = "decide" /\ InWindow
    /\ cr' = [cr EXCEPT !.phase = "reconciling", !.ready = FALSE,
                        !.observed = run.gen, !.jobGen = run.gen]
    /\ run' = IF run.deleting THEN [run EXCEPT !.pc = "wait"] ELSE IdleRun
    /\ UNCHANGED <<jobs, aap, hist>>

\* The status patch of a run that finds its job running; a deleting run then
\* waits for the job, any other ends.
WaitForJob ==
    /\ run.pc = "decide" /\ InWindow
    /\ cr' = [cr EXCEPT !.phase = "reconciling", !.ready = FALSE,
                        !.observed = JobGeneration, !.jobGen = JobGeneration]
    /\ run' = IF run.deleting THEN [run EXCEPT !.pc = "wait"] ELSE IdleRun
    /\ UNCHANGED <<jobs, aap, hist>>

\* "Cancel stale or wrong-type job before relaunch": the answer is ignored.
CancelJob ==
    /\ run.pc = "decide" /\ Running /\ ~ InWindow
    /\ \/ jobs' = [jobs EXCEPT ![run.job].cancelled = TRUE]
       \/ UNCHANGED jobs
    /\ run' = [run EXCEPT !.pc = "launch"]
    /\ UNCHANGED <<cr, aap, hist>>

\* "When delete teardown already succeeded but deletionComplete missing".
AwaitCompletion ==
    /\ run.pc = "decide" /\ run.deleting /\ Succeeded /\ run.teardown
    /\ \/ /\ cr.complete
          /\ run' = [run EXCEPT !.pc = "release"]
          /\ UNCHANGED cr
       \/ /\ ~ cr.complete
          /\ cr' = [cr EXCEPT !.phase = "reconciling", !.ready = FALSE,
                              !.observed = run.gen, !.jobGen = JobGeneration]
          /\ run' = IdleRun
    /\ UNCHANGED <<jobs, aap, hist>>

Launching ==
    \/ run.pc = "launch"
    \/ /\ run.pc = "decide" /\ NeedLaunch
       /\ ~ Running /\ ~ (Succeeded /\ ~ run.deleting)

TemplateMissing ==
    /\ Launching /\ aap = "noTemplates"
    /\ cr' = [cr EXCEPT !.phase = "pending", !.observed = run.gen]
    /\ run' = IdleRun
    /\ UNCHANGED <<jobs, aap, hist>>

\* AAP numbers jobs without end; here the number of a job that has ended and
\* is not tracked any more is used again.
Reusable(n) == n # cr.job /\ jobs[n].status \in {"unused", "missing"} \cup Ended

\* The launch request.  Only reconcileNow launches while the tracked job has
\* succeeded for this generation and the resource is ready.
LaunchJob ==
    /\ Launching /\ aap = "seeded"
    /\ \E n \in JobIds :
          /\ Reusable(n) /\ \A m \in 1..(n - 1) : ~ Reusable(m)
          /\ jobs' = [jobs EXCEPT ![n] =
                        [UnusedJob EXCEPT
                           !.status = IF ShowsNew THEN "new" ELSE "pending",
                           !.kind = IF run.deleting THEN "teardown" ELSE "provision",
                           !.gen = run.gen]]
          /\ run' = [run EXCEPT !.pc = "track", !.launched = n]
    /\ hist' = IF Succeeded /\ ~ run.deleting /\ run.ready /\ IsCurrent
               THEN [hist EXCEPT !.forced = @ + 1] ELSE hist
    /\ UNCHANGED <<cr, aap>>

\* "Patch reconciling status with job id": the job becomes the tracked one.
TrackJob ==
    /\ run.pc = "track"
    /\ cr' = [cr EXCEPT !.phase = "reconciling", !.ready = FALSE,
                        !.observed = run.gen, !.job = run.launched,
                        !.jobGen = run.gen]
    /\ run' = IF run.deleting THEN [run EXCEPT !.pc = "wait"] ELSE IdleRun
    /\ UNCHANGED <<jobs, aap, hist>>

\* The tasks of aap_job.yml are all skipped: the run ends well, and after a
\* finalizer run that ends well ansible-operator removes the finalizer.
FallThrough ==
    /\ run.pc = "decide" /\ ~ NeedLaunch /\ ~ InWindow /\ ~ Succeeded
    /\ \/ UNCHANGED cr
       \/ run.deleting /\ cr' = [cr EXCEPT !.exists = FALSE]
    /\ run' = IdleRun
    /\ UNCHANGED <<jobs, aap, hist>>

-----------------------------------------------------------------------------
(* A run of the role: wait_teardown.yml and release_finalizer.yml *)

\* Mutant: the finalizer is released when the wait ends.
WaitTeardownReleases ==
    /\ run.pc = "wait"
    /\ run' = [run EXCEPT !.pc = "release"]
    /\ UNCHANGED <<cr, jobs, aap, hist>>

\* The wait is bounded, so it may end before the job does; the run then fails
\* and keeps the finalizer unless the resource says deletionComplete.
WaitTeardown ==
    /\ run.pc = "wait"
    /\ run' = IF cr.complete THEN [run EXCEPT !.pc = "release"] ELSE IdleRun
    /\ UNCHANGED <<cr, jobs, aap, hist>>

\* By the JSON patch or, when that finds the list changed, by ansible-operator
\* after the run has ended well.
ReleaseFinalizer ==
    /\ run.pc = "release"
    /\ cr' = [cr EXCEPT !.exists = FALSE]
    /\ run' = IdleRun
    /\ UNCHANGED <<jobs, aap, hist>>

\* The run dies or one of its calls fails; the controller starts another.
Interrupt ==
    /\ run.pc # "idle" /\ hist.interrupts < MaxInterrupts
    /\ run' = IdleRun
    /\ hist' = [hist EXCEPT !.interrupts = @ + 1]
    /\ UNCHANGED <<cr, jobs, aap>>

-----------------------------------------------------------------------------
(* AAP and the playbooks of the jobs *)

AcceptJob(j) ==
    /\ jobs[j].status = "new"
    /\ jobs' = [jobs EXCEPT ![j].status = "pending"]
    /\ UNCHANGED <<cr, run, aap, hist>>

\* AAP runs the jobs of a template one at a time unless it allows otherwise.
StartPlaybook(j) ==
    /\ jobs[j].status = "pending"
    /\ Simultaneous \/ \A i \in JobIds :
          ~ (jobs[i].status = "running" /\ jobs[i].kind = jobs[j].kind)
    /\ jobs' = [jobs EXCEPT ![j] =
                  [@ EXCEPT !.status = "running",
                            !.read = IF cr.exists THEN cr.gen ELSE NoGen]]
    /\ UNCHANGED <<cr, run, aap, hist>>

Reporting(j) == jobs[j].status = "running" /\ jobs[j].result = "none"

\* The provision playbook reports ready for the generation it has read; some
\* kinds write status.phase too.  A missing resource is not patched.
ReportReady(j) ==
    /\ Reporting(j) /\ jobs[j].kind = "provision" /\ jobs[j].read # NoGen
    /\ jobs' = [jobs EXCEPT ![j].result = "ready"]
    /\ \E phase \in {cr.phase, "ready"} :
          cr' = IF cr.exists
                THEN [cr EXCEPT !.ready = TRUE, !.phase = phase, !.observed = jobs[j].read]
                ELSE cr
    /\ hist' = IF jobs[j].read > hist.applied
               THEN [hist EXCEPT !.applied = jobs[j].read] ELSE hist
    /\ UNCHANGED <<run, aap>>

\* It exits 0 without being ready (PendingPrereq), or its rescue reports the
\* failure.
ReportNotReady(j) ==
    /\ Reporting(j) /\ jobs[j].kind = "provision"
    /\ hist.failures < MaxFailures
    /\ \E result \in {"notReady", "failed"} :
          jobs' = [jobs EXCEPT ![j].result = result]
    /\ cr' = IF cr.exists THEN [cr EXCEPT !.ready = FALSE] ELSE cr
    /\ hist' = [hist EXCEPT !.failures = @ + 1]
    /\ UNCHANGED <<run, aap>>

ReportComplete(j) ==
    /\ Reporting(j) /\ jobs[j].kind = "teardown"
    /\ jobs' = [jobs EXCEPT ![j].result = "complete"]
    /\ cr' = IF cr.exists THEN [cr EXCEPT !.ready = TRUE, !.complete = TRUE] ELSE cr
    /\ hist' = [hist EXCEPT !.toreDown = TRUE]
    /\ UNCHANGED <<run, aap>>

\* Mutant: the playbook reports the failure and exits 0.
ReportTeardownExitsZero(j) ==
    /\ Reporting(j) /\ jobs[j].kind = "teardown"
    /\ hist.failures < MaxFailures
    /\ jobs' = [jobs EXCEPT ![j].result = "notReady"]
    /\ cr' = IF cr.exists THEN [cr EXCEPT !.ready = FALSE, !.complete = FALSE] ELSE cr
    /\ hist' = [hist EXCEPT !.failures = @ + 1]
    /\ UNCHANGED <<run, aap>>

\* A blocked or failed teardown reports deletionComplete: false.
ReportTeardownFailed(j) ==
    /\ Reporting(j) /\ jobs[j].kind = "teardown"
    /\ hist.failures < MaxFailures
    /\ jobs' = [jobs EXCEPT ![j].result = "failed"]
    /\ cr' = IF cr.exists THEN [cr EXCEPT !.ready = FALSE, !.complete = FALSE] ELSE cr
    /\ hist' = [hist EXCEPT !.failures = @ + 1]
    /\ UNCHANGED <<run, aap>>

\* The playbook has nothing to read: its rescue has nothing to patch either.
ReportMissing(j) ==
    /\ Reporting(j) /\ jobs[j].kind = "provision" /\ jobs[j].read = NoGen
    /\ jobs' = [jobs EXCEPT ![j].result = "failed"]
    /\ UNCHANGED <<cr, run, aap, hist>>

\* The job ends some time after its playbook has reported.
EndJob(j) ==
    /\ jobs[j].status = "running" /\ jobs[j].result # "none"
    /\ LET end == IF jobs[j].result = "failed" THEN "failed" ELSE "successful" IN
       jobs' = [jobs EXCEPT ![j].status = end]
    /\ UNCHANGED <<cr, run, aap, hist>>

\* The job dies without a report.
KillJob(j) ==
    /\ jobs[j].status \in Active /\ hist.failures < MaxFailures
    /\ jobs' = [jobs EXCEPT ![j].status = "failed"]
    /\ hist' = [hist EXCEPT !.failures = @ + 1]
    /\ UNCHANGED <<cr, run, aap>>

\* A cancelled job stops, unless it ends first.
StopCancelled(j) ==
    /\ jobs[j].status \in Active /\ jobs[j].cancelled
    /\ jobs' = [jobs EXCEPT ![j].status = "failed"]
    /\ UNCHANGED <<cr, run, aap, hist>>

GoOverdue(j) ==
    /\ jobs[j].status \in Active /\ ~ jobs[j].overdue
    /\ hist.overdues < MaxOverdue
    /\ jobs' = [jobs EXCEPT ![j].overdue = TRUE]
    /\ hist' = [hist EXCEPT !.overdues = @ + 1]
    /\ UNCHANGED <<cr, run, aap>>

\* AAP cleans up the record of a job that has ended.
PurgeJob(j) ==
    /\ j = cr.job /\ jobs[j].status \in Ended
    /\ hist.failures < MaxFailures
    /\ jobs' = [jobs EXCEPT ![j].status = "missing"]
    /\ hist' = [hist EXCEPT !.failures = @ + 1]
    /\ UNCHANGED <<cr, run, aap>>

-----------------------------------------------------------------------------
User == Edit \/ SetNow \/ Delete

Operator ==
    \/ StartRun \/ ClearNow \/ NoCredentials \/ QueryJob
    \/ RecordSuccess \/ KeepSuccess \/ WaitForJob \/ CancelJob
    \/ AwaitCompletion \/ TemplateMissing \/ LaunchJob \/ TrackJob
    \/ FallThrough \/ WaitTeardown \/ ReleaseFinalizer

Playbook(j) ==
    \/ AcceptJob(j) \/ StartPlaybook(j) \/ ReportReady(j)
    \/ ReportNotReady(j) \/ ReportComplete(j) \/ ReportTeardownFailed(j)
    \/ ReportMissing(j) \/ EndJob(j) \/ StopCancelled(j)

Mishap(j) == KillJob(j) \/ GoOverdue(j) \/ PurgeJob(j)

Next ==
    \/ User \/ InstallAap \/ Operator \/ Interrupt
    \/ \E j \in JobIds : Playbook(j) \/ Mishap(j)

\* Runs go on (reconcilePeriod and requeues), jobs run to their end, and the
\* installation of AAP completes.  Users and mishaps owe nothing.
Fairness ==
    /\ WF_vars(Operator) /\ WF_vars(InstallAap)
    /\ \A j \in JobIds : WF_vars(Playbook(j))

Spec == Init /\ [][Next]_vars /\ Fairness

-----------------------------------------------------------------------------
(* Properties *)

TypeOK ==
    /\ cr \in Crs
    /\ run \in Runs
    /\ jobs \in [JobIds -> Jobs]
    /\ aap \in {"noCredentials", "noTemplates", "seeded"}
    /\ hist \in Histories

\* The resource goes away only after a teardown playbook has reported that it
\* is done: "keep finalizer until deletionComplete" (aap_job.yml:3), whatever
\* fails or dies on the way (main.yml:37-40).
FinalizerWaitsForTeardown == ~ cr.exists => hist.toreDown

\* reconcileNow "fires once per set" (aap_job.yml:24): at most that often, so
\* an annotation that cannot be removed never becomes a relaunch loop.
ReconcileNowOncePerSet == hist.forced <= hist.nows

\* status.aapJob.generation is the generation the tracked job was launched
\* for, through every patch that copies it (a job adopted from an older image
\* has none).
TrackedGeneration ==
    cr.job # NoJob /\ jobs[cr.job].gen # NoGen => cr.jobGen = jobs[cr.job].gen

\* "End after ready" is only reached when a playbook has read this generation
\* or a later one and reported ready: a spec change made while a job ran is
\* never taken for applied.  (After an interrupted run, or a job given up as
\* overdue, two jobs may report.)
EndsOnlyWhenApplied ==
    [][ RecordSuccess /\ hist.interrupts + hist.overdues = 0 /\ jobs[run.job].gen # NoGen
            => jobs[run.job].result = "ready" /\ jobs[run.job].read >= run.gen ]_vars

\* Unless a run has been interrupted, no job of the resource escapes the operator:
\* a job that is not over is the tracked one, or is about to be, or has been
\* given up as overdue, or is a provision superseded by the deletion.
NoUntrackedJob ==
    \A j \in JobIds :
        hist.interrupts = 0 /\ jobs[j].status \in Active =>
            \/ j = cr.job
            \/ run.pc = "track" /\ j = run.launched
            \/ jobs[j].overdue
            \/ cr.deleting /\ jobs[j].kind = "provision"

\* Every generation is eventually applied, or superseded, or the resource is
\* deleted: an edit during a job, a failed job or a missing AAP only delays it.
SpecApplied ==
    \A g \in Gens :
        cr.gen = g /\ ~ cr.deleting ~> hist.applied >= g \/ cr.deleting

\* A deleted resource eventually goes away.
DeletionCompletes == cr.deleting ~> ~ cr.exists

-----------------------------------------------------------------------------
(* What comments of the role say and the role does not do *)

LaunchStep == run.pc # "track" /\ run'.pc = "track"

\* "A job launched for N ... relaunches exactly once: ... the next success with
\* ready=true matches and ends" (aap_job.yml:21-23): no launch follows a job
\* that succeeded for this generation and reported ready, unless asked for.
SuccessMatchesAndEnds ==
    [][ LaunchStep /\ run.seen = "successful" /\ ~ run.deleting /\ ~ run.force
          => ~ (jobs[run.job].result = "ready" /\ jobs[run.job].gen = run.gen) ]_vars

\* "Cancel stale or wrong-type job before relaunch" (aap_job.yml:206): the job
\* that is replaced is over when its successor is launched.
CancelledBeforeRelaunch ==
    [][ LaunchStep /\ run.job # NoJob => jobs[run.job].status \notin Active ]_vars
=============================================================================
