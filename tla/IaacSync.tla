------------------------------ MODULE IaacSync ------------------------------
(***************************************************************************)
(* The config-as-code export (iaac/src): one pod that lists the resources  *)
(* of the cluster in passes and mirrors each as a file of a Gitea          *)
(* repository, first through Gitea's API, then once more as a commit of    *)
(* its own clone, and reports on the Iaac resource.                        *)
(*                                                                         *)
(* Every call to the API server or to Gitea is a step, so the cluster may  *)
(* change between any two of them.  A call may fail before or after it     *)
(* took effect, and the pod may die anywhere; its volume survives it, the  *)
(* set of paths it has tracked does not.  A file is named after its        *)
(* resource (gitea_path), one file for each.                               *)
(***************************************************************************)
EXTENDS Naturals, FiniteSets

CONSTANTS
    Resources,      \* the resources that may exist
    Kinds,          \* WATCHED_KINDS, in whatever order
    KindOf,         \* resource -> its kind
    Contents,       \* what a file can hold
    MaxChanges,     \* bound: changes of resources by others
    MaxMishaps      \* bound: calls that fail, and restarts of the pod

ASSUME IaacAssumption ==
    /\ IsFiniteSet(Resources)
    /\ KindOf \in [Resources -> Kinds]
    /\ "none" \notin Contents
    /\ MaxChanges \in Nat /\ MaxMishaps \in Nat

VARIABLES
    cluster,    \* resource -> its content (strip_cr), or "none"
    repo,       \* resource -> the content of its file on the default branch, or "none"
    mirror,     \* the clone on the volume: its files, and whether it can still push
    tracked,    \* tracked_paths
    pass,       \* the pass under way, or the last one when at = "idle"
    status,     \* what the Iaac resource says
    changed,    \* history: the resources that changed since the pass began
    lost,       \* history: something made the pod lose track of a file
    changes, mishaps

vars == <<cluster, repo, mirror, tracked, pass, status, changed, lost, changes, mishaps>>

Files == [Resources -> Contents \cup {"none"}]
NoFiles == [r \in Resources |-> "none"]
FilesOf(f) == {r \in Resources : f[r] # "none"}

Idle == [at |-> "idle", kinds |-> {}, items |-> NoFiles, expected |-> {}, orphans |-> {},
         errors |-> FALSE, missed |-> {}, reported |-> FALSE]

Mishap == mishaps < MaxMishaps /\ mishaps' = mishaps + 1

Init ==
    /\ cluster = NoFiles
    /\ repo = NoFiles
    /\ mirror = [files |-> NoFiles, git |-> FALSE, pushes |-> FALSE]
    /\ tracked = {}
    /\ pass = Idle
    /\ status = [ready |-> FALSE, synced |-> 0]
    /\ changed = {}
    /\ lost = FALSE
    /\ changes = 0
    /\ mishaps = 0

\* A resource is created, changed or deleted.
Change(r, c) ==
    /\ changes < MaxChanges
    /\ c # cluster[r]
    /\ cluster' = [cluster EXCEPT ![r] = c]
    /\ changed' = changed \cup {r}
    /\ changes' = changes + 1
    /\ UNCHANGED <<repo, mirror, tracked, pass, status, lost, mishaps>>

-----------------------------------------------------------------------------
(* The loop, from one pass to the next. *)

\* What initialize_repo makes of the volume.  An empty directory is cloned.
\* Files without a .git are adopted: the remote branch is checked out beside
\* them unless one of them is in its way, and then the new branch has no
\* upstream, so nothing can be pushed from it.
Cloned ==
    CASE mirror.git -> mirror
      [] ~mirror.git /\ mirror.files = NoFiles ->
            [files |-> repo, git |-> TRUE, pushes |-> TRUE]
      [] OTHER ->
            IF FilesOf(mirror.files) \cap FilesOf(repo) = {}
            THEN [files |-> [r \in Resources |->
                                IF repo[r] # "none" THEN repo[r] ELSE mirror.files[r]],
                  git |-> TRUE, pushes |-> TRUE]
            ELSE [mirror EXCEPT !.git = TRUE]

Begin ==
    /\ pass.at = "idle"
    /\ pass' = [Idle EXCEPT !.at = "sync", !.kinds = Kinds]
    /\ changed' = {}

ensure_ready ==
    /\ Begin
    /\ mirror' = Cloned
    /\ UNCHANGED <<cluster, repo, tracked, status, lost, changes, mishaps>>

\* The clone fails, or the adoption halfway, which leaves a .git behind.
CloneFails ==
    /\ Mishap
    /\ ~mirror.git
    /\ Begin
    /\ mirror' \in {mirror} \cup
                   IF mirror.files = NoFiles THEN {} ELSE {[mirror EXCEPT !.git = TRUE]}
    /\ UNCHANGED <<cluster, repo, tracked, status, lost, changes>>

\* Gitea does not answer the ping: report_waiting.
PingFails ==
    /\ pass.at = "idle"
    /\ Mishap
    /\ status' = [ready |-> FALSE, synced |-> status.synced]
    /\ UNCHANGED <<cluster, repo, mirror, tracked, pass, changed, lost, changes>>

-----------------------------------------------------------------------------
(* full_sync. *)

\* The next kind is listed when the files of the one before are written.
Lists(k) == pass.at = "sync" /\ pass.items = NoFiles /\ k \in pass.kinds

list_kind(k) ==
    /\ Lists(k)
    /\ pass' = [pass EXCEPT !.kinds = @ \ {k},
                            !.items = [r \in Resources |->
                                          IF KindOf[r] = k THEN cluster[r] ELSE "none"]]
    /\ UNCHANGED <<cluster, repo, mirror, tracked, status, changed, lost, changes, mishaps>>

\* A list that the API server refuses counts as an empty one.
ListFails(k) ==
    /\ Mishap
    /\ Lists(k)
    /\ pass' = [pass EXCEPT !.kinds = @ \ {k}, !.missed = @ \cup {k}]
    /\ UNCHANGED <<cluster, repo, mirror, tracked, status, changed, lost, changes>>

\* No connection at all ends the pass: report_error.
ListRaises(k) ==
    /\ Mishap
    /\ Lists(k)
    /\ pass' = [pass EXCEPT !.at = "idle"]
    /\ status' = [ready |-> FALSE, synced |-> status.synced]
    /\ lost' = (lost \/ ~(pass.expected \subseteq tracked))
    /\ UNCHANGED <<cluster, repo, mirror, tracked, changed, changes>>

\* A commit through Gitea's API, which the clone does not have.
Commits(r, c) ==
    /\ repo' = [repo EXCEPT ![r] = c]
    /\ mirror' = [mirror EXCEPT !.pushes = FALSE]

Writes(r) == pass.at = "sync" /\ pass.items[r] # "none"

upsert_file(r) ==
    /\ Writes(r)
    /\ repo' = [repo EXCEPT ![r] = pass.items[r]]
    /\ mirror' = [mirror EXCEPT !.files[r] = pass.items[r], !.pushes = FALSE]
    /\ pass' = [pass EXCEPT !.items[r] = "none", !.expected = @ \cup {r}]
    /\ UNCHANGED <<cluster, tracked, status, changed, lost, changes, mishaps>>

\* Mutant: a file that could not be written counts as written.
UpsertErrorUnseen(p, r) == [p EXCEPT !.items[r] = "none"]

UpsertError(p, r) == [p EXCEPT !.items[r] = "none", !.errors = TRUE]

\* The call fails, before or after it took effect (then its retry does), or
\* the file cannot be written to the volume.
UpsertFails(r) ==
    /\ Mishap
    /\ Writes(r)
    /\ pass' = UpsertError(pass, r)
    /\ \/ UNCHANGED <<repo, mirror, lost>>
       \/ Commits(r, pass.items[r]) /\ lost' = (lost \/ r \notin tracked)
    /\ UNCHANGED <<cluster, tracked, status, changed, changes>>

\* Mutant: the kinds that showed nothing keep their files.
OrphansOfListed == {r \in tracked \ pass.expected :
                       \E s \in pass.expected : KindOf[s] = KindOf[r]}

Orphans == tracked \ pass.expected

AllWritten ==
    /\ pass.at = "sync" /\ pass.kinds = {} /\ pass.items = NoFiles
    /\ pass' = [pass EXCEPT !.at = "clean", !.orphans = Orphans]
    /\ UNCHANGED <<cluster, repo, mirror, tracked, status, changed, lost, changes, mishaps>>

delete_file(r) ==
    /\ pass.at = "clean" /\ r \in pass.orphans
    /\ pass' = [pass EXCEPT !.orphans = @ \ {r}]
    /\ IF repo[r] = "none"
       THEN repo' = repo /\ mirror' = [mirror EXCEPT !.files[r] = "none"]
       ELSE /\ repo' = [repo EXCEPT ![r] = "none"]
            /\ mirror' = [mirror EXCEPT !.files[r] = "none", !.pushes = FALSE]
    /\ UNCHANGED <<cluster, tracked, status, changed, lost, changes, mishaps>>

DeleteFails(r) ==
    /\ Mishap
    /\ pass.at = "clean" /\ r \in pass.orphans
    /\ pass' = [pass EXCEPT !.orphans = @ \ {r}, !.errors = TRUE]
    /\ \/ UNCHANGED <<repo, mirror>> /\ lost' = TRUE
       \/ Commits(r, "none") /\ UNCHANGED lost
    /\ UNCHANGED <<cluster, tracked, status, changed, changes>>

\* Mutant: only what was there before stays tracked.
TrackedBefore == tracked \cap pass.expected

Tracked == pass.expected

AllClean ==
    /\ pass.at = "clean" /\ pass.orphans = {}
    /\ tracked' = Tracked
    /\ pass' = [pass EXCEPT !.at = "push"]
    /\ UNCHANGED <<cluster, repo, mirror, status, changed, lost, changes, mishaps>>

\* The commit of the clone is taken only if the clone has every commit of
\* the branch; whether it was is not looked at.
git_commit_push ==
    /\ pass.at = "push"
    /\ pass' = [pass EXCEPT !.at = "report"]
    /\ IF mirror.git /\ mirror.pushes
       THEN /\ repo' = mirror.files
            /\ lost' = (lost \/ ~(FilesOf(mirror.files) \subseteq tracked))
       ELSE UNCHANGED <<repo, lost>>
    /\ UNCHANGED <<cluster, mirror, tracked, status, changed, changes, mishaps>>

\* Mutant: the total goes on from pass to pass.
SyncedSoFar == status.synced + Cardinality(pass.expected)

Synced == Cardinality(pass.expected)

report ==
    /\ pass.at = "report"
    /\ status' = [ready |-> ~pass.errors, synced |-> Synced]
    /\ pass' = [pass EXCEPT !.at = "idle", !.reported = TRUE]
    /\ UNCHANGED <<cluster, repo, mirror, tracked, changed, lost, changes, mishaps>>

\* The status cannot be patched: the loop goes on all the same.
ReportFails ==
    /\ Mishap
    /\ pass.at = "report"
    /\ pass' = [pass EXCEPT !.at = "idle"]
    /\ UNCHANGED <<cluster, repo, mirror, tracked, status, changed, lost, changes>>

\* The pod is killed and starts again: main, with nothing tracked.
Restart ==
    /\ Mishap
    /\ tracked' = {}
    /\ pass' = Idle
    /\ lost' = TRUE
    /\ UNCHANGED <<cluster, repo, mirror, status, changed, changes>>

-----------------------------------------------------------------------------

\* What the pod does by itself when every call succeeds.
Works ==
    \/ ensure_ready \/ AllWritten \/ AllClean \/ git_commit_push \/ report
    \/ \E k \in Kinds : list_kind(k)
    \/ \E r \in Resources : upsert_file(r) \/ delete_file(r)

Fails ==
    \/ CloneFails \/ PingFails \/ ReportFails \/ Restart
    \/ \E k \in Kinds : ListFails(k) \/ ListRaises(k)
    \/ \E r \in Resources : UpsertFails(r) \/ DeleteFails(r)

Next ==
    \/ \E r \in Resources, c \in Contents \cup {"none"} : Change(r, c)
    \/ Works
    \/ Fails

Spec == Init /\ [][Next]_vars

\* The loop of main runs for the life of the pod.
FairSpec == Spec /\ WF_vars(Works)

-----------------------------------------------------------------------------
(* Properties. *)

Passes ==
    [at : {"idle", "sync", "clean", "push", "report"}, kinds : SUBSET Kinds,
     items : Files, expected : SUBSET Resources, orphans : SUBSET Resources,
     errors : BOOLEAN, missed : SUBSET Kinds, reported : BOOLEAN]

\* Type invariant.
TypeOK ==
    /\ cluster \in Files /\ repo \in Files
    /\ mirror \in [files : Files, git : BOOLEAN, pushes : BOOLEAN]
    /\ tracked \subseteq Resources /\ changed \subseteq Resources
    /\ pass \in Passes
    /\ status \in [ready : BOOLEAN, synced : 0..Cardinality(Resources)]
    /\ lost \in BOOLEAN /\ changes \in 0..MaxChanges /\ mishaps \in 0..MaxMishaps

Reported == pass.at = "idle" /\ pass.reported /\ status.ready

\* When a pass has reported ready, the repository holds every resource as it
\* is, and as many files of the pod's as it says, for the kinds that could be
\* listed and the resources that did not change meanwhile; a file of a
\* resource that is gone is one the pod has lost track of.
ReadyIsMirrored ==
    Reported =>
        /\ status.synced = Cardinality(FilesOf(repo) \cap tracked)
        /\ \A r \in Resources :
              KindOf[r] \notin pass.missed /\ r \notin changed =>
                  \/ repo[r] = cluster[r]
                  \/ cluster[r] = "none" /\ r \notin tracked /\ lost

\* Every file is one the pod will remove when its resource goes, unless a
\* restart, a failed call or a push of old files made it lose track.
FilesAreTracked == ~lost => FilesOf(repo) \subseteq tracked \cup pass.expected

\* Whatever has failed, once nothing changes any more the repository comes
\* to hold every resource as it is, and the Iaac resource says so; the files
\* that remain beyond are those the pod has lost track of.
EventuallyMirrored ==
    <>[](/\ status.ready
         /\ \A r \in Resources :
               \/ repo[r] = cluster[r]
               \/ cluster[r] = "none" /\ r \notin tracked /\ lost)

\* READY is "last sync completed with no errors" and CRS SYNCED "how many CRs
\* are in the repo" (docs/workshop/lab-10-iaac.md): when a pass has reported
\* ready, no resource that was there all along is missing.
ReadyIsComplete ==
    Reported => \A r \in Resources \ changed : cluster[r] # "none" => repo[r] = cluster[r]
=============================================================================
