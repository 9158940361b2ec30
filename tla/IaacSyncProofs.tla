--------------------------- MODULE IaacSyncProofs ---------------------------
(***************************************************************************)
(* For any resources, kinds and contents, and any number of changes,       *)
(* failed calls and restarts: every file of the repository is one that the *)
(* pod will remove when its resource goes, and a pass that reports ready   *)
(* has mirrored what it could list.                                        *)
(*                                                                         *)
(* A pass reads, writes and reports in many steps, so what it reports is   *)
(* the outcome of the whole: PassKnows says what has become so far of each *)
(* resource it has listed, Cleans what has become of the files it is to    *)
(* remove, and CloneIsOld that a clone which can still push has nothing    *)
(* that would overwrite the branch.                                        *)
(***************************************************************************)
EXTENDS IaacSync, FiniteSetTheorems, TLAPS

\* A pass is under way, or ended with a report.
Counts == pass.at # "idle" \/ pass.reported

\* What the pass is yet to write is of kinds already listed, and not written yet.
ListedOnce ==
    /\ pass.reported => pass.at = "idle"
    /\ Counts => \A r \in Resources :
          /\ pass.items[r] # "none" => KindOf[r] \notin pass.kinds
          /\ r \in pass.expected => KindOf[r] \notin pass.kinds /\ pass.items[r] = "none"
    /\ Counts /\ pass.at # "sync" => pass.kinds = {} /\ pass.items = NoFiles

\* As long as nothing failed, a resource that was listed and has not changed since is
\* yet to be written, or its file is as it is, or it was not there.
PassKnows ==
    Counts /\ ~ pass.errors => \A r \in Resources :
        KindOf[r] \notin pass.kinds \cup pass.missed /\ r \notin changed =>
            \/ pass.items[r] = cluster[r] /\ r \notin pass.expected
            \/ r \in pass.expected /\ repo[r] = cluster[r]

\* Files written are there, and the files of tracked resources that the pass did not
\* find go one after the other.
Cleans ==
    /\ Counts => pass.expected \subseteq FilesOf(repo)
    /\ pass.at = "clean" =>
          /\ pass.orphans \subseteq tracked \ pass.expected
          /\ ~ lost => FilesOf(repo) \cap (tracked \ pass.expected) \subseteq pass.orphans
    /\ pass.at \in {"push", "report"} \/ pass.reported => tracked = pass.expected
    /\ pass.at = "idle" /\ ~ lost => pass.expected \subseteq tracked

\* Since the clone was last in step with the branch nothing was written through the
\* API.
CloneIsOld ==
    mirror.pushes =>
        /\ mirror.git /\ pass.expected = {}
        /\ \A r \in FilesOf(repo) : mirror.files[r] = repo[r]

Reports ==
    pass.reported => /\ status.ready => ~ pass.errors
                     /\ status.synced = Cardinality(pass.expected)

IInv ==
    /\ TypeOK /\ ListedOnce /\ PassKnows /\ Cleans /\ CloneIsOld /\ Reports
    /\ FilesAreTracked

-----------------------------------------------------------------------------
(* Type correctness *)

LEMMA IdleType ==
    /\ NoFiles \in Files /\ Idle \in Passes
    /\ Idle.at = "idle" /\ Idle.kinds = {} /\ Idle.items = NoFiles
    /\ Idle.expected = {} /\ Idle.orphans = {} /\ ~ Idle.errors
    /\ Idle.missed = {} /\ ~ Idle.reported
<1>1. NoFiles \in Files
    BY DEF NoFiles, Files
<1> QED
    BY <1>1 DEF Idle, Passes

\* How many files a pass can count.
LEMMA SyncedType ==
    ASSUME TypeOK
    PROVE  Cardinality(pass.expected) \in 0..Cardinality(Resources)
<1>1. pass.expected \subseteq Resources
    BY DEF TypeOK, Passes
<1>2. IsFiniteSet(Resources)
    BY IaacAssumption
<1>3. IsFiniteSet(pass.expected) /\ Cardinality(pass.expected) <= Cardinality(Resources)
    BY <1>1, <1>2, FS_Subset
<1>4. Cardinality(pass.expected) \in Nat /\ Cardinality(Resources) \in Nat
    BY <1>2, <1>3, FS_CardinalityType
<1> QED
    BY <1>3, <1>4

LEMMA InitTypeOK == Init => TypeOK
<1> SUFFICES ASSUME Init PROVE TypeOK
    OBVIOUS
<1>1. IsFiniteSet(Resources) /\ MaxChanges \in Nat /\ MaxMishaps \in Nat
    BY IaacAssumption
<1>2. Cardinality(Resources) \in Nat
    BY <1>1, FS_CardinalityType
<1>3. mirror \in [files : Files, git : BOOLEAN, pushes : BOOLEAN]
    BY IdleType DEF Init
<1>4. status \in [ready : BOOLEAN, synced : 0..Cardinality(Resources)]
    BY <1>2 DEF Init
<1>5. cluster \in Files /\ repo \in Files /\ pass \in Passes
    BY IdleType DEF Init
<1>6. changes \in 0..MaxChanges /\ mishaps \in 0..MaxMishaps
    BY <1>1 DEF Init
<1>7. tracked \subseteq Resources /\ changed \subseteq Resources /\ lost \in BOOLEAN
    BY DEF Init
<1> QED
    BY <1>3, <1>4, <1>5, <1>6, <1>7 DEF TypeOK

\* What the pod's calls to Gitea leave of the types.
LEMMA ClonedType == TypeOK => Cloned \in [files : Files, git : BOOLEAN, pushes : BOOLEAN]
<1> SUFFICES ASSUME TypeOK
             PROVE  Cloned \in [files : Files, git : BOOLEAN, pushes : BOOLEAN]
    OBVIOUS
<1>1. [r \in Resources |-> IF repo[r] # "none" THEN repo[r] ELSE mirror.files[r]] \in Files
    BY DEF TypeOK, Files
<1> QED
    BY <1>1 DEF Cloned, TypeOK

LEMMA MishapType == TypeOK /\ Mishap => mishaps' \in 0..MaxMishaps
BY IaacAssumption DEF TypeOK, Mishap

LEMMA TypeStep == TypeOK /\ [Next]_vars => TypeOK'
<1> SUFFICES ASSUME TypeOK, [Next]_vars PROVE TypeOK'
    OBVIOUS
<1> USE DEF TypeOK
<1>1. ASSUME NEW r \in Resources, NEW c \in Contents \cup {"none"}, Change(r, c)
      PROVE  TypeOK'
    BY <1>1, IaacAssumption DEF Change, Files
<1>2. CASE ensure_ready
    BY <1>2, IdleType, ClonedType DEF ensure_ready, Begin, Passes
<1>3. CASE CloneFails
    BY <1>3, IdleType, MishapType DEF CloneFails, Begin, Passes
<1>4. CASE PingFails
    BY <1>4, MishapType DEF PingFails
<1>5. ASSUME NEW k \in Kinds, list_kind(k) PROVE TypeOK'
    <2>1. [r \in Resources |-> IF KindOf[r] = k THEN cluster[r] ELSE "none"] \in Files
        BY DEF Files
    <2> QED
        BY <1>5, <2>1 DEF list_kind, Passes
<1>6. ASSUME NEW k \in Kinds, ListFails(k) PROVE TypeOK'
    BY <1>6, MishapType DEF ListFails, Passes
<1>7. ASSUME NEW k \in Kinds, ListRaises(k) PROVE TypeOK'
    BY <1>7, MishapType DEF ListRaises, Passes
<1>8. ASSUME NEW r \in Resources, upsert_file(r) PROVE TypeOK'
    BY <1>8 DEF upsert_file, Writes, Files, Passes
<1>9. ASSUME NEW r \in Resources, UpsertFails(r) PROVE TypeOK'
    <2>1. pass' \in Passes
        BY <1>9 DEF UpsertFails, UpsertError, Passes, Files
    <2>2. repo' \in Files
        BY <1>9 DEF UpsertFails, Commits, Files, Passes
    <2>3. mirror' \in [files : Files, git : BOOLEAN, pushes : BOOLEAN]
        BY <1>9 DEF UpsertFails, Commits
    <2>4. lost' \in BOOLEAN
        BY <1>9 DEF UpsertFails
    <2> QED
        BY <1>9, <2>1, <2>2, <2>3, <2>4, MishapType DEF UpsertFails
<1>10. CASE AllWritten
    BY <1>10 DEF AllWritten, Orphans, Passes
<1>11. ASSUME NEW r \in Resources, delete_file(r) PROVE TypeOK'
    <2>1. pass' \in Passes
        BY <1>11 DEF delete_file, Passes
    <2>2. repo' \in Files
        BY <1>11 DEF delete_file, Files
    <2>3. [mirror.files EXCEPT ![r] = "none"] \in Files
        BY DEF Files
    <2>4. mirror' \in [files : Files, git : BOOLEAN, pushes : BOOLEAN]
        BY <1>11, <2>3 DEF delete_file
    <2> QED
        BY <1>11, <2>1, <2>2, <2>4 DEF delete_file
<1>12. ASSUME NEW r \in Resources, DeleteFails(r) PROVE TypeOK'
    <2>1. pass' \in Passes
        BY <1>12 DEF DeleteFails, Passes
    <2> QED
        BY <1>12, <2>1, MishapType DEF DeleteFails, Commits, Files
<1>13. CASE AllClean
    BY <1>13 DEF AllClean, Tracked, Passes
<1>14. CASE git_commit_push
    BY <1>14 DEF git_commit_push, Passes
<1>15. CASE report
    <2>1. pass' \in Passes
        BY <1>15 DEF report, Passes
    <2> QED
        BY <1>15, <2>1, SyncedType DEF report, Synced, Passes
<1>16. CASE ReportFails
    BY <1>16, MishapType DEF ReportFails, Passes
<1>17. CASE Restart
    BY <1>17, MishapType, IdleType DEF Restart
<1>18. CASE UNCHANGED vars
    BY <1>18 DEF vars
<1> QED
    BY <1>1, <1>2, <1>3, <1>4, <1>5, <1>6, <1>7, <1>8, <1>9, <1>10, <1>11, <1>12,
       <1>13, <1>14, <1>15, <1>16, <1>17, <1>18 DEF Next, Works, Fails

\* The variables keep their types.
THEOREM TypeCorrect == Spec => []TypeOK
BY InitTypeOK, TypeStep, PTL DEF Spec

-----------------------------------------------------------------------------
(* The invariant *)

LEMMA InitIInv == Init => IInv
<1> SUFFICES ASSUME Init PROVE IInv
    OBVIOUS
<1>1. pass.at = "idle" /\ ~ pass.reported /\ ~ mirror.pushes /\ pass.expected = {}
    BY IdleType DEF Init
<1>2. FilesOf(repo) = {}
    BY DEF Init, FilesOf, NoFiles
<1> QED
    BY <1>1, <1>2, InitTypeOK DEF IInv, ListedOnce, Counts, PassKnows, Cleans, CloneIsOld,
       Reports, FilesAreTracked

\* A pass that begins knows nothing yet.
Begun ==
    /\ pass.at = "idle" /\ pass.at' = "sync" /\ pass.expected' = {} /\ pass.items' = NoFiles
    /\ pass.kinds' = Kinds /\ ~ pass.reported' /\ ~ pass.errors'

LEMMA BeginEffect == Begin => Begun
BY IdleType DEF Begin, Begun, Idle

\* A step that keeps the types keeps the rest of the invariant.
LEMMA IInvStep == IInv /\ [Next]_vars => IInv'
<1> SUFFICES ASSUME IInv, [Next]_vars PROVE IInv'
    OBVIOUS
<1>0. TypeOK /\ TypeOK'
    BY TypeStep DEF IInv
<1> DEFINE Rest == ListedOnce /\ PassKnows /\ Cleans /\ CloneIsOld /\ Reports /\ FilesAreTracked
<1>r. Rest
    BY DEF IInv
<1> SUFFICES Rest'
    BY <1>0 DEF IInv
<1> USE DEF ListedOnce, Counts, PassKnows, Cleans, CloneIsOld, Reports, FilesAreTracked, FilesOf
<1>1. ASSUME NEW r \in Resources, NEW c \in Contents \cup {"none"}, Change(r, c)
      PROVE  Rest'
    BY <1>0, <1>r, <1>1 DEF Change, TypeOK, Files
<1>2. CASE ensure_ready
    <2>1. Begun /\ UNCHANGED <<repo, tracked, lost>>
        BY <1>2, BeginEffect DEF ensure_ready
    <2>2. mirror.pushes' => mirror.git' /\ \A r \in FilesOf(repo) : mirror.files[r]' = repo[r]
        BY <1>0, <1>r, <1>2 DEF ensure_ready, Cloned, NoFiles, TypeOK, Files
    <2> QED
        BY <1>0, <1>r, <2>1, <2>2, IaacAssumption DEF Begun, NoFiles, TypeOK, Passes
<1>3. CASE CloneFails
    <2>1. Begun /\ UNCHANGED <<repo, tracked, lost>>
        BY <1>3, BeginEffect DEF CloneFails
    <2>2. ~ mirror.pushes'
        BY <1>0, <1>r, <1>3 DEF CloneFails, TypeOK
    <2> QED
        BY <1>0, <1>r, <2>1, <2>2, IaacAssumption DEF Begun, NoFiles, TypeOK, Passes
<1>4. CASE PingFails
    BY <1>0, <1>r, <1>4 DEF PingFails, TypeOK
<1>5. ASSUME NEW k \in Kinds, list_kind(k) PROVE Rest'
    <2>1. /\ pass.at' = "sync" /\ pass.kinds' = pass.kinds \ {k}
          /\ pass.at = "sync" /\ pass.items = NoFiles /\ k \in pass.kinds
          /\ \A r \in Resources :
                pass.items[r]' = IF KindOf[r] = k THEN cluster[r] ELSE "none"
          /\ pass.expected' = pass.expected /\ pass.errors' = pass.errors
          /\ pass.missed' = pass.missed /\ pass.reported' = pass.reported
          /\ UNCHANGED <<cluster, repo, mirror, tracked, status, changed, lost>>
        BY <1>0, <1>5 DEF list_kind, Lists, TypeOK, Passes
    <2>2. ListedOnce'
        BY <1>r, <2>1 DEF NoFiles
    <2>3. PassKnows'
        BY <1>r, <2>1 DEF NoFiles
    <2>4. (Cleans /\ CloneIsOld /\ Reports /\ FilesAreTracked)'
        BY <1>r, <2>1
    <2> QED
        BY <2>2, <2>3, <2>4
<1>6. ASSUME NEW k \in Kinds, ListFails(k) PROVE Rest'
    BY <1>0, <1>r, <1>6 DEF ListFails, Lists, NoFiles, TypeOK, Passes
<1>7. ASSUME NEW k \in Kinds, ListRaises(k) PROVE Rest'
    BY <1>0, <1>r, <1>7 DEF ListRaises, Lists, TypeOK, Passes
<1>8. ASSUME NEW r \in Resources, upsert_file(r) PROVE Rest'
    BY <1>0, <1>r, <1>8 DEF upsert_file, Writes, TypeOK, Passes, Files
<1>9. ASSUME NEW r \in Resources, UpsertFails(r) PROVE Rest'
    BY <1>0, <1>r, <1>9 DEF UpsertFails, UpsertError, Commits, Writes, TypeOK, Passes, Files
<1>10. CASE AllWritten
    BY <1>0, <1>r, <1>10 DEF AllWritten, Orphans, TypeOK, Passes
<1>11. ASSUME NEW r \in Resources, delete_file(r) PROVE Rest'
    <2>1. /\ pass.at = "clean" /\ pass.at' = "clean" /\ r \in pass.orphans
          /\ pass' = [pass EXCEPT !.orphans = @ \ {r}]
          /\ r \notin pass.expected
          /\ repo' = [repo EXCEPT ![r] = "none"]
          /\ UNCHANGED <<cluster, tracked, status, changed, lost>>
        BY <1>0, <1>r, <1>11 DEF delete_file, TypeOK, Passes, Files
    <2>2. CloneIsOld'
        <3>1. CASE repo[r] = "none"
            <4>1. /\ mirror.pushes' = mirror.pushes /\ mirror.git' = mirror.git
                  /\ mirror.files' = [mirror.files EXCEPT ![r] = "none"]
                  /\ repo' = repo /\ pass.expected' = pass.expected
                BY <1>0, <1>11, <3>1 DEF delete_file, TypeOK, Passes
            <4> QED
                BY <1>0, <1>r, <3>1, <4>1 DEF TypeOK, Files
        <3>2. CASE repo[r] # "none"
            <4>1. ~ mirror.pushes'
                BY <1>0, <1>11, <3>2 DEF delete_file, TypeOK
            <4> QED
                BY <4>1
        <3> QED
            BY <3>1, <3>2
    <2> QED
        BY <1>0, <1>r, <2>1, <2>2 DEF TypeOK, Passes, Files
<1>12. ASSUME NEW r \in Resources, DeleteFails(r) PROVE Rest'
    BY <1>0, <1>r, <1>12 DEF DeleteFails, Commits, TypeOK, Passes, Files
<1>13. CASE AllClean
    BY <1>0, <1>r, <1>13 DEF AllClean, Tracked, TypeOK, Passes
<1>14. CASE git_commit_push
    BY <1>0, <1>r, <1>14 DEF git_commit_push, TypeOK, Passes, Files
<1>15. CASE report
    BY <1>0, <1>r, <1>15 DEF report, Synced, TypeOK, Passes
<1>16. CASE ReportFails
    BY <1>0, <1>r, <1>16 DEF ReportFails, TypeOK, Passes
<1>17. CASE Restart
    BY <1>0, <1>r, <1>17, IdleType DEF Restart, TypeOK
<1>18. CASE UNCHANGED vars
    BY <1>r, <1>18 DEF vars
<1> QED
    BY <1>1, <1>2, <1>3, <1>4, <1>5, <1>6, <1>7, <1>8, <1>9, <1>10, <1>11, <1>12,
       <1>13, <1>14, <1>15, <1>16, <1>17, <1>18 DEF Next, Works, Fails

\* What the proofs of the properties rest on holds of every behaviour of the pod.
THEOREM Inductive == Spec => []IInv
BY InitIInv, IInvStep, PTL DEF Spec

\* FilesAreTracked: every file of the repository is one the pod will remove when its
\* resource goes, unless it has lost track of a file.
THEOREM FilesTracked == Spec => []FilesAreTracked
<1>1. IInv => FilesAreTracked
    BY DEF IInv
<1> QED
    BY <1>1, Inductive, PTL

\* ReadyIsMirrored: a pass that reported ready has mirrored what it could list.
THEOREM ReadyMirrored == Spec => []ReadyIsMirrored
<1>1. IInv => ReadyIsMirrored
    <2> SUFFICES ASSUME IInv, Reported PROVE ReadyIsMirrored
        BY DEF ReadyIsMirrored
    <2>1. ~ pass.errors /\ status.synced = Cardinality(pass.expected)
        BY DEF IInv, Reports, Reported
    <2>2. tracked = pass.expected /\ pass.expected \subseteq FilesOf(repo)
        BY DEF IInv, Cleans, Counts, Reported
    <2>3. FilesOf(repo) \cap tracked = pass.expected
        BY <2>2
    <2>4. ASSUME NEW r \in Resources, KindOf[r] \notin pass.missed, r \notin changed
          PROVE  \/ repo[r] = cluster[r]
                 \/ cluster[r] = "none" /\ r \notin tracked /\ lost
        <3>1. pass.items[r] = "none" /\ pass.kinds = {}
            BY DEF IInv, ListedOnce, Counts, Reported, NoFiles
        <3>2. CASE r \in pass.expected
            BY <2>1, <2>4, <3>1, <3>2 DEF IInv, PassKnows, Counts, Reported
        <3>3. CASE r \notin pass.expected
            <4>1. cluster[r] = "none"
                BY <2>1, <2>4, <3>1, <3>3 DEF IInv, PassKnows, Counts, Reported
            <4>2. r \notin FilesOf(repo) \/ lost
                BY <2>2, <3>3 DEF IInv, FilesAreTracked
            <4> QED
                BY <2>2, <3>3, <4>1, <4>2 DEF FilesOf
        <3> QED
            BY <3>2, <3>3
    <2> QED
        BY <2>1, <2>3, <2>4 DEF ReadyIsMirrored
<1> QED
    BY <1>1, Inductive, PTL
=============================================================================
