----------------------- MODULE DashboardWritesProofs -----------------------
(***************************************************************************)
(* What the dashboards write: proofs about ResourceEdits and CreateForms,  *)
(* together since both rest on the handlers of ServerSpecs, for every set  *)
(* of kinds, of sessions and of entities and every bound.                  *)
(*                                                                         *)
(* ResourceEdits: what is stored and sent has the fields of its kind       *)
(* (TypeCorrect), nothing set up outlives its resource                     *)
(* (NothingIsOrphaned), an answer other than 502 is true (RepliesTrue),    *)
(* and an edit through a dashboard leaves alone what it is not about       *)
(* (TheRestIsKept).  NoOrphans and EditsKeepTheRest are not inductive: a   *)
(* PUT writes what was read at an earlier step, perhaps long after it was  *)
(* given up.  IInv adds what makes it harmless (RequestFits): while the    *)
(* resource has the version the PUT carries, its metadata is the PUT's,    *)
(* and so are the fields the handler is not about.  A new version is one   *)
(* no request carries (StillFits).                                         *)
(*                                                                         *)
(* CreateForms: a chosen reference is one of the entity's own              *)
(* (ChoicesFollowEntity), what the button lets through is refused exactly  *)
(* for what Unchecked names (ButtonIsEnough), and is stored as asked       *)
(* (NothingAskedIsLost) and after its Secret (SecretsComeFirst).  The last *)
(* three are not inductive: what is refused or stored was built when it    *)
(* was submitted, from a form that may have changed since.  FormInv adds   *)
(* that each submission under way is one its server takes, but for what    *)
(* Unchecked names (Sound); the button makes sure of it, kind by kind      *)
(* (ButtonChecks).                                                         *)
(***************************************************************************)
EXTENDS ResourceEdits, CreateForms, TLAPS

-----------------------------------------------------------------------------
(* What the handlers make of a submission *)

SpecValues == Values \cup PlatformTypes
SpecsOf(k) == [Fields[k] -> SpecValues]

\* A handler's validation refuses or throws, or builds a spec of the kind.
Builds(checked, k) == IF checked.ok THEN checked.spec \in SpecsOf(k)
                      ELSE checked.code \in {400, 500}

\* The spec that a create handler sends has the fields of its kind.
LEMMA TenancySpecs ==
    /\ \A f \in SpecsOf("Entity") : Builds(EntityCreated(f), "Entity")
    /\ \A f \in SpecsOf("Team") : Builds(TeamCreated(f), "Team")
    /\ \A f \in SpecsOf("Project") : Builds(ProjectCreated(f), "Project")
    /\ \A f \in SpecsOf("Assignment") : Builds(AssignmentCreated(f), "Assignment")
<1> USE DEF Builds, SpecsOf, SpecValues, Values, Proper, Fields, Sends, SendsIf, Refused, Kept, KeptIfProper
<1>1. \A f \in SpecsOf("Entity") : Builds(EntityCreated(f), "Entity")
    BY DEF EntityCreated
<1>2. \A f \in SpecsOf("Team") : Builds(TeamCreated(f), "Team")
    BY DEF TeamCreated, OrDefault
<1>3. \A f \in SpecsOf("Project") : Builds(ProjectCreated(f), "Project")
    BY DEF ProjectCreated
<1>4. \A f \in SpecsOf("Assignment") : Builds(AssignmentCreated(f), "Assignment")
    BY DEF AssignmentCreated
<1> QED
    BY <1>1, <1>2, <1>3, <1>4

LEMMA ClusterSpecs ==
    \A f \in SpecsOf("PlatformOpenshift") : Builds(PlatformOpenshiftCreated(f), "PlatformOpenshift")
BY DEF Builds, SpecsOf, SpecValues, Values, Proper, PlatformTypes, Fields, SendsIf, Sends, Refused,
       PlatformOpenshiftCreated, Kept, KeptIfProper, OrDefault

LEMMA CloudSpecs ==
    /\ \A f \in SpecsOf("CloudOSO") : Builds(CloudOSOCreated(f), "CloudOSO")
    /\ \A f \in SpecsOf("CloudAWS") : Builds(CloudAWSCreated(f), "CloudAWS")
    /\ \A f \in SpecsOf("CloudVirt") : Builds(CloudVirtCreated(f), "CloudVirt")
    /\ \A f \in SpecsOf("OpenStackMigration") : Builds(OpenStackMigrationCreated(f), "OpenStackMigration")
    /\ \A f \in SpecsOf("CloudOSO") : Builds(CloudOSOPatch(f), "CloudOSO")
<1> USE DEF Builds, SpecsOf, SpecValues, Values, Proper, Fields, Sends, SendsIf, Refused, Kept, KeptIfProper
<1>1. \A f \in SpecsOf("CloudOSO") : Builds(CloudOSOCreated(f), "CloudOSO")
    BY DEF CloudOSOCreated, sanitizeCloudRef
<1>2. \A f \in SpecsOf("CloudAWS") : Builds(CloudAWSCreated(f), "CloudAWS")
    BY DEF CloudAWSCreated, sanitizeCloudRef, Truthy
<1>3. \A f \in SpecsOf("CloudVirt") : Builds(CloudVirtCreated(f), "CloudVirt")
    BY DEF CloudVirtCreated, sanitizeCloudRef, Truthy
<1>4. \A f \in SpecsOf("OpenStackMigration") : Builds(OpenStackMigrationCreated(f), "OpenStackMigration")
    BY DEF OpenStackMigrationCreated, OrDefault, Throws
<1>5. \A f \in SpecsOf("CloudOSO") : Builds(CloudOSOPatch(f), "CloudOSO")
    BY DEF CloudOSOPatch
<1> QED
    BY <1>1, <1>2, <1>3, <1>4, <1>5

LEMMA AccessSpecs ==
    /\ \A f \in SpecsOf("Persona") : Builds(PersonaCreated(f), "Persona")
    /\ \A f \in SpecsOf("Persona") : Builds(EntityPersonaCreated(f), "Persona")
    /\ \A f \in SpecsOf("Rbac") : Builds(RbacCreated(f), "Rbac")
    /\ \A f \in SpecsOf("Rbac") : Builds(EntityRbacCreated(f), "Rbac")
    /\ \A f \in SpecsOf("Rbac") : Builds(EntityRbacPatch(f), "Rbac")
<1> USE DEF Builds, SpecsOf, SpecValues, Values, Proper, Fields, Sends, SendsIf, Refused, Kept, KeptIfProper
<1>1. \A f \in SpecsOf("Persona") : Builds(PersonaCreated(f), "Persona")
    BY DEF PersonaCreated
<1>2. \A f \in SpecsOf("Persona") : Builds(EntityPersonaCreated(f), "Persona")
    BY DEF EntityPersonaCreated
<1>3. \A f \in SpecsOf("Rbac") : Builds(RbacCreated(f), "Rbac")
    BY DEF RbacCreated
<1>4. \A f \in SpecsOf("Rbac") : Builds(EntityRbacCreated(f), "Rbac")
    BY DEF EntityRbacCreated, Throws
<1>5. \A f \in SpecsOf("Rbac") : Builds(EntityRbacPatch(f), "Rbac")
    BY DEF EntityRbacPatch, Throws
<1> QED
    BY <1>1, <1>2, <1>3, <1>4, <1>5

LEMMA ServiceSpecs ==
    /\ \A f \in SpecsOf("Vault") : Builds(VaultCreated(f), "Vault")
    /\ \A f \in SpecsOf("VaultKV") : Builds(VaultKVCreated(f), "VaultKV")
    /\ \A f \in SpecsOf("AAPOrg") : Builds(AAPOrgCreated(f), "AAPOrg")
    /\ \A f \in SpecsOf("QuayOrg") : Builds(QuayOrgCreated(f), "QuayOrg")
<1> USE DEF Builds, SpecsOf, SpecValues, Values, Proper, Fields, Sends, SendsIf, Refused, NameList
<1>1. \A f \in SpecsOf("Vault") : Builds(VaultCreated(f), "Vault")
    BY DEF VaultCreated
<1>2. \A f \in SpecsOf("VaultKV") : Builds(VaultKVCreated(f), "VaultKV")
    BY DEF VaultKVCreated
<1>3. \A f \in SpecsOf("AAPOrg") : Builds(AAPOrgCreated(f), "AAPOrg")
    BY DEF AAPOrgCreated
<1>4. \A f \in SpecsOf("QuayOrg") : Builds(QuayOrgCreated(f), "QuayOrg")
    BY DEF QuayOrgCreated
<1> QED
    BY <1>1, <1>2, <1>3, <1>4

\* The kinds with an update handler that reads first.
UpdateKinds == {"Team", "Rbac", "VaultKV", "AAPOrg", "QuayOrg", "Assignment"}

\* A spec with one field changed agrees with it on the others.
LEMMA FieldChanged ==
    ASSUME NEW S, NEW spec \in [S -> SpecValues], NEW x \in S, NEW v \in SpecValues
    PROVE  /\ [spec EXCEPT ![x] = v] \in [S -> SpecValues]
           /\ \A y \in S \ {x} : [spec EXCEPT ![x] = v][y] = spec[y]
OBVIOUS

\* What an update handler makes of a submission and of the spec it read: a spec
\* of the kind that agrees with the one read outside the handler's own fields.
LEMMA UpdatedSpecs ==
    ASSUME NEW k \in UpdateKinds, NEW f \in SpecsOf(k), NEW cur \in SpecsOf(k),
           Updated(k, f, cur).ok
    PROVE  /\ Updated(k, f, cur).spec \in SpecsOf(k)
           /\ k # "Assignment" =>
                 \A x \in Fields[k] \ UpdatedFields[k] : Updated(k, f, cur).spec[x] = cur[x]
<1> USE DEF Builds, SpecsOf, SpecValues, Values, Proper, Fields, UpdatedFields
<1>1. CASE k = "Team"
    <2> DEFINE
        v1 == OrDefault(f.features, "blank")
        s1 == [cur EXCEPT !.features = v1]
        v2 == IF Truthy(f.rbacConfig) THEN f.rbacConfig ELSE s1.rbacConfig
        s2 == [s1 EXCEPT !.rbacConfig = v2]
        v3 == IF f.teamAdmin \in Proper \cup {"blank"} THEN f.teamAdmin ELSE s2.teamAdmin
        s3 == [s2 EXCEPT !.teamAdmin = v3]
    <2>1. Updated(k, f, cur) = Sends(s3)
        BY <1>1 DEF Updated, TeamUpdated
    <2>2. v1 \in SpecValues
        BY <1>1 DEF OrDefault
    <2>3. s1 \in SpecsOf(k) /\ \A x \in Fields[k] \ {"features"} : s1[x] = cur[x]
        <3> HIDE DEF v1, SpecValues
        <3> QED
            BY <1>1, <2>2, FieldChanged
    <2>4. v2 \in SpecValues
        BY <1>1, <2>3 DEF OrDefault
    <2>5. s2 \in SpecsOf(k) /\ \A x \in Fields[k] \ {"features", "rbacConfig"} : s2[x] = cur[x]
        <3> HIDE DEF v2, s1, SpecValues
        <3> QED
            BY <1>1, <2>4, <2>3, FieldChanged
    <2>6. v3 \in SpecValues
        BY <1>1, <2>5 DEF OrDefault
    <2>7. s3 \in SpecsOf(k) /\ \A x \in Fields[k] \ {"features", "rbacConfig", "teamAdmin"} : s3[x] = cur[x]
        <3> HIDE DEF v3, s2, SpecValues
        <3> QED
            BY <1>1, <2>6, <2>5, FieldChanged
    <2> HIDE DEF s3
    <2> QED
        BY <1>1, <2>1, <2>7 DEF Sends
<1>2. CASE k = "Rbac"
    <2> DEFINE
        v1 == OrDefault(f.config, cur.config)
        s1 == [cur EXCEPT !.config = v1]
        v2 == IF f.description \in {"none", "bad"} THEN s1.description
              ELSE KeptIfProper(f.description)
        s2 == [s1 EXCEPT !.description = v2]
    <2>1. Updated(k, f, cur) = Sends(s2)
        BY <1>2 DEF Updated, RbacUpdated
    <2>2. v1 \in SpecValues
        BY <1>2 DEF OrDefault, KeptIfProper
    <2>3. s1 \in SpecsOf(k) /\ \A x \in Fields[k] \ {"config"} : s1[x] = cur[x]
        <3> HIDE DEF v1, SpecValues
        <3> QED
            BY <1>2, <2>2, FieldChanged
    <2>4. v2 \in SpecValues
        BY <1>2, <2>3 DEF OrDefault, KeptIfProper
    <2>5. s2 \in SpecsOf(k) /\ \A x \in Fields[k] \ {"config", "description"} : s2[x] = cur[x]
        <3> HIDE DEF v2, s1, SpecValues
        <3> QED
            BY <1>2, <2>4, <2>3, FieldChanged
    <2> HIDE DEF s2
    <2> QED
        BY <1>2, <2>1, <2>5 DEF Sends
<1>3. CASE k = "VaultKV"
    <2> DEFINE
        v1 == OrDefault(f.vaultAdminRbac, NameList(cur.vaultAdminRbac))
        s1 == [cur EXCEPT !.vaultAdminRbac = v1]
        v2 == OrDefault(f.vaultReaderRbac, NameList(s1.vaultReaderRbac))
        s2 == [s1 EXCEPT !.vaultReaderRbac = v2]
    <2>1. Updated(k, f, cur) = Sends(s2)
        BY <1>3 DEF Updated, VaultKVUpdated, SendsIf, Refused
    <2>2. v1 \in SpecValues
        BY <1>3 DEF OrDefault, NameList
    <2>3. s1 \in SpecsOf(k) /\ \A x \in Fields[k] \ {"vaultAdminRbac"} : s1[x] = cur[x]
        <3> HIDE DEF v1, SpecValues
        <3> QED
            BY <1>3, <2>2, FieldChanged
    <2>4. v2 \in SpecValues
        BY <1>3, <2>3 DEF OrDefault, NameList
    <2>5. s2 \in SpecsOf(k) /\ \A x \in Fields[k] \ {"vaultAdminRbac", "vaultReaderRbac"} : s2[x] = cur[x]
        <3> HIDE DEF v2, s1, SpecValues
        <3> QED
            BY <1>3, <2>4, <2>3, FieldChanged
    <2> HIDE DEF s2
    <2> QED
        BY <1>3, <2>1, <2>5 DEF Sends
<1>4. CASE k = "AAPOrg"
    <2> DEFINE
        v1 == NameList(f.aapAdminRbac)
        s1 == [cur EXCEPT !.aapAdminRbac = v1]
        v2 == NameList(f.aapJobExecutorRbac)
        s2 == [s1 EXCEPT !.aapJobExecutorRbac = v2]
        v3 == IF f.description \in {"none", "bad"} THEN s2.description ELSE f.description
        s3 == [s2 EXCEPT !.description = v3]
    <2>1. Updated(k, f, cur) = Sends(s3)
        BY <1>4 DEF Updated, AAPOrgUpdated, SendsIf, Refused
    <2>2. v1 \in SpecValues
        BY <1>4 DEF NameList
    <2>3. s1 \in SpecsOf(k) /\ \A x \in Fields[k] \ {"aapAdminRbac"} : s1[x] = cur[x]
        <3> HIDE DEF v1, SpecValues
        <3> QED
            BY <1>4, <2>2, FieldChanged
    <2>4. v2 \in SpecValues
        BY <1>4, <2>3 DEF NameList
    <2>5. s2 \in SpecsOf(k) /\ \A x \in Fields[k] \ {"aapAdminRbac", "aapJobExecutorRbac"} : s2[x] = cur[x]
        <3> HIDE DEF v2, s1, SpecValues
        <3> QED
            BY <1>4, <2>4, <2>3, FieldChanged
    <2>6. v3 \in SpecValues
        BY <1>4, <2>5 DEF NameList
    <2>7. s3 \in SpecsOf(k) /\ \A x \in Fields[k] \ {"aapAdminRbac", "aapJobExecutorRbac", "description"} : s3[x] = cur[x]
        <3> HIDE DEF v3, s2, SpecValues
        <3> QED
            BY <1>4, <2>6, <2>5, FieldChanged
    <2> HIDE DEF s3
    <2> QED
        BY <1>4, <2>1, <2>7 DEF Sends
<1>5. CASE k = "QuayOrg"
    BY <1>5 DEF Updated, QuayOrgUpdated, NameList, SendsIf, Sends, Refused
<1>6. CASE k = "Assignment"
    BY <1>6 DEF Updated, AssignmentUpdated, Sends, Kept, KeptIfProper
<1> QED
    BY <1>1, <1>2, <1>3, <1>4, <1>5, <1>6 DEF UpdateKinds

-----------------------------------------------------------------------------
(* The inductive invariant *)

Stored == [rv : 1..clock, meta : SUBSET Metadata, deleting : BOOLEAN, spec : Specs]

\* A PUT carries what its handler read: as long as the resource has the version
\* that was read, its metadata and the fields the handler is not about are those
\* stored.  The kinds whose handlers promise to keep the rest are not replaced, and
\* no annotation is removed but a Persona's.
RequestFits(r) ==
    /\ r.verb = "put" =>
          /\ kind \in UpdateKinds
          /\ r.rv \in 1..clock
          /\ kind # "Assignment" /\ r.rv = obj.rv =>
                /\ r.meta = obj.meta
                /\ \A x \in Fields[kind] \ UpdatedFields[kind] : r.spec[x] = obj.spec[x]
    /\ kind \in PutKinds => r.verb # "replace" /\ (r.verb = "merge" => kind = "Rbac")
    /\ r.verb = "annotate" /\ kind # "Persona" => Touched(r.patch, "null") = {}

JobFits(j) ==
    \/ j = Idle
    \/ j.pc = "reading" /\ j.form \in Specs /\ kind \in UpdateKinds
    \/ j.pc = "sent" /\ IsRequest(j.req) /\ RequestFits(j.req)

\* What is set up is that of a resource with a finalizer.
FinalizerKept ==
    kind # "Assignment" /\ deployed => Exists /\ "finalizer" \in obj.meta

IInv ==
    /\ kind \in Kinds /\ deployed \in BOOLEAN /\ clock \in Nat \ {0}
    /\ obj \in {NoObject} \cup Stored
    /\ spent \in [requests : Nat, fault : Nat, outside : Nat]
    /\ job = [s \in Sessions |-> job[s]]
    /\ \A s \in Sessions : JobFits(job[s])
    /\ \A r \in late : Writes(r) /\ IsRequest(r) /\ RequestFits(r)
    /\ FinalizerKept
    /\ RepliesAreTrue

LEMMA IInvTypes == IInv => TypeOK
BY DEF IInv, TypeOK, JobFits, Objects, Stored

\* The submissions have the fields of the kind.
LEMMA UniformSpec ==
    ASSUME NEW S, NEW v \in Values PROVE Uniform(S, v) \in Specs
BY DEF Uniform, FieldValue, Specs, Values, PlatformTypes

LEMMA SubmissionsTyped == Submissions \subseteq Specs
<1>1. {"v2", "blank", "bad"} \subseteq Values
    BY DEF Values, Proper
<1> QED
    BY <1>1, UniformSpec DEF Submissions

LEMMA InitIInv == Init => IInv
<1> SUFFICES ASSUME Init PROVE IInv
    OBVIOUS
<1>1. Existing \in Stored
    <2>1. Uniform(Fields[kind], "v1") \in Specs
        BY UniformSpec DEF Values, Proper
    <2> QED
        BY <2>1 DEF Init, Existing, Stored, Metadata, Annotations
<1>2. /\ kind \in Kinds /\ deployed \in BOOLEAN /\ clock \in Nat \ {0}
      /\ obj \in {NoObject} \cup Stored /\ late = {}
    <2>1. clock \in Nat \ {0} /\ kind \in Kinds /\ late = {}
        BY DEF Init
    <2>4. deployed \in BOOLEAN
        BY Zenon DEF Init
    <2>2. obj \in {NoObject, Existing}
        BY DEF Init
    <2>3. obj \in {NoObject} \cup Stored
        BY <1>1, <2>2
    <2> QED
        BY <2>1, <2>3, <2>4
<1>3. spent \in [requests : Nat, fault : Nat, outside : Nat]
    BY DEF Init
<1>4. job = [s \in Sessions |-> job[s]] /\ \A s \in Sessions : JobFits(job[s])
    BY DEF Init, JobFits
<1>5. FinalizerKept /\ RepliesAreTrue
    BY DEF Init, FinalizerKept, RepliesAreTrue, NoAnswer
<1> QED
    BY <1>2, <1>3, <1>4, <1>5 DEF IInv

\* What a step may make of the resource: nothing, nothing left of it, or a
\* resource with the next version.
Changes ==
    \/ obj' = obj /\ clock' = clock
    \/ obj' = NoObject /\ clock' = clock
    \/ clock' = clock + 1 /\ obj' \in Stored' /\ obj'.rv = clock'

\* It keeps the finalizer of a resource.
KeepsFinalizer ==
    Exists /\ "finalizer" \in obj.meta => obj' # NoObject /\ "finalizer" \in obj'.meta

LEMMA ChangesType ==
    ASSUME IInv, Changes, kind' = kind
    PROVE  obj' \in {NoObject} \cup Stored' /\ clock' \in Nat \ {0} /\ clock <= clock'
<1>1. clock' \in Nat \ {0} /\ clock <= clock' /\ 1..clock \subseteq 1..clock'
    BY DEF IInv, Changes
<1>2. Specs' = Specs
    BY DEF Specs
<1>3. Stored \subseteq Stored'
    BY <1>1, <1>2 DEF Stored
<1> QED
    BY <1>1, <1>3 DEF IInv, Changes

\* A request that fits still fits whatever becomes of the resource: a new
\* version is one that no request carries.
LEMMA StillFits ==
    ASSUME IInv, Changes, kind' = kind
    PROVE  /\ \A r : IsRequest(r) /\ RequestFits(r) => IsRequest(r)' /\ RequestFits(r)'
           /\ \A j : JobFits(j) => JobFits(j)'
<1>1. Specs' = Specs /\ clock \in Nat /\ clock' \in Nat /\ clock <= clock'
    BY ChangesType DEF Specs, IInv
<1>2. ASSUME NEW r, IsRequest(r), RequestFits(r)
      PROVE  IsRequest(r)' /\ RequestFits(r)'
    <2>1. IsRequest(r)'
        BY <1>1, <1>2 DEF IsRequest
    <2>2. r.verb = "put" => r.rv \in 1..clock'
        BY <1>1, <1>2 DEF RequestFits
    <2>3. r.verb = "put" /\ r.rv = obj'.rv => obj' = obj
        BY <1>1, <1>2 DEF RequestFits, Changes, NoObject
    <2> QED
        BY <1>2, <2>1, <2>2, <2>3 DEF RequestFits
<1>3. ASSUME NEW j, JobFits(j) PROVE JobFits(j)'
    BY <1>1, <1>2, <1>3 DEF JobFits
<1> QED
    BY <1>2, <1>3

-----------------------------------------------------------------------------
(* A handler starts *)

\* What a handler that starts does: it answers 400, sends a request that fits, or
\* reads first.
Starts(s) == \E j, code : Begins(s, j, code) /\ JobFits(j) /\ code \in {0, 400, 500}

\* Requests without a spec fit.
LEMMA BareStarts ==
    ASSUME NEW s, NEW passes, NEW req \in {List, Get, Delete},
           Begins(s, Sent(req, passes), 0)
    PROVE  Starts(s)
<1>1. IsRequest(req) /\ RequestFits(req)
    BY DEF List, Get, Delete, IsRequest, RequestFits
<1>2. JobFits(Sent(req, passes))
    BY <1>1 DEF JobFits, Sent
<1> QED
    BY <1>2 DEF Starts

\* So do patches of annotations, those that remove one if it is a Persona's.
LEMMA AnnotateStarts ==
    ASSUME NEW s, NEW passes, NEW patch \in AnnotationPatches,
           kind = "Persona" \/ Touched(patch, "null") = {},
           Begins(s, Sent(Annotate(patch), passes), 0)
    PROVE  Starts(s)
<1>1. IsRequest(Annotate(patch)) /\ RequestFits(Annotate(patch))
    BY DEF Annotate, IsRequest, RequestFits
<1>2. JobFits(Sent(Annotate(patch), passes))
    BY <1>1 DEF JobFits, Sent
<1> QED
    BY <1>2 DEF Starts

\* Requests with one: a refusal, or a spec of the kind.
LEMMA SubmitStarts ==
    ASSUME NEW s, NEW checked, NEW req, NEW passes, Submits(s, checked, req, passes),
           ~ checked.ok => checked.code \in {400, 500},
           checked.ok => /\ checked.spec \in Specs
                         /\ \/ req = Post(checked.spec)
                            \/ req = Merge(checked.spec) /\ (kind \in PutKinds => kind = "Rbac")
                            \/ req = Replace(checked.spec) /\ kind \notin PutKinds
    PROVE  Starts(s)
<1>1. CASE ~ checked.ok
    <2>1. JobFits(Idle)
        BY DEF JobFits
    <2> QED
        BY <1>1, <2>1 DEF Submits, Starts
<1>2. CASE checked.ok
    <2>1. IsRequest(req) /\ RequestFits(req)
        BY <1>2 DEF Post, Merge, Replace, IsRequest, RequestFits
    <2>2. JobFits(Sent(req, passes))
        BY <2>1 DEF JobFits, Sent
    <2> QED
        BY <1>2, <2>2 DEF Submits, Starts
<1> QED
    BY <1>1, <1>2

LEMMA CreateStarts ==
    ASSUME NEW s, NEW checked, Creates(s, checked), Builds(checked, kind)
    PROVE  Starts(s)
BY SubmitStarts DEF Creates, Builds, Specs, SpecsOf, SpecValues

LEMMA MergeStarts ==
    ASSUME NEW s, NEW form \in Specs, Merges(s, form), kind \notin PutKinds
    PROVE  Starts(s)
<1>1. JobFits(Sent(Merge(form), {403, 404}))
    BY DEF Merge, Sent, IsRequest, RequestFits, JobFits
<1> QED
    BY <1>1 DEF Merges, Starts

LEMMA ReplaceStarts ==
    ASSUME NEW s, NEW checked, Replaces(s, checked), kind \notin PutKinds, Builds(checked, kind)
    PROVE  Starts(s)
BY SubmitStarts DEF Replaces, Builds, Specs, SpecsOf, SpecValues

LEMMA UpdateStarts ==
    ASSUME NEW s, NEW k \in UpdateKinds, Updates(s, k)
    PROVE  Starts(s)
<1>1. PICK form \in Submissions : Begins(s, Reading(form), 0) /\ kind = k
    BY DEF Updates
<1>2. JobFits(Reading(form))
    BY <1>1, SubmissionsTyped DEF JobFits, Reading
<1> QED
    BY <1>1, <1>2 DEF Starts

\* The handlers that submit a spec.
LEMMA SubmissionStarts ==
    ASSUME NEW s,
           \/ createTeam(s) \/ createProject(s) \/ createAssignment(s)
           \/ createPlatformOpenshift(s) \/ createCloudOSO(s) \/ createCloudAWS(s)
           \/ createCloudVirt(s) \/ createOpenStackMigration(s) \/ createVault(s)
           \/ createVaultKV(s) \/ createAAPOrg(s) \/ createQuayOrg(s)
           \/ createPersona(s) \/ create(s)
    PROVE  Starts(s)
<1> USE SubmissionsTyped DEF Builds, Specs, SpecsOf, SpecValues
<1>1. CASE createTeam(s)
    BY <1>1, TenancySpecs, CreateStarts DEF createTeam
<1>2. CASE createProject(s)
    BY <1>2, TenancySpecs, CreateStarts DEF createProject
<1>3. CASE createAssignment(s)
    BY <1>3, TenancySpecs, CreateStarts DEF createAssignment
<1>4. CASE createPlatformOpenshift(s)
    BY <1>4, ClusterSpecs, CreateStarts DEF createPlatformOpenshift
<1>5. CASE createCloudOSO(s)
    BY <1>5, CloudSpecs, CreateStarts DEF createCloudOSO
<1>6. CASE createCloudAWS(s)
    BY <1>6, CloudSpecs, CreateStarts DEF createCloudAWS
<1>7. CASE createCloudVirt(s)
    BY <1>7, CloudSpecs, CreateStarts DEF createCloudVirt
<1>8. CASE createOpenStackMigration(s)
    BY <1>8, CloudSpecs, CreateStarts DEF createOpenStackMigration
<1>9. CASE createVault(s)
    BY <1>9, ServiceSpecs, CreateStarts DEF createVault
<1>10. CASE createVaultKV(s)
    BY <1>10, ServiceSpecs, CreateStarts DEF createVaultKV
<1>11. CASE createAAPOrg(s)
    BY <1>11, ServiceSpecs, CreateStarts DEF createAAPOrg
<1>12. CASE createQuayOrg(s)
    BY <1>12, ServiceSpecs, CreateStarts DEF createQuayOrg
<1>13. CASE createPersona(s)
    BY <1>13, AccessSpecs, CreateStarts DEF createPersona
<1>14. CASE create(s)
    BY <1>14, AccessSpecs, CreateStarts DEF create
<1> QED
    BY <1>1, <1>2, <1>3, <1>4, <1>5, <1>6, <1>7, <1>8, <1>9, <1>10, <1>11,
       <1>12, <1>13, <1>14

\* The handlers that patch or update one.
LEMMA ChangeStarts ==
    ASSUME NEW s,
           \/ patchProject(s) \/ patchPlatformOpenshift(s) \/ patchCloudOSO(s)
           \/ patchCloudAWS(s) \/ patchCloudVirt(s)
           \/ updateTeam(s) \/ updateAssignment(s) \/ updateVaultKV(s) \/ updateAAPOrg(s)
           \/ updateQuayOrg(s) \/ updateRbac(s)
    PROVE  Starts(s)
<1>1. CASE \/ updateTeam(s) \/ updateAssignment(s) \/ updateVaultKV(s) \/ updateAAPOrg(s)
           \/ updateQuayOrg(s) \/ updateRbac(s)
    BY <1>1, UpdateStarts DEF updateTeam, updateAssignment, updateVaultKV, updateAAPOrg,
       updateQuayOrg, updateRbac, UpdateKinds
<1>2. CASE patchProject(s) \/ patchPlatformOpenshift(s)
    <2>1. kind \notin PutKinds
        BY <1>2 DEF patchProject, patchPlatformOpenshift, PutKinds, UpdatedFields
    <2> QED
        BY <1>2, <2>1, SubmissionsTyped, MergeStarts DEF patchProject, patchPlatformOpenshift
<1>3. CASE patchCloudOSO(s) \/ patchCloudAWS(s) \/ patchCloudVirt(s)
    <2>1. kind \notin PutKinds
        BY <1>3 DEF patchCloudOSO, patchCloudAWS, patchCloudVirt, PutKinds, UpdatedFields
    <2>2. CASE patchCloudOSO(s)
        BY <2>1, <2>2, SubmissionsTyped, CloudSpecs, ReplaceStarts
        DEF patchCloudOSO, Builds, Specs, SpecsOf, SpecValues
    <2>3. CASE patchCloudAWS(s)
        BY <2>1, <2>3, SubmissionsTyped, ReplaceStarts
        DEF patchCloudAWS, Sends, Builds, Specs, SpecsOf, SpecValues
    <2>4. CASE patchCloudVirt(s)
        BY <2>1, <2>4, SubmissionsTyped, ReplaceStarts
        DEF patchCloudVirt, Sends, Builds, Specs, SpecsOf, SpecValues
    <2> QED
        BY <1>3, <2>2, <2>3, <2>4
<1> QED
    BY <1>1, <1>2, <1>3


\* The handlers that only list, read or delete.
LEMMA PlainStarts ==
    ASSUME NEW s,
           \/ tenantListEntities(s) \/ listTeams(s) \/ listProjects(s)
           \/ listAssignments(s) \/ listPlatformOpenshifts(s) \/ listCloudOSOs(s)
           \/ listCloudAWSs(s) \/ listCloudVirts(s) \/ listOpenStackMigrations(s)
           \/ listVaults(s) \/ listVaultKVs(s) \/ listAAPOrgs(s) \/ listQuayOrgs(s)
           \/ listPersonas(s) \/ listRbacs(s) \/ searchRbacs(s) \/ getTeam(s)
           \/ getProject(s) \/ getAssignment(s) \/ getPlatformOpenshift(s)
           \/ getCloudOSO(s) \/ getCloudAWS(s) \/ getCloudVirt(s)
           \/ getOpenStackMigration(s) \/ getVault(s) \/ getVaultKV(s) \/ getAAPOrg(s)
           \/ getQuayOrg(s) \/ getPersona(s) \/ get(s) \/ deleteTeam(s)
           \/ deleteProject(s) \/ deleteAssignment(s) \/ deletePlatformOpenshift(s)
           \/ deleteCloudOSO(s) \/ deleteCloudAWS(s) \/ deleteCloudVirt(s)
           \/ deleteOpenStackMigration(s) \/ deleteVault(s) \/ deleteVaultKV(s)
           \/ deleteAAPOrg(s) \/ deleteQuayOrg(s) \/ remove(s)
    PROVE  Starts(s)
<1>1. CASE \/ tenantListEntities(s) \/ listTeams(s) \/ listProjects(s)
           \/ listAssignments(s) \/ listPlatformOpenshifts(s) \/ listCloudOSOs(s)
           \/ listCloudAWSs(s) \/ listCloudVirts(s) \/ listOpenStackMigrations(s)
           \/ listVaults(s) \/ listVaultKVs(s) \/ listAAPOrgs(s) \/ listQuayOrgs(s)
           \/ listPersonas(s) \/ listRbacs(s) \/ searchRbacs(s)
    BY <1>1, BareStarts DEF tenantListEntities, listTeams, listProjects,
       listAssignments, listPlatformOpenshifts, listCloudOSOs, listCloudAWSs,
       listCloudVirts, listOpenStackMigrations, listVaults, listVaultKVs, listAAPOrgs,
       listQuayOrgs, listPersonas, listRbacs, searchRbacs, Asks, Lists
<1>2. CASE \/ getTeam(s) \/ getProject(s) \/ getAssignment(s) \/ getPlatformOpenshift(s)
           \/ getCloudOSO(s) \/ getCloudAWS(s) \/ getCloudVirt(s)
           \/ getOpenStackMigration(s) \/ getVault(s) \/ getVaultKV(s) \/ getAAPOrg(s)
           \/ getQuayOrg(s) \/ getPersona(s) \/ get(s)
    BY <1>2, BareStarts DEF getTeam, getProject, getAssignment, getPlatformOpenshift,
       getCloudOSO, getCloudAWS, getCloudVirt, getOpenStackMigration, getVault,
       getVaultKV, getAAPOrg, getQuayOrg, getPersona, get, Asks, Gets
<1>3. CASE \/ deleteTeam(s) \/ deleteProject(s) \/ deleteAssignment(s)
           \/ deletePlatformOpenshift(s) \/ deleteCloudOSO(s) \/ deleteCloudAWS(s)
           \/ deleteCloudVirt(s) \/ deleteOpenStackMigration(s) \/ deleteVault(s)
           \/ deleteVaultKV(s) \/ deleteAAPOrg(s) \/ deleteQuayOrg(s) \/ remove(s)
    BY <1>3, BareStarts DEF deleteTeam, deleteProject, deleteAssignment,
       deletePlatformOpenshift, deleteCloudOSO, deleteCloudAWS, deleteCloudVirt,
       deleteOpenStackMigration, deleteVault, deleteVaultKV, deleteAAPOrg,
       deleteQuayOrg, remove, Asks, Deletes
<1> QED
    BY <1>1, <1>2, <1>3

\* The one annotation that patchAnnotation of either dashboard sets.
LEMMA ReconcileNowStarts ==
    ASSUME NEW s, Begins(s, Sent(ReconcileNow, {403, 404}), 0)
    PROVE  Starts(s)
<1>1. PICK patch \in AnnotationPatches : ReconcileNow = Annotate(patch) /\ Touched(patch, "null") = {}
    BY DEF ReconcileNow, AnnotationPatches, Touched
<1> QED
    BY <1>1, AnnotateStarts

LEMMA TenantStarts == ASSUME NEW s, TenantRequest(s) PROVE Starts(s)
<1>1. CASE patchAnnotation(s)
    BY <1>1, ReconcileNowStarts DEF patchAnnotation
<1>2. CASE patchPersonaAnnotation(s)
    <2>1. CASE Begins(s, Idle, 400)
        BY <2>1 DEF Starts, JobFits
    <2>2. CASE \E patch \in AnnotationPatches : Begins(s, Sent(Annotate(patch), {403, 404}), 0)
        BY <1>2, <2>2, AnnotateStarts DEF patchPersonaAnnotation
    <2> QED
        BY <1>2, <2>1, <2>2 DEF patchPersonaAnnotation
<1> QED
    BY <1>1, <1>2, PlainStarts, SubmissionStarts, ChangeStarts DEF TenantRequest

LEMMA AdminStarts == ASSUME NEW s, AdminRequest(s) PROVE Starts(s)
<1> USE SubmissionsTyped DEF Builds, Specs, SpecsOf, SpecValues
<1>1. CASE listEntities(s) \/ getEntity(s) \/ removeEntity(s) \/ listEntityRbacs(s)
           \/ listEntityPersonas(s)
    BY <1>1, BareStarts DEF listEntities, getEntity, removeEntity, listEntityRbacs,
       listEntityPersonas, Asks
<1>2. CASE createEntity(s)
    BY <1>2, TenancySpecs, SubmitStarts DEF createEntity
<1>3. CASE createEntityRbac(s)
    BY <1>3, AccessSpecs, SubmitStarts DEF createEntityRbac
<1>4. CASE updateEntityRbac(s)
    BY <1>4, AccessSpecs, SubmitStarts DEF updateEntityRbac
<1>5. CASE createEntityPersona(s)
    BY <1>5, AccessSpecs, SubmitStarts DEF createEntityPersona
<1>6. CASE adminPatchAnnotation(s)
    BY <1>6, ReconcileNowStarts DEF adminPatchAnnotation
<1> QED
    BY <1>1, <1>2, <1>3, <1>4, <1>5, <1>6 DEF AdminRequest

LEMMA StartsInv ==
    ASSUME IInv, NEW s \in Sessions, Starts(s)
    PROVE  IInv'
<1>1. PICK j, code : Begins(s, j, code) /\ JobFits(j) /\ code \in {0, 400, 500}
    BY DEF Starts
<1>2. UNCHANGED <<kind, obj, deployed, late, clock>> /\ Changes
    BY <1>1 DEF Begins, Changes
<1>3. spent' \in [requests : Nat, fault : Nat, outside : Nat]
    BY <1>1 DEF Begins, IInv
<1>4. job' = [t \in Sessions |-> job'[t]]
    BY <1>1 DEF Begins, IInv
<1>5. \A t \in Sessions : job'[t] = (IF t = s THEN j ELSE job[t])
    BY <1>1 DEF Begins, IInv
<1>6. \A t \in Sessions : JobFits(job[t])'
    <2>1. \A i : JobFits(i) => JobFits(i)'
        BY <1>2, StillFits
    <2>2. \A t \in Sessions : JobFits(IF t = s THEN j ELSE job[t])
        BY <1>1 DEF IInv
    <2> QED
        BY <1>5, <2>1, <2>2
<1>7. FinalizerKept' /\ RepliesAreTrue'
    BY <1>1, <1>2 DEF Begins, IInv, FinalizerKept, RepliesAreTrue, NoAnswer, Exists
<1>8. \A r \in late' : Writes(r) /\ IsRequest(r)' /\ RequestFits(r)'
    BY <1>2, StillFits DEF IInv
<1> QED
    BY <1>2, <1>3, <1>4, <1>6, <1>7, <1>8, ChangesType DEF IInv

-----------------------------------------------------------------------------
(* The API server carries out a request *)

\* What a write makes of a stored resource.
LEMMA CommittedChanges ==
    ASSUME IInv, kind' = kind, Exists, NEW new \in Stored, obj' = Committed(new), Tick
    PROVE  /\ Changes
           /\ obj' # NoObject => obj'.meta = new.meta /\ obj'.spec = new.spec
           /\ obj' = NoObject => "finalizer" \notin new.meta
<1>1. obj \in Stored /\ clock \in Nat \ {0}
    BY DEF IInv, Exists
<1>2. obj.rv \in 1..clock
    BY <1>1 DEF Stored
<1>3. CASE obj' = obj
    <2>1. new = obj
        <3>1. new # obj => obj'.rv \in {0, clock + 1}
            BY <1>1 DEF Committed, NoObject, Stored
        <3> QED
            BY <1>1, <1>2, <1>3, <3>1
    <2> QED
        BY <1>1, <1>3, <2>1 DEF Changes, Tick, Exists
<1>4. CASE obj' # obj /\ obj' = NoObject
    <2>1. obj' # [new EXCEPT !.rv = clock + 1]
        <3>1. [new EXCEPT !.rv = clock + 1].rv = clock + 1
            BY DEF Stored
        <3> QED
            BY <1>1, <1>4, <3>1 DEF NoObject
    <2>2. "finalizer" \notin new.meta
        BY <1>4, <2>1 DEF Committed
    <2> QED
        BY <1>4, <2>2 DEF Changes, Tick
<1>5. CASE obj' # obj /\ obj' # NoObject
    <2>1. obj' = [new EXCEPT !.rv = clock + 1]
        BY <1>5 DEF Committed
    <2>2. clock' = clock + 1
        BY <1>5 DEF Tick
    <2>3. Specs' = Specs
        BY DEF Specs
    <2>4. obj' \in Stored' /\ obj'.rv = clock'
        BY <1>1, <2>1, <2>2, <2>3 DEF Stored
    <2> QED
        BY <1>5, <2>1, <2>2, <2>4 DEF Changes, Stored
<1> QED
    BY <1>3, <1>4, <1>5

\* The statuses of the API server.
LEMMA OutcomeCodes ==
    ASSUME NEW req
    PROVE  Outcome(req).code \in {200, 201, 400, 404, 409, 422}
BY DEF Outcome, Answer

\* What the change of a request keeps of a resource that is still there.
KeepsTheRest ==
    Exists /\ obj' # NoObject =>
        /\ kind \in PutKinds =>
              \A x \in Fields[kind] \ UpdatedFields[kind] : obj'.spec[x] = obj.spec[x]
        /\ kind # "Assignment" => obj.meta \ EditedMeta \subseteq obj'.meta

\* A request that is carried out on a resource writes what is wanted of it, or
\* leaves it alone.
LEMMA WantedFits ==
    ASSUME IInv, Exists, NEW req, IsRequest(req), RequestFits(req),
           req.verb \in {"delete", "annotate", "merge", "replace", "put"},
           req.verb = "put" => req.rv \in {0, obj.rv}
    PROVE  /\ Wanted(req) \in Stored
           /\ kind # "Assignment" => /\ obj.meta \ EditedMeta \subseteq Wanted(req).meta
                                     /\ "finalizer" \in obj.meta => "finalizer" \in Wanted(req).meta
           /\ kind \in PutKinds =>
                 \A x \in Fields[kind] \ UpdatedFields[kind] : Wanted(req).spec[x] = obj.spec[x]
<1>1. obj \in Stored
    BY DEF IInv, Exists
<1>2. CASE req.verb = "delete"
    BY <1>1, <1>2 DEF Wanted, Stored
<1>3. CASE req.verb = "annotate"
    <2> DEFINE null == Touched(req.patch, "null")
               set == Touched(req.patch, "set")
    <2>1. Wanted(req) = [obj EXCEPT !.meta = (obj.meta \ null) \cup set]
        BY <1>3 DEF Wanted
    <2>2. null \subseteq Annotations /\ set \subseteq Annotations
        BY DEF Touched
    <2>3. kind # "Persona" => null = {}
        BY <1>3 DEF RequestFits
    <2>4. obj.meta \subseteq Metadata /\ Annotations \subseteq Metadata
        BY <1>1 DEF Stored, Metadata
    <2> HIDE DEF null, set
    <2>5. Wanted(req) \in Stored /\ Wanted(req).spec = obj.spec
          /\ Wanted(req).meta = (obj.meta \ null) \cup set
        BY <1>1, <2>1, <2>2, <2>4 DEF Stored
    <2>6. obj.meta \ EditedMeta \subseteq Wanted(req).meta
        BY <2>2, <2>3, <2>5 DEF EditedMeta
    <2>7. "finalizer" \in obj.meta => "finalizer" \in Wanted(req).meta
        BY <2>2, <2>5 DEF Annotations
    <2> QED
        BY <2>5, <2>6, <2>7
<1>4. CASE req.verb = "merge"
    <2>1. Merged(req.spec, obj.spec) \in Specs
        BY <1>1, <1>4 DEF Merged, Specs, Stored, IsRequest
    <2>2. kind \in PutKinds => Fields[kind] \ UpdatedFields[kind] = {}
        BY <1>4 DEF RequestFits, Fields, UpdatedFields
    <2>3. Wanted(req) = [obj EXCEPT !.spec = Merged(req.spec, obj.spec)]
        BY <1>4 DEF Wanted
    <2> QED
        BY <1>1, <2>1, <2>2, <2>3 DEF Stored
<1>5. CASE req.verb = "replace"
    BY <1>1, <1>5 DEF Wanted, Stored, IsRequest, RequestFits
<1>6. CASE req.verb = "put"
    <2>1. req.rv = obj.rv
        BY <1>6 DEF RequestFits, IInv
    <2>2. Wanted(req) = [obj EXCEPT !.spec = req.spec, !.meta = req.meta]
        BY <1>6 DEF Wanted
    <2>3. /\ Wanted(req) \in Stored
          /\ Wanted(req).spec = req.spec /\ Wanted(req).meta = req.meta
        BY <1>1, <1>6, <2>2 DEF Stored, IsRequest
    <2> QED
        BY <1>6, <2>1, <2>3 DEF RequestFits, PutKinds
<1> QED
    BY <1>2, <1>3, <1>4, <1>5, <1>6

LEMMA PerformedChanges ==
    ASSUME IInv, kind' = kind, NEW req, IsRequest(req), RequestFits(req), Performed(req)
    PROVE  Changes /\ KeepsTheRest /\ (kind # "Assignment" => KeepsFinalizer)
<1>1. CASE obj' = obj
    BY <1>1 DEF Performed, Tick, Changes, KeepsTheRest, KeepsFinalizer, Exists
<1>2. CASE req.verb = "post" /\ ~ Exists /\ Schema(req.spec)
    <2>1. obj' = [rv |-> clock + 1, meta |-> {}, deleting |-> FALSE, spec |-> req.spec]
        BY <1>2 DEF Performed, Outcome, Answer
    <2>2. clock' = clock + 1
        BY <1>1, <1>2, <2>1 DEF Performed, Tick, Exists, NoObject, IInv
    <2>3. obj' \in Stored' /\ obj'.rv = clock'
        BY <1>2, <2>1, <2>2 DEF Stored, Specs, IsRequest, IInv
    <2> QED
        BY <1>2, <2>2, <2>3 DEF Changes, KeepsTheRest, KeepsFinalizer
<1>3. CASE /\ obj' # obj
           /\ ~ (req.verb = "post" /\ ~ Exists /\ Schema(req.spec))
    <2>1. /\ Exists /\ req.verb \in {"delete", "annotate", "merge", "replace", "put"}
          /\ req.verb = "put" => req.rv \in {0, obj.rv}
          /\ obj' = Committed(Wanted(req))
        BY <1>3 DEF Performed, Outcome, Answer, IsRequest
    <2>2. Wanted(req) \in Stored
        BY <2>1, WantedFits
    <2>3. /\ Changes
          /\ obj' # NoObject => obj'.meta = Wanted(req).meta /\ obj'.spec = Wanted(req).spec
          /\ obj' = NoObject => "finalizer" \notin Wanted(req).meta
        BY <2>1, <2>2, CommittedChanges DEF Performed
    <2> QED
        BY <2>1, <2>3, WantedFits DEF KeepsTheRest, KeepsFinalizer
<1> QED
    BY <1>1, <1>2, <1>3

-----------------------------------------------------------------------------
(* The steps *)

\* A step that changes at most the resource and what is set up, and takes a
\* request from the late ones or adds one that fits, keeps the invariant.
LEMMA ChangesInv ==
    ASSUME IInv, Changes, kind' = kind,
           deployed' \in BOOLEAN, FinalizerKept', RepliesAreTrue',
           spent' \in [requests : Nat, fault : Nat, outside : Nat],
           job' = [s \in Sessions |-> job'[s]],
           \A s \in Sessions : JobFits(job'[s]),
           \A r \in late' : Writes(r) /\ IsRequest(r) /\ RequestFits(r)
    PROVE  IInv'
<1>1. \A j : JobFits(j) => JobFits(j)'
    BY StillFits
<1>2. \A s \in Sessions : JobFits(job[s])'
    BY <1>1
<1>3. \A r \in late' : Writes(r) /\ IsRequest(r)' /\ RequestFits(r)'
    BY StillFits
<1>4. kind' \in Kinds
    BY DEF IInv
<1> QED
    BY <1>2, <1>3, <1>4, ChangesType DEF IInv

\* What is set up stays the resource's own while its finalizer is kept.
LEMMA FinalizerStays ==
    ASSUME IInv, kind' = kind, deployed' = deployed,
           kind # "Assignment" => KeepsFinalizer
    PROVE  FinalizerKept'
BY DEF IInv, FinalizerKept, KeepsFinalizer, Exists

\* A handler that is done.
LEMMA EndsJobs ==
    ASSUME IInv, NEW s \in Sessions, NEW code, NEW what, Ends(s, code, what)
    PROVE  /\ job' = [t \in Sessions |-> job'[t]]
           /\ \A t \in Sessions : JobFits(job'[t])
           /\ answer' = [code |-> code, effect |-> what]
<1>1. \A t \in Sessions : job'[t] = (IF t = s THEN Idle ELSE job[t])
    BY DEF Ends, IInv
<1>2. JobFits(Idle)
    BY DEF JobFits
<1>3. job' = [t \in Sessions |-> job'[t]]
    BY DEF Ends, IInv
<1> QED
    BY <1>1, <1>2, <1>3 DEF Ends, IInv

LEMMA ReadAnsweredInv ==
    ASSUME IInv, NEW s \in Sessions, ReadAnswered(s)
    PROVE  IInv'
<1>1. /\ Changes /\ UNCHANGED <<kind, obj, deployed, late, clock, spent>>
      /\ job[s].pc = "reading"
    BY DEF ReadAnswered, Changes
<1>2. job[s].form \in Specs /\ kind \in UpdateKinds
    BY <1>1 DEF IInv, JobFits, Idle
<1>3. /\ job' = [t \in Sessions |-> job'[t]]
      /\ \A t \in Sessions : JobFits(job'[t])
      /\ RepliesAreTrue'
    <2>1. CASE Ends(s, 404, "none") \/ Ends(s, 400, "none")
        BY <2>1, EndsJobs DEF RepliesAreTrue
    <2>2. ASSUME Exists, Updated(kind, job[s].form, obj.spec).ok,
                 answer' = NoAnswer,
                 job' = [job EXCEPT ![s] =
                            Sent(Put(obj.rv, PutMeta(obj),
                                     Updated(kind, job[s].form, obj.spec).spec), Conflict)]
          PROVE  /\ job' = [t \in Sessions |-> job'[t]]
                 /\ \A t \in Sessions : JobFits(job'[t])
                 /\ RepliesAreTrue'
        <3> DEFINE spec == Updated(kind, job[s].form, obj.spec).spec
                   req == Put(obj.rv, PutMeta(obj), spec)
        <3>1. obj \in Stored
            BY <2>2 DEF IInv, Exists
        <3>2. /\ spec \in Specs
              /\ kind # "Assignment" =>
                    \A x \in Fields[kind] \ UpdatedFields[kind] : spec[x] = obj.spec[x]
            BY <1>2, <2>2, <3>1, UpdatedSpecs DEF Specs, SpecsOf, SpecValues, Stored
        <3>3. /\ req.verb = "put" /\ req.rv = obj.rv /\ req.meta = PutMeta(obj)
              /\ req.spec = spec
            BY DEF Put
        <3> HIDE DEF req, spec
        <3>4. obj.rv \in 1..clock /\ obj.rv \in 0..clock /\ clock \in Nat
            BY <3>1 DEF Stored, IInv
        <3>5. IsRequest(req)
            BY <3>1, <3>2, <3>3, <3>4 DEF IsRequest, PutMeta, Stored
        <3>6. RequestFits(req)
            BY <1>2, <3>2, <3>3, <3>4 DEF RequestFits, PutMeta
        <3>7. JobFits(Sent(req, Conflict))
            BY <3>5, <3>6 DEF JobFits, Sent
        <3>8. job' = [job EXCEPT ![s] = Sent(req, Conflict)]
            BY <2>2 DEF req, spec
        <3> QED
            BY <2>2, <3>7, <3>8 DEF IInv, RepliesAreTrue, NoAnswer
    <2> QED
        BY <2>1, <2>2 DEF ReadAnswered
<1>4. FinalizerKept'
    BY <1>1 DEF IInv, FinalizerKept, Exists
<1> QED
    BY <1>1, <1>3, <1>4, ChangesInv DEF IInv

LEMMA AnsweredInv ==
    ASSUME IInv, NEW s \in Sessions, Answered(s) \/ AnswerLost(s)
    PROVE  IInv' /\ KeepsTheRest
<1> DEFINE req == job[s].req
           code == Outcome(req).code
<1>1. /\ UNCHANGED <<kind, deployed, late>> /\ Performed(req) /\ job[s].pc = "sent"
    BY DEF Answered, AnswerLost
<1>2. IsRequest(req) /\ RequestFits(req)
    BY <1>1 DEF IInv, JobFits, Idle
<1> HIDE DEF req
<1>3. Changes /\ KeepsTheRest /\ (kind # "Assignment" => KeepsFinalizer)
    BY <1>1, <1>2, PerformedChanges
<1>4. PICK reply, what :
          /\ Ends(s, reply, what)
          /\ reply \in {200, 201} => what = "done"
          /\ reply \in {400, 403, 404, 409, 422, 500} => what = "none"
    <2>1. code \in {200, 201, 400, 404, 409, 422}
        BY OutcomeCodes
    <2> HIDE DEF code
    <2>2. CASE Answered(s)
        <3>1. Ends(s, ReplyTo(code, job[s].passes), IF code < 400 THEN "done" ELSE "none")
            BY <2>2 DEF Answered, code, req
        <3> QED
            BY <2>1, <3>1 DEF ReplyTo
    <2>3. CASE AnswerLost(s)
        BY <2>3 DEF AnswerLost
    <2> QED
        BY <2>2, <2>3
<1>5. /\ RepliesAreTrue' /\ job' = [t \in Sessions |-> job'[t]]
      /\ \A t \in Sessions : JobFits(job'[t])
    BY <1>4, EndsJobs DEF RepliesAreTrue
<1>6. spent' \in [requests : Nat, fault : Nat, outside : Nat]
    BY DEF Answered, AnswerLost, Mishap, IInv
<1>7. FinalizerKept'
    BY <1>1, <1>3, FinalizerStays
<1> QED
    BY <1>1, <1>3, <1>5, <1>6, <1>7, ChangesInv DEF IInv

\* A request that is refused, or given up and perhaps carried out later.
LEMMA EndedInv ==
    ASSUME IInv, NEW s \in Sessions, Refuses(s) \/ GivesUp(s)
    PROVE  IInv'
<1>1. UNCHANGED <<kind, obj, deployed, clock>> /\ Changes
    BY DEF Refuses, GivesUp, Changes
<1>2. PICK reply, what : Ends(s, reply, what) /\ reply \notin {200, 201}
                         /\ (reply \in {400, 403, 404, 409, 422, 500} => what = "none")
    BY DEF Refuses, GivesUp, ReplyTo
<1>3. /\ RepliesAreTrue' /\ job' = [t \in Sessions |-> job'[t]]
      /\ \A t \in Sessions : JobFits(job'[t])
    BY <1>2, EndsJobs DEF RepliesAreTrue
<1>4. spent' \in [requests : Nat, fault : Nat, outside : Nat]
    BY DEF Refuses, GivesUp, Mishap, IInv
<1>5. \A r \in late' : Writes(r) /\ IsRequest(r) /\ RequestFits(r)
    BY DEF Refuses, GivesUp, IInv, JobFits, Idle
<1>6. FinalizerKept'
    BY <1>1 DEF IInv, FinalizerKept, Exists
<1> QED
    BY <1>1, <1>3, <1>4, <1>5, <1>6, ChangesInv DEF IInv

\* A step that answers no one and leaves the jobs alone.
LEMMA SilentInv ==
    ASSUME IInv, Changes, UNCHANGED <<kind, job>>, answer' = NoAnswer,
           deployed' \in BOOLEAN, FinalizerKept', late' \subseteq late,
           spent' \in [requests : Nat, fault : Nat, outside : Nat]
    PROVE  IInv'
<1>1. RepliesAreTrue'
    BY DEF RepliesAreTrue, NoAnswer
<1> QED
    BY <1>1, ChangesInv DEF IInv

LEMMA LatePerformedInv ==
    ASSUME IInv, LatePerformed
    PROVE  IInv' /\ KeepsTheRest
<1>1. PICK req \in late : /\ late' = late \ {req} /\ Performed(req) /\ answer' = NoAnswer
                          /\ UNCHANGED <<kind, deployed, job, spent>>
    BY DEF LatePerformed
<1>2. Changes /\ KeepsTheRest /\ (kind # "Assignment" => KeepsFinalizer)
    BY <1>1, PerformedChanges DEF IInv
<1>3. FinalizerKept'
    BY <1>1, <1>2, FinalizerStays
<1> QED
    BY <1>1, <1>2, <1>3, SilentInv DEF IInv

\* The operator writes the metadata, and takes the finalizer of a resource only
\* once nothing of it is set up.
LEMMA OperatorInv ==
    ASSUME IInv, Operator
    PROVE  IInv' /\ KeepsTheRest
<1>1. CASE Provision \/ Teardown
    <2>1. /\ UNCHANGED <<kind, obj, job, late, clock, spent>> /\ answer' = NoAnswer /\ Changes
          /\ deployed' \in BOOLEAN
        BY <1>1 DEF Provision, Teardown, Changes
    <2>2. FinalizerKept'
        BY <1>1 DEF Provision, Teardown, FinalizerKept, Exists
    <2>3. KeepsTheRest
        BY <2>1 DEF KeepsTheRest, Exists
    <2> QED
        BY <2>1, <2>2, <2>3, SilentInv DEF IInv
<1>2. ASSUME NEW meta \in SUBSET Metadata, Exists,
             Operates([obj EXCEPT !.meta = meta]), UNCHANGED deployed,
             obj.meta \ {"reconcileNow", "finalizer"} \subseteq meta,
             "finalizer" \in obj.meta \ meta => obj.deleting /\ ~ deployed
      PROVE  IInv' /\ KeepsTheRest
    <2> DEFINE new == [obj EXCEPT !.meta = meta]
    <2>1. obj \in Stored
        BY <1>2 DEF IInv, Exists
    <2>2. /\ new \in Stored /\ new.meta = meta /\ new.spec = obj.spec
          /\ new.deleting = obj.deleting
        BY <2>1 DEF Stored
    <2>3. /\ UNCHANGED <<kind, job, late, spent>> /\ answer' = NoAnswer
          /\ obj' = Committed(new) /\ Tick
        BY <1>2 DEF Operates
    <2> HIDE DEF new
    <2>4. /\ Changes
          /\ obj' # NoObject => obj'.meta = meta /\ obj'.spec = obj.spec
          /\ obj' = NoObject => "finalizer" \notin meta
        BY <1>2, <2>2, <2>3, CommittedChanges
    <2>5. "finalizer" \in obj.meta \ meta => obj' = NoObject
        <3>1. "finalizer" \in obj.meta \ meta => new # obj /\ new.deleting
            BY <1>2, <2>2
        <3> QED
            BY <2>2, <2>3, <3>1 DEF Committed
    <2>6. KeepsTheRest
        BY <1>2, <2>4, <2>5 DEF KeepsTheRest, EditedMeta, Annotations
    <2>7. FinalizerKept'
        BY <1>2, <2>3, <2>4, <2>5 DEF IInv, FinalizerKept, Exists
    <2> QED
        BY <1>2, <2>3, <2>4, <2>6, <2>7, SilentInv DEF IInv
<1>3. obj # NoObject => obj.meta \subseteq Metadata
    BY DEF IInv, Stored
<1>4. CASE AddFinalizer
    <2>1. obj.meta \cup {"finalizer"} \in SUBSET Metadata
        BY <1>3, <1>4 DEF AddFinalizer, Exists, Metadata
    <2> QED
        BY <1>2, <1>4, <2>1 DEF AddFinalizer
<1>5. CASE ServeReconcileNow
    <2>1. obj.meta \ {"reconcileNow"} \in SUBSET Metadata
        BY <1>3, <1>5 DEF ServeReconcileNow, Exists
    <2> QED
        BY <1>2, <1>5, <2>1 DEF ServeReconcileNow
<1>6. CASE RemoveFinalizer
    <2>1. obj.meta \ {"finalizer"} \in SUBSET Metadata
        BY <1>3, <1>6 DEF RemoveFinalizer, Exists
    <2> QED
        BY <1>2, <1>6, <2>1 DEF RemoveFinalizer
<1> QED
    BY <1>1, <1>4, <1>5, <1>6 DEF Operator

LEMMA OutsideChangeInv ==
    ASSUME IInv, OutsideChange
    PROVE  IInv' /\ spent'.outside # spent.outside
<1>1. PICK x \in Fields[kind] : obj' = Committed([obj EXCEPT !.spec[x] = FieldValue(x, "v2")])
    BY DEF OutsideChange
<1>2. /\ UNCHANGED <<kind, deployed, job, late>> /\ answer' = NoAnswer /\ Tick /\ Exists
      /\ spent' = [spent EXCEPT !.outside = @ + 1]
    BY DEF OutsideChange, Mishap
<1>3. obj \in Stored
    BY <1>2 DEF IInv, Exists
<1> DEFINE new == [obj EXCEPT !.spec[x] = FieldValue(x, "v2")]
<1>4. FieldValue(x, "v2") \in Values \cup PlatformTypes
    BY DEF FieldValue, Values, Proper, PlatformTypes
<1>5. new \in Stored /\ new.meta = obj.meta
    BY <1>3, <1>4 DEF Stored, Specs
<1> HIDE DEF new
<1>6. /\ Changes
      /\ obj' # NoObject => obj'.meta = obj.meta
      /\ obj' = NoObject => "finalizer" \notin obj.meta
    BY <1>1, <1>2, <1>5, CommittedChanges DEF new
<1>7. FinalizerKept'
    BY <1>2, <1>6 DEF IInv, FinalizerKept, Exists
<1>8. /\ spent' \in [requests : Nat, fault : Nat, outside : Nat]
      /\ spent'.outside # spent.outside
    BY <1>2 DEF IInv
<1> QED
    BY <1>2, <1>6, <1>7, <1>8, SilentInv DEF IInv

\* Every step keeps the invariant and, but for a change made outside the
\* dashboards, the rest of the resource.
LEMMA NextInv ==
    ASSUME IInv, Next
    PROVE  IInv' /\ (spent'.outside = spent.outside => KeepsTheRest)
<1>1. ASSUME NEW s \in Sessions, Starts(s)
      PROVE  IInv' /\ KeepsTheRest
    <2>1. obj' = obj
        BY <1>1 DEF Starts, Begins
    <2> QED
        BY <1>1, <2>1, StartsInv DEF KeepsTheRest
<1>2. ASSUME NEW s \in Sessions, ReadAnswered(s)
      PROVE  IInv' /\ KeepsTheRest
    BY <1>2, ReadAnsweredInv DEF ReadAnswered, KeepsTheRest
<1>3. ASSUME NEW s \in Sessions, Refuses(s) \/ GivesUp(s)
      PROVE  IInv' /\ KeepsTheRest
    BY <1>3, EndedInv DEF Refuses, GivesUp, KeepsTheRest
<1> QED
    BY <1>1, <1>2, <1>3, TenantStarts, AdminStarts, AnsweredInv, LatePerformedInv,
       OperatorInv, OutsideChangeInv DEF Next, Handling

LEMMA StutterInv ==
    ASSUME IInv, UNCHANGED vars
    PROVE  IInv'
<1>1. Changes
    BY DEF vars, Changes
<1>2. FinalizerKept' /\ RepliesAreTrue'
    BY DEF vars, IInv, FinalizerKept, RepliesAreTrue, Exists
<1> QED
    BY <1>1, <1>2, ChangesInv DEF vars, IInv

-----------------------------------------------------------------------------
(* The theorems about edits *)

\* IInv is an invariant.
THEOREM Inductive == Spec => []IInv
<1>1. IInv /\ [Next]_vars => IInv'
    BY NextInv, StutterInv
<1> QED
    BY InitIInv, <1>1, PTL DEF Spec

\* Whatever sessions, the operator and others do to a resource, what is stored and
\* sent has the fields of its kind, and no request a version from the future.
THEOREM TypeCorrect == Spec => []TypeOK
BY Inductive, IInvTypes, PTL

\* No edit, however it meets a deletion, is given up or is carried out late, makes a
\* resource go away while what the operator set up for it is still there (every
\* handler of the dashboards' servers but updateAssignment).
THEOREM NothingIsOrphaned == Spec => []NoOrphans
<1>1. IInv => NoOrphans
    BY DEF IInv, FinalizerKept, NoOrphans, NothingLeftBehind
<1> QED
    BY Inductive, <1>1, PTL

\* What a dashboard answers, unless it is 502, is what became of the request.
THEOREM RepliesTrue == Spec => []RepliesAreTrue
<1>1. IInv => RepliesAreTrue
    BY DEF IInv
<1> QED
    BY Inductive, <1>1, PTL

\* An edit changes nothing but what its handler is about, of whatever version it was
\* made and whenever it is carried out.
THEOREM TheRestIsKept == Spec => EditsKeepTheRest
<1> DEFINE Edit ==
       DashboardStep =>
          /\ kind \in PutKinds =>
                \A x \in Fields[kind] \ UpdatedFields[kind] : obj'.spec[x] = obj.spec[x]
          /\ kind # "Assignment" => obj.meta \ EditedMeta \subseteq obj'.meta
<1>1. IInv /\ [Next]_vars => [Edit]_vars
    BY NextInv DEF DashboardStep, KeepsTheRest
<1> QED
    BY Inductive, <1>1, PTL DEF Spec, EditsKeepTheRest

-----------------------------------------------------------------------------
(* What a form builds, and what the servers make of it *)

FormValues == Values \cup PlatformTypes \cup SiteTypes
                \cup {"twice", "CloudOSO", "CloudVirt", "localnet", "ovn-layer2",
                      "plain", "wireguard"}
FormSpecs == [FieldsOf(formKind) -> FormValues]

\* What has been typed and chosen.
Filled ==
    /\ formName \in FormNames /\ text \in Inputs(formKind)
    /\ refs \in [ListNames -> Entities \cup {"none"}]
    /\ "none" \notin Entities
    /\ style \in {"dashboard", "raw"} /\ (formKind \in PlatformKinds => style = "raw")

\* The spec to be stored has the fields of the form's kind, and of each what
\* the form asked for.
Carries(made, asked) ==
    /\ made \in FormSpecs
    /\ \A x \in FieldsOf(formKind) :
          \/ Asked(made[x]) = Asked(asked[x])
          \/ formKind \in DOMAIN Forgotten /\ x \in Forgotten[formKind]
          \/ formKind = "PlatformOpenshift" /\ x = "sizes" /\ text.sizes = "odd"

\* What the handler and the API server make of the spec of a form.
Fitting(spec, checked) ==
    /\ checked.ok <=> ~Unchecked
    /\ checked.ok => Carries(checked.spec, spec)
    /\ checked.ok /\ formKind = "CloudAWS" /\ checked.spec.credentialsSecretRef = "v1"
       => NeedsSecret

\* A spec the form may send.
Sound(spec) == spec \in FormSpecs /\ Fitting(spec, Accepted(spec))

LEMMA RefValues ==
    ASSUME Filled, NEW l \in ListNames
    PROVE  /\ Ref(l) \in {"none", "v1"} /\ RefList(l) \in {"blank", "v1"}
           /\ Ref(l) = "none" <=> refs[l] = "none"
BY DEF Filled, Ref, RefList, ListNames

\* What is sent as it is carries all that was asked for.
LEMMA RawCarries == \A spec \in FormSpecs : Carries(spec, spec)
BY DEF Carries

\* The handler of the form's kind takes what the form builds, but for what
\* Unchecked names, and so does the API server.
Made == Created(formKind, buildSpec)
Served == Made.ok /\ Schema(Made.spec)
Handled ==
    /\ buildSpec \in FormSpecs
    /\ Schema(buildSpec) <=> ~UncheckedByRules
    /\ Served <=> ~UncheckedByRules /\ ~UncheckedByHandler
    /\ Served => Carries(Made.spec, buildSpec)

\* A kind of the dashboards' server is sound if its handler is.
LEMMA ByHandler ==
    ASSUME formKind \in AllKinds, Filled, Handled, formName # "none",
           formKind = "CloudAWS" /\ buildSpec.credentialsSecretRef = "v1" => NeedsSecret,
           formKind = "CloudAWS" /\ Made.ok /\ Made.spec.credentialsSecretRef = "v1"
           => NeedsSecret
    PROVE  Sound(buildSpec)
<1>1. formKind \notin PlatformKinds
    BY DEF AllKinds, Fields, PlatformKinds, PlatformFields
<1>2. CASE style = "raw"
    <2>1. Accepted(buildSpec) = IF formName # "bad" /\ Schema(buildSpec) THEN Sends(buildSpec) ELSE Refused
        BY <1>1, <1>2 DEF Accepted, ToApiServer, SendsIf, Sends, Refused
    <2>2. formName # "bad" /\ Schema(buildSpec) <=> ~Unchecked
        BY <1>2 DEF Handled, Unchecked
    <2> QED
        BY <2>1, <2>2, RawCarries DEF Handled, Sound, Fitting, Sends, Refused
<1>3. CASE style = "dashboard"
    <2>1. Accepted(buildSpec) = IF formName # "v1" THEN Refused
                                ELSE IF Made.ok THEN SendsIf(Schema(Made.spec), Made.spec) ELSE Made
        BY <1>1, <1>3 DEF Accepted, ToApiServer, Refused, Made
    <2>2. formName = "v1" /\ Served <=> ~Unchecked
        BY <1>3 DEF Handled, Unchecked, Filled, FormNames
    <2> QED
        BY <2>1, <2>2 DEF Handled, Served, Sound, Fitting, SendsIf, Sends, Refused
<1> QED
    BY <1>2, <1>3 DEF Filled

\* What the form of each kind builds, and what the handler of the kind makes of it.
LEMMA EntityForm == ASSUME Filled, canSubmit, formKind = "Entity" PROVE Handled
<1>1. text \in Inputs("Entity")
    BY DEF Filled
<1>2. buildSpec = EntitySpec /\ Made = EntityCreated(EntitySpec)
    BY DEF buildSpec, Made, Created, PlatformKinds, PlatformFields
<1>3. /\ EntitySpec \in FormSpecs
      /\ Schema(EntitySpec) <=> ~UncheckedByRules
      /\ Served <=> ~UncheckedByRules /\ ~UncheckedByHandler
      /\ Made.ok => Carries(Made.spec, EntitySpec)
    BY <1>1, <1>2 DEF Fields, FieldsOf, PlatformKinds, PlatformFields, EntitySpec,
       Inputs, Texts, RequiredTexts, Proper, Values, EntityCreated, SendsIf, Sends,
       Refused, Kept, Schema, UncheckedByRules, UncheckedByHandler, Served,
       canSubmit, Given, Carries, FormSpecs, FormValues
<1> QED
    BY <1>2, <1>3 DEF Handled, Served

LEMMA TeamForm == ASSUME Filled, canSubmit, formKind = "Team" PROVE Handled
<1>1. text \in Inputs("Team")
    BY DEF Filled
<1>2. buildSpec = TeamSpec /\ Made = TeamCreated(TeamSpec)
    BY DEF buildSpec, Made, Created, PlatformKinds, PlatformFields
<1>3. /\ TeamSpec \in FormSpecs
      /\ Schema(TeamSpec) <=> ~UncheckedByRules
      /\ Served <=> ~UncheckedByRules /\ ~UncheckedByHandler
      /\ Made.ok => Carries(Made.spec, TeamSpec)
    BY <1>1, <1>2, RefValues DEF Fields, FieldsOf, PlatformKinds, PlatformFields,
       TeamSpec, Inputs, ListNames, Proper, Values, TeamCreated, Sends, Kept,
       KeptIfProper, OrDefault, Schema, UncheckedByRules, UncheckedByHandler,
       Served, Carries, Forgotten, FormSpecs, FormValues
<1> QED
    BY <1>2, <1>3 DEF Handled, Served

LEMMA ProjectForm == ASSUME Filled, canSubmit, formKind = "Project" PROVE Handled
<1>1. text \in Inputs("Project")
    BY DEF Filled
<1>2. buildSpec = ProjectSpec /\ Made = ProjectCreated(ProjectSpec)
    BY DEF buildSpec, Made, Created, PlatformKinds, PlatformFields
<1>3. /\ ProjectSpec \in FormSpecs
      /\ Schema(ProjectSpec) <=> ~UncheckedByRules
      /\ Served <=> ~UncheckedByRules /\ ~UncheckedByHandler
      /\ Made.ok => Carries(Made.spec, ProjectSpec)
    BY <1>1, <1>2 DEF Fields, FieldsOf, PlatformKinds, PlatformFields, ProjectSpec,
       Inputs, Texts, Proper, Values, ProjectCreated, Sends, Kept, KeptIfProper,
       Schema, UncheckedByRules, UncheckedByHandler, Served, Carries, Asked,
       FormSpecs, FormValues
<1> QED
    BY <1>2, <1>3 DEF Handled, Served

LEMMA AssignmentForm == ASSUME Filled, canSubmit, formKind = "Assignment" PROVE Handled
<1>1. buildSpec = AssignmentSpec /\ Made = AssignmentCreated(AssignmentSpec)
    BY DEF buildSpec, Made, Created, PlatformKinds, PlatformFields
<1>2. /\ AssignmentSpec \in FormSpecs
      /\ Schema(AssignmentSpec) <=> ~UncheckedByRules
      /\ Served <=> ~UncheckedByRules /\ ~UncheckedByHandler
      /\ Made.ok => Carries(Made.spec, AssignmentSpec)
    BY <1>1, RefValues DEF Fields, FieldsOf, PlatformKinds, PlatformFields,
       AssignmentSpec, ListNames, Proper, Values, AssignmentCreated, Sends, Kept,
       KeptIfProper, Schema, UncheckedByRules, UncheckedByHandler, Served, Carries,
       Asked, FormSpecs, FormValues
<1> QED
    BY <1>1, <1>2 DEF Handled, Served

LEMMA PlatformOpenshiftForm == ASSUME Filled, canSubmit, formKind = "PlatformOpenshift" PROVE Handled
<1>1. text \in Inputs("PlatformOpenshift")
    BY DEF Filled
<1>2. buildSpec = PlatformOpenshiftSpec /\ Made = PlatformOpenshiftCreated(PlatformOpenshiftSpec)
    BY DEF buildSpec, Made, Created, PlatformKinds, PlatformFields
<1>3. /\ PlatformOpenshiftSpec \in FormSpecs
      /\ Schema(PlatformOpenshiftSpec) <=> ~UncheckedByRules
      /\ Served <=> ~UncheckedByRules /\ ~UncheckedByHandler
      /\ Made.ok => Carries(Made.spec, PlatformOpenshiftSpec)
    BY <1>1, <1>2, RefValues DEF Fields, FieldsOf, PlatformKinds, PlatformFields,
       PlatformOpenshiftSpec, Environment, Inputs, Texts, ListNames, PlatformTypes,
       Proper, Values, PlatformOpenshiftCreated, SendsIf, Sends, Refused, Kept,
       KeptIfProper, OrDefault, Schema, UncheckedByRules, UncheckedByHandler,
       Served, canSubmit, Carries, FormSpecs, FormValues
<1> QED
    BY <1>2, <1>3 DEF Handled, Served

LEMMA CloudOSOForm == ASSUME Filled, canSubmit, formKind = "CloudOSO" PROVE Handled
<1>1. text \in Inputs("CloudOSO")
    BY DEF Filled
<1>2. buildSpec = CloudOSOSpec /\ Made = CloudOSOCreated(CloudOSOSpec)
    BY DEF buildSpec, Made, Created, PlatformKinds, PlatformFields
<1>3. /\ CloudOSOSpec \in FormSpecs
      /\ Schema(CloudOSOSpec) <=> ~UncheckedByRules
      /\ Served <=> ~UncheckedByRules /\ ~UncheckedByHandler
      /\ Made.ok => Carries(Made.spec, CloudOSOSpec)
    BY <1>1, <1>2 DEF Fields, FieldsOf, PlatformKinds, PlatformFields, CloudOSOSpec,
       Inputs, Texts, RequiredTexts, SiteNames, Proper, Values, CloudOSOCreated,
       SendsIf, Sends, Refused, KeptIfProper, sanitizeCloudRef, Schema,
       UncheckedByRules, UncheckedByHandler, Served, canSubmit, Given, Carries,
       FormSpecs, FormValues
<1> QED
    BY <1>2, <1>3 DEF Handled, Served

LEMMA CloudAWSForm == ASSUME Filled, canSubmit, formKind = "CloudAWS" PROVE Handled
<1>1. text \in Inputs("CloudAWS")
    BY DEF Filled
<1>2. buildSpec = CloudAWSSpec /\ Made = CloudAWSCreated(CloudAWSSpec)
    BY DEF buildSpec, Made, Created, PlatformKinds, PlatformFields
<1>3. /\ CloudAWSSpec \in FormSpecs
      /\ Schema(CloudAWSSpec) <=> ~UncheckedByRules
      /\ Served <=> ~UncheckedByRules /\ ~UncheckedByHandler
      /\ Made.ok => Carries(Made.spec, CloudAWSSpec)
    BY <1>1, <1>2 DEF Fields, FieldsOf, PlatformKinds, PlatformFields, CloudAWSSpec,
       Inputs, Texts, RequiredTexts, SiteNames, Proper, Values, CloudAWSCreated,
       SendsIf, Sends, Refused, Kept, Truthy, sanitizeCloudRef, Schema,
       UncheckedByRules, UncheckedByHandler, Served, canSubmit, Given,
       CloudAWSComplete, Carries, FormSpecs, FormValues
<1> QED
    BY <1>2, <1>3 DEF Handled, Served

LEMMA CloudVirtForm == ASSUME Filled, canSubmit, formKind = "CloudVirt" PROVE Handled
<1>1. text \in Inputs("CloudVirt")
    BY DEF Filled
<1>2. buildSpec = CloudVirtSpec /\ Made = CloudVirtCreated(CloudVirtSpec)
    BY DEF buildSpec, Made, Created, PlatformKinds, PlatformFields
<1>3. /\ CloudVirtSpec \in FormSpecs
      /\ Schema(CloudVirtSpec) <=> ~UncheckedByRules
      /\ Served <=> ~UncheckedByRules /\ ~UncheckedByHandler
      /\ Made.ok => Carries(Made.spec, CloudVirtSpec)
    BY <1>1, <1>2 DEF Fields, FieldsOf, PlatformKinds, PlatformFields,
       CloudVirtSpec, Inputs, Texts, RequiredTexts, SiteNames, Proper, Values,
       CloudVirtCreated, SendsIf, Sends, Refused, Kept, Truthy, sanitizeCloudRef,
       Schema, UncheckedByRules, UncheckedByHandler, Served, canSubmit, Given,
       Carries, FormSpecs, FormValues
<1> QED
    BY <1>2, <1>3 DEF Handled, Served

LEMMA OpenStackMigrationForm == ASSUME Filled, canSubmit, formKind = "OpenStackMigration" PROVE Handled
<1>1. text \in Inputs("OpenStackMigration")
    BY DEF Filled
<1>2. buildSpec = OpenStackMigrationSpec /\ Made = OpenStackMigrationCreated(OpenStackMigrationSpec)
    BY DEF buildSpec, Made, Created, PlatformKinds, PlatformFields
<1>3. /\ OpenStackMigrationSpec \in FormSpecs
      /\ Schema(OpenStackMigrationSpec) <=> ~UncheckedByRules
      /\ Served <=> ~UncheckedByRules /\ ~UncheckedByHandler
      /\ Made.ok => Carries(Made.spec, OpenStackMigrationSpec)
    BY <1>1, <1>2, RefValues DEF Fields, FieldsOf, PlatformKinds, PlatformFields,
       OpenStackMigrationSpec, Inputs, Texts, RequiredTexts, ListNames, Proper,
       Values, OpenStackMigrationCreated, Sends, Refused, OrDefault, Schema,
       UncheckedByRules, UncheckedByHandler, Served, canSubmit, Given, Defaulted,
       Carries, FormSpecs, FormValues
<1> QED
    BY <1>2, <1>3 DEF Handled, Served

LEMMA PersonaForm == ASSUME Filled, canSubmit, formKind = "Persona" PROVE Handled
<1>1. text \in Inputs("Persona")
    BY DEF Filled
<1>2. buildSpec = PersonaSpec /\ Made = PersonaCreated(PersonaSpec)
    BY DEF buildSpec, Made, Created, PlatformKinds, PlatformFields
<1>3. /\ PersonaSpec \in FormSpecs
      /\ Schema(PersonaSpec) <=> ~UncheckedByRules
      /\ Served <=> ~UncheckedByRules /\ ~UncheckedByHandler
      /\ Made.ok => Carries(Made.spec, PersonaSpec)
    BY <1>1, <1>2, RefValues DEF Fields, FieldsOf, PlatformKinds, PlatformFields,
       PersonaSpec, Inputs, ListNames, Proper, Values, PersonaCreated, SendsIf,
       Sends, Refused, Schema, UncheckedByRules, UncheckedByHandler, Served,
       canSubmit, Defaulted, Carries, FormSpecs, FormValues
<1> QED
    BY <1>2, <1>3 DEF Handled, Served

LEMMA RbacForm == ASSUME Filled, canSubmit, formKind = "Rbac" PROVE Handled
<1>1. text \in Inputs("Rbac")
    BY DEF Filled
<1>2. buildSpec = RbacSpec /\ Made = RbacCreated(RbacSpec)
    BY DEF buildSpec, Made, Created, PlatformKinds, PlatformFields
<1>3. /\ RbacSpec \in FormSpecs
      /\ Schema(RbacSpec) <=> ~UncheckedByRules
      /\ Served <=> ~UncheckedByRules /\ ~UncheckedByHandler
      /\ Made.ok => Carries(Made.spec, RbacSpec)
    BY <1>1, <1>2, RefValues DEF Fields, FieldsOf, PlatformKinds, PlatformFields,
       RbacSpec, Inputs, Texts, ListNames, Proper, Values, RbacCreated, SendsIf,
       Sends, KeptIfProper, Schema, UncheckedByRules, UncheckedByHandler, Served,
       canSubmit, Defaulted, Carries, Asked, FormSpecs, FormValues
<1> QED
    BY <1>2, <1>3 DEF Handled, Served

LEMMA VaultForm == ASSUME Filled, canSubmit, formKind = "Vault" PROVE Handled
<1>1. text \in Inputs("Vault")
    BY DEF Filled
<1>2. buildSpec = VaultSpec /\ Made = VaultCreated(VaultSpec)
    BY DEF buildSpec, Made, Created, PlatformKinds, PlatformFields
<1>3. /\ VaultSpec \in FormSpecs
      /\ Schema(VaultSpec) <=> ~UncheckedByRules
      /\ Served <=> ~UncheckedByRules /\ ~UncheckedByHandler
      /\ Made.ok => Carries(Made.spec, VaultSpec)
    BY <1>1, <1>2, RefValues DEF Fields, FieldsOf, PlatformKinds, PlatformFields,
       VaultSpec, Inputs, ListNames, Proper, Values, VaultCreated, Sends, Schema,
       UncheckedByRules, UncheckedByHandler, Served, Carries, FormSpecs, FormValues
<1> QED
    BY <1>2, <1>3 DEF Handled, Served

LEMMA VaultKVForm == ASSUME Filled, canSubmit, formKind = "VaultKV" PROVE Handled
<1>1. buildSpec = VaultKVSpec /\ Made = VaultKVCreated(VaultKVSpec)
    BY DEF buildSpec, Made, Created, PlatformKinds, PlatformFields
<1>2. /\ VaultKVSpec \in FormSpecs
      /\ Schema(VaultKVSpec) <=> ~UncheckedByRules
      /\ Served <=> ~UncheckedByRules /\ ~UncheckedByHandler
      /\ Made.ok => Carries(Made.spec, VaultKVSpec)
    BY <1>1, RefValues DEF Fields, FieldsOf, PlatformKinds, PlatformFields,
       VaultKVSpec, ListNames, Proper, Values, VaultKVCreated, Sends, NameList,
       Schema, UncheckedByRules, UncheckedByHandler, Served, Carries, Forgotten,
       FormSpecs, FormValues
<1> QED
    BY <1>1, <1>2 DEF Handled, Served

LEMMA AAPOrgForm == ASSUME Filled, canSubmit, formKind = "AAPOrg" PROVE Handled
<1>1. buildSpec = AAPOrgSpec /\ Made = AAPOrgCreated(AAPOrgSpec)
    BY DEF buildSpec, Made, Created, PlatformKinds, PlatformFields
<1>2. /\ AAPOrgSpec \in FormSpecs
      /\ Schema(AAPOrgSpec) <=> ~UncheckedByRules
      /\ Served <=> ~UncheckedByRules /\ ~UncheckedByHandler
      /\ Made.ok => Carries(Made.spec, AAPOrgSpec)
    BY <1>1, RefValues DEF Fields, FieldsOf, PlatformKinds, PlatformFields,
       AAPOrgSpec, ListNames, Proper, Values, AAPOrgCreated, SendsIf, Sends,
       ValidNameList, NameList, Schema, UncheckedByRules, UncheckedByHandler,
       Served, canSubmit, Defaulted, Carries, Forgotten, FormSpecs, FormValues
<1> QED
    BY <1>1, <1>2 DEF Handled, Served

LEMMA QuayOrgForm == ASSUME Filled, canSubmit, formKind = "QuayOrg" PROVE Handled
<1>1. buildSpec = QuayOrgSpec /\ Made = QuayOrgCreated(QuayOrgSpec)
    BY DEF buildSpec, Made, Created, PlatformKinds, PlatformFields
<1>2. /\ QuayOrgSpec \in FormSpecs
      /\ Schema(QuayOrgSpec) <=> ~UncheckedByRules
      /\ Served <=> ~UncheckedByRules /\ ~UncheckedByHandler
      /\ Made.ok => Carries(Made.spec, QuayOrgSpec)
    BY <1>1, RefValues DEF Fields, FieldsOf, PlatformKinds, PlatformFields,
       QuayOrgSpec, ListNames, Proper, Values, QuayOrgCreated, SendsIf, Sends,
       ValidNameList, NameList, Schema, UncheckedByRules, UncheckedByHandler,
       Served, canSubmit, Defaulted, Carries, FormSpecs, FormValues
<1> QED
    BY <1>1, <1>2 DEF Handled, Served

\* A CloudAWS names a Secret only if the form has one made for it.
LEMMA CloudAWSSecret ==
    ASSUME formKind = "CloudAWS"
    PROVE  /\ buildSpec.credentialsSecretRef = "v1" => NeedsSecret
           /\ Made.ok /\ Made.spec.credentialsSecretRef = "v1" => NeedsSecret
<1>1. buildSpec = CloudAWSSpec /\ Made = CloudAWSCreated(CloudAWSSpec)
    BY DEF buildSpec, Made, Created, PlatformKinds, PlatformFields
<1>2. CloudAWSSpec.credentialsSecretRef = "v1" => NeedsSecret
    BY DEF CloudAWSSpec, NeedsSecret
<1>3. LET c == CloudAWSCreated(CloudAWSSpec)
      IN  c.ok => c.spec.credentialsSecretRef \in {CloudAWSSpec.credentialsSecretRef, "none"}
    BY DEF CloudAWSCreated, SendsIf, Sends, Refused
<1> QED
    BY <1>1, <1>2, <1>3

\* A kind that goes straight to the API server is sound if its rules ask for no more
\* than the button does, but for what Unchecked names.
LEMMA ByRules ==
    ASSUME formKind \in PlatformKinds, Filled, NEW spec \in FormSpecs,
           PlatformSchema(formKind, spec) <=> ~UncheckedByRules
    PROVE  Sound(spec)
<1>1. formKind # "CloudAWS" /\ style = "raw"
    BY DEF PlatformKinds, PlatformFields, Filled
<1>2. Accepted(spec) = IF formName # "bad" /\ PlatformSchema(formKind, spec)
                       THEN Sends(spec) ELSE Refused
    BY <1>1 DEF Accepted, ToApiServer, SendsIf, Sends, Refused
<1>3. formName # "bad" /\ PlatformSchema(formKind, spec) <=> ~Unchecked
    BY <1>1 DEF Unchecked
<1> QED
    BY <1>1, <1>2, <1>3, RawCarries DEF Sound, Fitting, Sends, Refused

\* Of the kinds that go straight to the API server, what the button lets through passes
\* the rules of the kind's schema, but for what UncheckedByButton names.
LEMMA PlatformForms ==
    ASSUME Filled, canSubmit, formKind \in PlatformKinds
    PROVE  Sound(buildSpec)
<1> USE RefValues DEF Filled, Inputs, PlatformInputs, PlatformKinds, PlatformFields,
                      buildSpec, PlatformSpec, FormSpecs, FieldsOf, FormValues, Values,
                      Proper, SiteTypes, Text, Address, ListNames, PlatformSchema, InBounds,
                      PlatformComplete, canSubmit, UncheckedByRules, UncheckedByButton
<1>1. CASE formKind = "HybridNetwork"
    <2>1. text \in HybridNetworkInputs /\ buildSpec = HybridNetworkSpec(text, Ref("main"))
        BY <1>1
    <2>2. buildSpec \in FormSpecs
        BY <1>1, <2>1 DEF HybridNetworkSpec, HybridNetworkInputs, overlayMtuValid
    <2>3. PlatformSchema(formKind, buildSpec) <=> ~UncheckedByRules
        BY <1>1, <2>1 DEF HybridNetworkSpec, HybridNetworkInputs, overlayMtuValid, HybridNetworkComplete
    <2> QED
        BY <2>2, <2>3, ByRules
<1>2. CASE formKind = "NetworkPlacement"
    <2>1. text \in NetworkPlacementInputs /\ buildSpec = NetworkPlacementSpec(text, Ref("main"), Ref("other"))
        BY <1>2
    <2>2. buildSpec \in FormSpecs
        BY <1>2, <2>1 DEF NetworkPlacementSpec, NetworkPlacementInputs, vmNamespacesValid
    <2>3. PlatformSchema(formKind, buildSpec) <=> ~UncheckedByRules
        BY <1>2, <2>1 DEF NetworkPlacementSpec, NetworkPlacementInputs, vmNamespacesValid, NetworkPlacementComplete, NetworkPlacementSchema
    <2> QED
        BY <2>2, <2>3, ByRules
<1>3. CASE formKind = "HybridFabric"
    <2>1. text \in HybridFabricInputs /\ buildSpec = HybridFabricSpec(text)
        BY <1>3
    <2>2. buildSpec \in FormSpecs
        BY <1>3, <2>1 DEF HybridFabricSpec, HybridFabricInputs
    <2>3. PlatformSchema(formKind, buildSpec) <=> ~UncheckedByRules
        BY <1>3, <2>1 DEF HybridFabricSpec, HybridFabricInputs, HybridFabricComplete, HybridFabricSchema, vniPoolSchema
    <2> QED
        BY <2>2, <2>3, ByRules
<1>4. CASE formKind = "CloudInfrastructure"
    <2>1. text \in CloudInfrastructureInputs /\ buildSpec = CloudInfrastructureSpec(text)
        BY <1>4
    <2>2. buildSpec \in FormSpecs
        BY <1>4, <2>1 DEF CloudInfrastructureSpec, CloudInfrastructureInputs, cinfraCredsSet, cloudInfrastructureNeedsCredentials
    <2>3. PlatformSchema(formKind, buildSpec) <=> ~UncheckedByRules
        BY <1>4, <2>1 DEF CloudInfrastructureSpec, CloudInfrastructureInputs, cinfraCredsSet, cloudInfrastructureNeedsCredentials, CloudInfrastructureComplete, CloudInfrastructureSchema
    <2> QED
        BY <2>2, <2>3, ByRules
<1>5. CASE formKind = "CloudGateway"
    <2>1. text \in CloudGatewayInputs /\ buildSpec = CloudGatewaySpec(text, Ref("main"))
        BY <1>5
    <2>2. buildSpec \in FormSpecs
        BY <1>5, <2>1 DEF CloudGatewaySpec, CloudGatewayInputs
    <2>3. PlatformSchema(formKind, buildSpec) <=> ~UncheckedByRules
        BY <1>5, <2>1 DEF CloudGatewaySpec, CloudGatewayInputs
    <2> QED
        BY <2>2, <2>3, ByRules
<1>6. CASE formKind = "TransportLink"
    <2>1. text \in TransportLinkInputs /\ buildSpec = TransportLinkSpec(text, Ref("main"))
        BY <1>6
    <2>2. buildSpec \in FormSpecs
        BY <1>6, <2>1 DEF TransportLinkSpec, TransportLinkInputs
    <2>3. PlatformSchema(formKind, buildSpec) <=> ~UncheckedByRules
        BY <1>6, <2>1 DEF TransportLinkSpec, TransportLinkInputs, TransportLinkSchema
    <2> QED
        BY <2>2, <2>3, ByRules
<1>7. CASE formKind = "UIHealthChecker"
    <2>1. text \in UIHealthCheckerInputs /\ buildSpec = UIHealthCheckerSpec(text)
        BY <1>7
    <2>2. buildSpec \in FormSpecs
        BY <1>7, <2>1 DEF UIHealthCheckerSpec, UIHealthCheckerInputs
    <2>3. PlatformSchema(formKind, buildSpec) <=> ~UncheckedByRules
        BY <1>7, <2>1 DEF UIHealthCheckerSpec, UIHealthCheckerInputs
    <2> QED
        BY <2>2, <2>3, ByRules
<1> QED
    BY <1>1, <1>2, <1>3, <1>4, <1>5, <1>6, <1>7

\* Whatever the button lets through, of every kind, is a spec the form may send.
LEMMA ButtonChecks ==
    ASSUME formKind \in EveryKind, Filled, canSubmit
    PROVE  Sound(buildSpec)
<1>1. CASE formKind \in PlatformKinds
    BY <1>1, PlatformForms
<1>2. CASE formKind \in AllKinds
    <2>1. formKind \in
             {"Entity", "Team", "Project", "Assignment", "PlatformOpenshift", "CloudOSO",
              "CloudAWS", "CloudVirt", "OpenStackMigration", "Persona", "Rbac", "Vault",
              "VaultKV", "AAPOrg", "QuayOrg"}
        BY <1>2 DEF AllKinds, Fields
    <2>2. Handled
        BY <2>1, EntityForm, TeamForm, ProjectForm, AssignmentForm, PlatformOpenshiftForm,
           CloudOSOForm, CloudAWSForm, CloudVirtForm, OpenStackMigrationForm, PersonaForm,
           RbacForm, VaultForm, VaultKVForm, AAPOrgForm, QuayOrgForm
    <2>3. formName # "none"
        BY DEF canSubmit
    <2> QED
        BY <1>2, <2>2, <2>3, ByHandler, CloudAWSSecret
<1> QED
    BY <1>1, <1>2 DEF EveryKind

-----------------------------------------------------------------------------
(* The inductive invariant of the form *)

\* A submission under way: the spec the form built, and for whom.
Requests == [step : {"secret", "create"}, ns : Entities, spec : FormSpecs,
             from : SUBSET Entities]

FormTypes ==
    /\ formKind \in EveryKind
    /\ Filled
    /\ entity \in Entities
    /\ shown \in [ListNames -> Entities \cup {"none"}]
    /\ settled \subseteq ListNames /\ loading \subseteq ListNames
    /\ submits \in [1..MaxSubmits -> {Unsent, Ended} \cup Requests]
    /\ DOMAIN stored = Entities
    /\ secrets \subseteq Entities

\* A submission sends what the form may send, and has its Secret made first.
RequestsSound ==
    \A i \in 1..MaxSubmits : submits[i] \in Requests =>
        /\ Sound(submits[i].spec)
        /\ submits[i].step = "create" /\ NeedsSecret => submits[i].ns \in secrets

\* What is stored came from such a submission.
StoredSound ==
    \A e \in Entities : stored[e] # NoResource =>
        /\ Carries(stored[e].spec, stored[e].asked)
        /\ formKind = "CloudAWS" /\ stored[e].spec.credentialsSecretRef = "v1" => e \in secrets

FormInv ==
    /\ FormTypes
    /\ RequestsSound
    /\ StoredSound
    /\ SubmittedIsValid
    /\ ChoicesBelongToEntity

LEMMA FormInitInv == FormInit => FormInv
<1> SUFFICES ASSUME FormInit PROVE FormInv
    OBVIOUS
<1>1. FormTypes
    BY FormsAssumption DEF FormInit, FormTypes, Filled, Requests
<1>2. \A i \in 1..MaxSubmits : submits[i] \notin Requests
    BY DEF FormInit, Unsent, Requests
<1> QED
    BY <1>1, <1>2 DEF FormInit, FormInv, RequestsSound, StoredSound, SubmittedIsValid,
       ChoicesBelongToEntity

-----------------------------------------------------------------------------
(* What a step of the form keeps *)

\* What a form may send depends on nothing that changes.
LEMMA SoundStays ==
    ASSUME UNCHANGED typedVars
    PROVE  /\ \A spec : Sound(spec)' <=> Sound(spec)
           /\ \A made, asked : Carries(made, asked)' <=> Carries(made, asked)
           /\ NeedsSecret' <=> NeedsSecret
           /\ Requests' = Requests /\ FormSpecs' = FormSpecs
           /\ Unchecked' <=> Unchecked
<1> USE DEF typedVars
<1>1. FormSpecs' = FormSpecs /\ FieldsOf(formKind)' = FieldsOf(formKind)
    BY DEF FormSpecs
<1>2. \A made, asked : Carries(made, asked)' <=> Carries(made, asked)
    BY <1>1 DEF Carries
<1>3. NeedsSecret' <=> NeedsSecret
    BY DEF NeedsSecret
<1>4. Unchecked' <=> Unchecked
    BY DEF Unchecked, UncheckedByRules, UncheckedByHandler, CloudAWSSpec
<1>5. \A spec : Accepted(spec)' = Accepted(spec)
    BY DEF Accepted, ToApiServer
<1>6. \A spec : Sound(spec)' <=> Sound(spec)
    BY <1>1, <1>2, <1>3, <1>4, <1>5 DEF Sound, Fitting
<1> QED
    BY <1>1, <1>2, <1>3, <1>4, <1>6 DEF Requests

\* A step of the form keeps the invariant if it keeps the references apart.
LEMMA FormOnly ==
    ASSUME FormInv, UNCHANGED <<typedVars, submits, stored, secrets, result>>,
           entity' \in Entities, loading' \subseteq ListNames, settled' \subseteq ListNames,
           shown' \in [ListNames -> Entities \cup {"none"}],
           refs' \in [ListNames -> Entities \cup {"none"}],
           ChoicesBelongToEntity'
    PROVE  FormInv'
<1>1. FormTypes'
    BY SoundStays DEF FormInv, FormTypes, Filled, typedVars
<1>2. RequestsSound' /\ StoredSound' /\ SubmittedIsValid'
    BY SoundStays DEF FormInv, RequestsSound, StoredSound, SubmittedIsValid, typedVars
<1> QED
    BY <1>1, <1>2 DEF FormInv

\* The default fills in an empty main reference, and no other.
LEMMA DefaultFills ==
    ASSUME NEW r \in [ListNames -> Entities \cup {"none"}],
           NEW lists \in [ListNames -> Entities \cup {"none"}]
    PROVE  /\ WithDefault(r, lists) \in [ListNames -> Entities \cup {"none"}]
           /\ \A l \in ListNames : r[l] # "none" => WithDefault(r, lists)[l] = r[l]
BY DEF WithDefault, ListNames

LEMMA PickedKeeps ==
    ASSUME FormInv, NEW e \in Entities, onEntityPicked(e)
    PROVE  FormInv'
<1>1. Cleared \in [ListNames -> Entities \cup {"none"}]
    BY DEF Cleared
<1>2. settled' = {}
    BY DEF onEntityPicked, Cleared, FormInv, FormTypes
<1>3. refs' \in [ListNames -> Entities \cup {"none"}]
    BY <1>1, DefaultFills DEF onEntityPicked, FormInv, FormTypes
<1> QED
    BY <1>2, <1>3, FormOnly DEF onEntityPicked, FormInv, FormTypes, ChoicesBelongToEntity

LEMMA ListKeeps ==
    ASSUME FormInv, NEW l \in ListNames, ListArrives(l) \/ ListFails(l)
    PROVE  FormInv'
<1>1. CASE ListArrives(l)
    <2>1. Items(l, entity) \in Entities \cup {"none"}
        BY DEF Items, normalizeListPayload, listRbacConfigs, listAAPConfigs, listQuayConfigs,
           FormInv, FormTypes
    <2>2. shown' \in [ListNames -> Entities \cup {"none"}]
        BY <1>1, <2>1 DEF ListArrives, FormInv, FormTypes
    <2>3. /\ refs' \in [ListNames -> Entities \cup {"none"}]
          /\ \A k \in ListNames : refs[k] # "none" => refs'[k] = refs[k]
        BY <1>1, <2>2 DEF ListArrives, WithDefault, ListNames, FormInv, FormTypes, Filled
    <2>4. ChoicesBelongToEntity'
        BY <1>1, <2>3 DEF ListArrives, FormInv, FormTypes, Filled, ChoicesBelongToEntity
    <2> QED
        BY <1>1, <2>2, <2>3, <2>4, FormOnly DEF ListArrives, FormInv, FormTypes
<1>2. CASE ListFails(l)
    BY <1>2, FormOnly DEF ListFails, FormInv, FormTypes, Filled, ChoicesBelongToEntity
<1> QED
    BY <1>1, <1>2

LEMMA ChooseKeeps ==
    ASSUME FormInv, NEW l \in ListNames, Choose(l)
    PROVE  FormInv'
<1>1. refs' \in [ListNames -> Entities \cup {"none"}]
    BY DEF Choose, FormInv, FormTypes, Filled
<1>2. ChoicesBelongToEntity'
    BY DEF Choose, FormInv, FormTypes, Filled, ChoicesBelongToEntity
<1>3. settled' \subseteq ListNames
    BY DEF Choose, FormInv, FormTypes
<1> QED
    BY <1>1, <1>2, <1>3, FormOnly DEF Choose, FormInv, FormTypes

-----------------------------------------------------------------------------
(* What a step of a submission keeps *)

\* A step of submission i keeps the invariant if what becomes of i does.
LEMMA SubmissionOnly ==
    ASSUME FormInv, UNCHANGED <<typedVars, formVars>>,
           NEW i \in 1..MaxSubmits, NEW s \in {Unsent, Ended} \cup Requests,
           submits' = [submits EXCEPT ![i] = s],
           s \in Requests => /\ Sound(s.spec)
                             /\ s.step = "create" /\ NeedsSecret => s.ns \in secrets',
           secrets \subseteq secrets', secrets' \subseteq Entities,
           DOMAIN stored' = Entities, StoredSound', SubmittedIsValid'
    PROVE  FormInv'
<1>1. FormTypes'
    BY SoundStays DEF FormInv, FormTypes, Filled, typedVars, formVars
<1>2. RequestsSound'
    BY SoundStays DEF FormInv, FormTypes, RequestsSound, typedVars, formVars
<1>3. ChoicesBelongToEntity'
    BY DEF FormInv, ChoicesBelongToEntity, typedVars, formVars
<1> QED
    BY <1>1, <1>2, <1>3 DEF FormInv

LEMMA SubmitKeeps ==
    ASSUME FormInv, NEW i \in 1..MaxSubmits, handleSubmit(i)
    PROVE  FormInv'
<1> DEFINE s == [step |-> FirstStep, ns |-> entity, spec |-> buildSpec,
                 from |-> {refs[l] : l \in ListNames} \ {"none"}]
<1>1. Sound(buildSpec)
    BY ButtonChecks DEF FormInv, FormTypes, handleSubmit
<1>2. s \in Requests
    BY <1>1 DEF Requests, Sound, FirstStep, FormInv, FormTypes, Filled
<1>3. s.step = "create" => ~NeedsSecret
    BY DEF FirstStep
<1>4. StoredSound'
    BY SoundStays DEF FormInv, StoredSound, handleSubmit, typedVars, formVars
<1>5. SubmittedIsValid'
    BY DEF handleSubmit, SubmittedIsValid
<1> QED
    BY <1>1, <1>2, <1>3, <1>4, <1>5, SubmissionOnly DEF handleSubmit, FormInv, FormTypes

LEMMA SecretKeeps ==
    ASSUME FormInv, NEW i \in 1..MaxSubmits, createNamespaceSecret(i)
    PROVE  FormInv'
<1>1. submits[i] \in Requests
    BY DEF createNamespaceSecret, FormInv, FormTypes, Unsent, Ended
<1>2. StoredSound'
    BY SoundStays DEF FormInv, StoredSound, createNamespaceSecret, Finish, typedVars, formVars
<1>3. SubmittedIsValid'
    BY SoundStays DEF FormInv, SubmittedIsValid, createNamespaceSecret, Finish, Unchecked
<1>4. CASE formName = "bad" \/ submits[i].ns \in secrets
    BY <1>2, <1>3, <1>4, SubmissionOnly DEF createNamespaceSecret, Finish, FormInv, FormTypes,
       Ended, Requests
<1>5. CASE formName # "bad" /\ submits[i].ns \notin secrets
    <2> DEFINE s == [submits[i] EXCEPT !.step = "create"]
    <2>1. s \in Requests /\ s.ns = submits[i].ns /\ s.spec = submits[i].spec
        BY <1>1 DEF Requests
    <2>2. submits' = [submits EXCEPT ![i] = s] /\ secrets' = secrets \cup {submits[i].ns}
        BY <1>5 DEF createNamespaceSecret
    <2>3. Sound(s.spec) /\ s.ns \in Entities
        BY <1>1, <2>1 DEF FormInv, RequestsSound, Requests
    <2>4. /\ UNCHANGED <<typedVars, formVars>> /\ DOMAIN stored' = Entities
          /\ secrets \subseteq Entities
        BY DEF createNamespaceSecret, FormInv, FormTypes
    <2>5. /\ s.step = "create" /\ NeedsSecret => s.ns \in secrets'
          /\ secrets \subseteq secrets' /\ secrets' \subseteq Entities
        BY <2>1, <2>2, <2>3, <2>4
    <2> HIDE DEF s
    <2> QED
        BY <1>2, <1>3, <2>1, <2>2, <2>3, <2>4, <2>5, SubmissionOnly
<1> QED
    BY <1>4, <1>5

LEMMA CreateKeeps ==
    ASSUME FormInv, NEW i \in 1..MaxSubmits, createDashboardResource(i)
    PROVE  FormInv'
<1> DEFINE s == submits[i]
           c == Accepted(s.spec)
<1>1. s \in Requests /\ s.step = "create"
    BY DEF createDashboardResource, FormInv, FormTypes, Unsent, Ended
<1>2. Sound(s.spec) /\ (NeedsSecret => s.ns \in secrets) /\ s.ns \in Entities
    BY <1>1 DEF FormInv, RequestsSound, Requests
<1>3. SubmittedIsValid'
    <2>1. (result' = "refused" => ~c.ok) /\ (result' = "created" => c.ok)
        BY DEF createDashboardResource, Finish
    <2>2. c.ok <=> ~Unchecked'
        BY <1>2, SoundStays DEF Sound, Fitting, createDashboardResource
    <2> QED
        BY <2>1, <2>2 DEF SubmittedIsValid
<1>4. DOMAIN stored' = Entities /\ StoredSound'
    <2>1. CASE UNCHANGED stored
        BY <2>1, SoundStays DEF FormInv, FormTypes, StoredSound, createDashboardResource, typedVars, formVars
    <2>2. CASE /\ c.ok
               /\ stored' = [stored EXCEPT ![s.ns] =
                                [spec |-> c.spec, asked |-> s.spec, from |-> s.from]]
        <3>1. /\ Carries(c.spec, s.spec)
              /\ formKind = "CloudAWS" /\ c.spec.credentialsSecretRef = "v1" => s.ns \in secrets
            BY <1>2, <2>2 DEF Sound, Fitting
        <3>2. /\ DOMAIN stored' = Entities
              /\ \A e \in Entities : IF e = s.ns
                                     THEN stored'[e].spec = c.spec /\ stored'[e].asked = s.spec
                                     ELSE stored'[e] = stored[e]
            BY <2>2 DEF FormInv, FormTypes
        <3>3. UNCHANGED <<typedVars, formKind, secrets>>
            BY DEF createDashboardResource, typedVars
        <3> HIDE DEF c, s
        <3> QED
            BY <3>1, <3>2, <3>3, SoundStays DEF FormInv, StoredSound, NoResource
    <2> QED
        BY <2>1, <2>2 DEF createDashboardResource
<1>5. submits' = [submits EXCEPT ![i] = Ended]
    BY DEF createDashboardResource, Finish
<1> QED
    BY <1>3, <1>4, <1>5, SubmissionOnly
       DEF createDashboardResource, FormInv, FormTypes, Ended, Requests

LEMMA FailureKeeps ==
    ASSUME FormInv, NEW i \in 1..MaxSubmits, SubmitFails(i)
    PROVE  FormInv'
<1>1. StoredSound'
    BY SoundStays DEF FormInv, StoredSound, SubmitFails, typedVars, formVars
<1>2. SubmittedIsValid'
    BY DEF SubmittedIsValid, SubmitFails, Finish
<1> QED
    BY <1>1, <1>2, SubmissionOnly DEF SubmitFails, Finish, FormInv, FormTypes, Ended, Requests

-----------------------------------------------------------------------------
(* The theorems about forms *)

\* Every step of the form, of its lists and of its submissions keeps the invariant
\* (CreateResourceForm.tsx, with what the server or the API server makes of a request).
THEOREM FormInductive == FormSpec => []FormInv
<1>1. FormInv /\ [FormNext]_createVars => FormInv'
    <2> SUFFICES ASSUME FormInv, [FormNext]_createVars PROVE FormInv'
        OBVIOUS
    <2>1. CASE UNCHANGED createVars
        BY <2>1, FormOnly DEF createVars, typedVars, FormInv, FormTypes, Filled, ChoicesBelongToEntity
    <2>2. CASE FormNext
        BY <2>2, PickedKeeps, ListKeeps, ChooseKeeps, SubmitKeeps, SecretKeeps, CreateKeeps,
           FailureKeeps DEF FormNext
    <2> QED
        BY <2>1, <2>2
<1> QED
    BY <1>1, FormInitInv, PTL DEF FormSpec

\* The form always holds a text and a choice of its kind, and what it sends and what is
\* stored have exactly the fields of that kind (buildSpec, createDashboardResource).
THEOREM FormTypeCorrect == FormSpec => []FormTypeOK
<1>1. FormInv => FormTypeOK
    <2> SUFFICES ASSUME FormInv PROVE FormTypeOK
        OBVIOUS
    <2>1. \A i \in 1..MaxSubmits :
             submits[i].step \in {"secret", "create"} =>
                 DOMAIN submits[i].spec = FieldsOf(formKind)
        BY DEF FormInv, FormTypes, Requests, FormSpecs, Unsent, Ended
    <2>2. \A e \in Entities : stored[e] # NoResource => DOMAIN stored[e].spec = FieldsOf(formKind)
        BY DEF FormInv, StoredSound, Carries, FormSpecs
    <2> QED
        BY <2>1, <2>2 DEF FormInv, FormTypes, Filled, FormTypeOK
<1> QED
    BY <1>1, FormInductive, PTL

\* A reference chosen from a list that has settled for the entity is one of that entity's,
\* however often the entity is changed while lists are on their way (onEntityPicked, the
\* effects that fetch the lists).
THEOREM ChoicesFollowEntity == FormSpec => []ChoicesBelongToEntity
<1>1. FormInv => ChoicesBelongToEntity
    BY DEF FormInv
<1> QED
    BY <1>1, FormInductive, PTL

\* What the button lets through is refused by the handler or by the rules of the API
\* server exactly for what Unchecked names, kind by kind, in either style, whatever else
\* was typed, chosen and switched before (canSubmit and buildSpec against the handlers of
\* k8s-proxy.js and the CRDs).
THEOREM ButtonIsEnough == FormSpec => []SubmittedIsValid
<1>1. FormInv => SubmittedIsValid
    BY DEF FormInv
<1> QED
    BY <1>1, FormInductive, PTL

\* Each field that was asked for is stored as asked, but for the fields in Forgotten,
\* through buildSpec, the handler and the API server.
THEOREM NothingAskedIsLost == FormSpec => []AskedIsStored
<1>1. FormInv => AskedIsStored
    BY DEF FormInv, StoredSound, Carries, AskedIsStored
<1> QED
    BY <1>1, FormInductive, PTL

\* No CloudAWS names a Secret that was not made before it (handleSubmit makes the Secret,
\* waits, and then creates the resource).
THEOREM SecretsComeFirst == FormSpec => []SecretComesFirst
<1>1. FormInv => SecretComesFirst
    BY DEF FormInv, StoredSound, SecretComesFirst
<1> QED
    BY <1>1, FormInductive, PTL
=============================================================================
