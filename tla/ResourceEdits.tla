---------------------------- MODULE ResourceEdits ----------------------------
(***************************************************************************)
(* One custom resource, edited through the dashboards' servers             *)
(* (k8s-proxy.js of the tenant and of the admin dashboard) by several      *)
(* sessions at a time, while its operator and a writer outside the         *)
(* dashboards (kubectl, GitOps) change it too.                             *)
(*                                                                         *)
(* A handler sends one request to the API server, or, to update, reads the *)
(* resource and then sends a PUT made of what it read and of the           *)
(* submission.  A request without an answer is given up after 15 seconds:  *)
(* the session gets 502, and the request may still be carried out later.   *)
(* Sessions have a valid token and give valid names; a handler that lacks  *)
(* them answers 401 or 400 and sends nothing.  An exception in a handler   *)
(* is answered with 500 by the server's framework.                         *)
(***************************************************************************)
EXTENDS ServerSpecs, Naturals

CONSTANTS
    Kinds,          \* the kinds to consider; each behaviour is about one
    Sessions,       \* requests being handled at a time
    MaxRequests,    \* bound: requests the sessions make
    MaxLate,        \* bound: requests given up that are still on their way
    MaxMishaps      \* bound: requests refused (403) or failed (500), answers lost,
                    \* and changes made outside the dashboards

ASSUME KindsAssumption == Kinds \subseteq AllKinds
ASSUME BoundsAssumption ==
    MaxRequests \in Nat /\ MaxLate \in Nat /\ MaxMishaps \in Nat

VARIABLES
    kind,       \* the kind of the resource
    obj,        \* the resource in the API server, or NoObject
    deployed,   \* what the operator has set up for it exists
    job,        \* session -> the request its handler is busy with, or Idle
    answer,     \* what the last step answered and became of the request, if it did
    late,       \* requests given up that the API server may still carry out
    clock,      \* the resource version given last
    spent       \* how much of each bound is used

vars == <<kind, obj, deployed, job, answer, late, clock, spent>>

NoAnswer == [code |-> 0, effect |-> "none"]
NoObject == [rv |-> 0]
Exists == obj # NoObject

\* What metadata holds besides the name, as far as it matters here: one
\* annotation of the operator's and one of anybody else's.
Annotations == {"reconcileNow", "note"}
Metadata == {"finalizer", "labels"} \cup Annotations

\* What a merge patch does to an annotation: it keeps it, sets it, removes it
\* (null), or gives it a value that is not a text.
AnnotationPatches == [Annotations -> {"keep", "set", "null", "bad"}]
Touched(patch, how) == {x \in Annotations : patch[x] = how}

-----------------------------------------------------------------------------
(* The requests of the handlers, and what they may submit. *)

Idle == [pc |-> "idle"]
Reading(form) == [pc |-> "reading", form |-> form]
Sent(req, passes) == [pc |-> "sent", req |-> req, passes |-> passes]

List == [verb |-> "list"]
Get == [verb |-> "get"]
Delete == [verb |-> "delete"]
Annotate(patch) == [verb |-> "annotate", patch |-> patch]
ReconcileNow ==
    Annotate([x \in Annotations |-> IF x = "reconcileNow" THEN "set" ELSE "keep"])
Post(spec) == [verb |-> "post", spec |-> spec]
Merge(spec) == [verb |-> "merge", spec |-> spec]
Replace(spec) == [verb |-> "replace", spec |-> spec]
\* Mutant: the PUT carries the version of the moment it is carried out.
PutUnversioned(rv, meta, spec) == [verb |-> "put", rv |-> 0, meta |-> meta, spec |-> spec]
Put(rv, meta, spec) == [verb |-> "put", rv |-> rv, meta |-> meta, spec |-> spec]

Writes(req) == req.verb \notin {"list", "get"}

\* A value of a field, with the word a platform's type takes.
FieldValue(x, v) == IF x = "type" /\ kind = "PlatformOpenshift" /\ v \in Proper
                    THEN "aws" ELSE v
Uniform(S, v) == [x \in Fields[kind] |-> IF x \in S THEN FieldValue(x, v) ELSE "none"]

\* Everything filled in, every field blank or bad, nothing, or one field only.
Submissions ==
    {Uniform(Fields[kind], v) : v \in {"v2", "blank", "bad"}}
        \cup {Uniform(S, "v2") : S \in {{}} \cup {{x} : x \in Fields[kind]}}

Existing == [rv |-> 1, meta |-> {"labels", "note"}, deleting |-> FALSE,
           spec |-> Uniform(Fields[kind], "v1")]

-----------------------------------------------------------------------------
(* The API server. *)

\* The resource a writing request asks for.
Wanted(req) ==
    CASE req.verb = "delete" -> [obj EXCEPT !.deleting = TRUE]
      [] req.verb = "annotate" -> 
            [obj EXCEPT !.meta = (@ \ Touched(req.patch, "null")) \cup Touched(req.patch, "set")]
      [] req.verb = "merge" -> [obj EXCEPT !.spec = Merged(req.spec, @)]
      [] req.verb = "replace" -> [obj EXCEPT !.spec = req.spec]
      [] req.verb = "put" -> [obj EXCEPT !.spec = req.spec, !.meta = req.meta]

\* A write that changes nothing gives no new version; a resource that is
\* being deleted is gone once it has no finalizer.
Committed(new) ==
    IF new = obj THEN obj
    ELSE IF new.deleting /\ "finalizer" \notin new.meta THEN NoObject
    ELSE [new EXCEPT !.rv = clock + 1]

Answer(code, new) == [code |-> code, obj |-> new]

Outcome(req) ==
    CASE req.verb = "list" -> Answer(200, obj)
      [] req.verb = "post" /\ Exists -> Answer(409, obj)
      [] req.verb = "post" /\ ~Exists /\ ~Schema(req.spec) -> Answer(422, obj)
      [] req.verb = "post" /\ ~Exists /\ Schema(req.spec) ->
            Answer(201, [rv |-> clock + 1, meta |-> {}, deleting |-> FALSE,
                         spec |-> req.spec])
      [] req.verb \notin {"list", "post"} /\ ~Exists -> Answer(404, obj)
      [] req.verb = "get" /\ Exists -> Answer(200, obj)
      [] req.verb = "put" /\ Exists /\ req.rv \notin {0, obj.rv} -> Answer(409, obj)
      [] req.verb = "annotate" /\ Exists /\ Touched(req.patch, "bad") # {} -> Answer(400, obj)
      [] OTHER -> IF Schema(Wanted(req).spec) THEN Answer(200, Committed(Wanted(req)))
                  ELSE Answer(422, obj)

Tick == clock' = IF obj' \notin {obj, NoObject} THEN clock + 1 ELSE clock

-----------------------------------------------------------------------------
(* A handler starts: it answers 400 or 500, sends its request, or reads    *)
(* first.                                                                  *)

Begins(s, j, code) ==
    /\ job[s] = Idle
    /\ spent.requests < MaxRequests
    /\ spent' = [spent EXCEPT !.requests = @ + 1]
    /\ job' = [job EXCEPT ![s] = j]
    /\ answer' = IF code = 0 THEN NoAnswer ELSE [code |-> code, effect |-> "none"]
    /\ UNCHANGED <<kind, obj, deployed, late, clock>>

Asks(s, k, req, passes) == kind = k /\ Begins(s, Sent(req, passes), 0)

\* checked: the result of the validation; req is the request it leads to.
Submits(s, checked, req, passes) ==
    IF checked.ok THEN Begins(s, Sent(req, passes), 0) ELSE Begins(s, Idle, checked.code)

Lists(s, k) == Asks(s, k, List, {403})
Gets(s, k) == Asks(s, k, Get, {403, 404})
Deletes(s, k) == Asks(s, k, Delete, {403, 404})
Creates(s, checked) == Submits(s, checked, Post(checked.spec), {403, 409})
Updates(s, k) == kind = k /\ \E form \in Submissions : Begins(s, Reading(form), 0)

\* The whole draft of the editor replaces the spec, whatever it is now.
Replaces(s, checked) == Submits(s, checked, Replace(checked.spec), {403, 404})
Merges(s, form) == Begins(s, Sent(Merge(form), {403, 404}), 0)

-----------------------------------------------------------------------------
(* The handlers of the tenant dashboard's server, kind by kind. *)

tenantListEntities(s) == Lists(s, "Entity")

listTeams(s) == Lists(s, "Team")
getTeam(s) == Gets(s, "Team")
createTeam(s) == kind = "Team" /\ \E f \in Submissions : Creates(s, TeamCreated(f))
deleteTeam(s) == Deletes(s, "Team")
updateTeam(s) == Updates(s, "Team")

listProjects(s) == Lists(s, "Project")
getProject(s) == Gets(s, "Project")
createProject(s) == kind = "Project" /\ \E f \in Submissions : Creates(s, ProjectCreated(f))
deleteProject(s) == Deletes(s, "Project")
patchProject(s) == kind = "Project" /\ \E f \in Submissions : Merges(s, f)

listAssignments(s) == Lists(s, "Assignment")
getAssignment(s) == Gets(s, "Assignment")
createAssignment(s) ==
    kind = "Assignment" /\ \E f \in Submissions : Creates(s, AssignmentCreated(f))
deleteAssignment(s) == Deletes(s, "Assignment")
updateAssignment(s) == Updates(s, "Assignment")

listPlatformOpenshifts(s) == Lists(s, "PlatformOpenshift")
getPlatformOpenshift(s) == Gets(s, "PlatformOpenshift")
createPlatformOpenshift(s) ==
    kind = "PlatformOpenshift" /\ \E f \in Submissions : Creates(s, PlatformOpenshiftCreated(f))
deletePlatformOpenshift(s) == Deletes(s, "PlatformOpenshift")
patchPlatformOpenshift(s) == kind = "PlatformOpenshift" /\ \E f \in Submissions : Merges(s, f)

listCloudOSOs(s) == Lists(s, "CloudOSO")
getCloudOSO(s) == Gets(s, "CloudOSO")
createCloudOSO(s) ==
    kind = "CloudOSO" /\ \E f \in Submissions : Creates(s, CloudOSOCreated(f))
deleteCloudOSO(s) == Deletes(s, "CloudOSO")
patchCloudOSO(s) == kind = "CloudOSO" /\ \E f \in Submissions : Replaces(s, CloudOSOPatch(f))

listCloudAWSs(s) == Lists(s, "CloudAWS")
getCloudAWS(s) == Gets(s, "CloudAWS")
createCloudAWS(s) ==
    kind = "CloudAWS" /\ \E f \in Submissions : Creates(s, CloudAWSCreated(f))
deleteCloudAWS(s) == Deletes(s, "CloudAWS")
patchCloudAWS(s) == kind = "CloudAWS" /\ \E f \in Submissions : Replaces(s, Sends(f))

listCloudVirts(s) == Lists(s, "CloudVirt")
getCloudVirt(s) == Gets(s, "CloudVirt")
createCloudVirt(s) ==
    kind = "CloudVirt" /\ \E f \in Submissions : Creates(s, CloudVirtCreated(f))
deleteCloudVirt(s) == Deletes(s, "CloudVirt")
patchCloudVirt(s) == kind = "CloudVirt" /\ \E f \in Submissions : Replaces(s, Sends(f))

listOpenStackMigrations(s) == Lists(s, "OpenStackMigration")
getOpenStackMigration(s) == Gets(s, "OpenStackMigration")
createOpenStackMigration(s) ==
    kind = "OpenStackMigration" /\ \E f \in Submissions : Creates(s, OpenStackMigrationCreated(f))
deleteOpenStackMigration(s) == Deletes(s, "OpenStackMigration")

listVaults(s) == Lists(s, "Vault")
getVault(s) == Gets(s, "Vault")
createVault(s) == kind = "Vault" /\ \E f \in Submissions : Creates(s, VaultCreated(f))
deleteVault(s) == Deletes(s, "Vault")

listVaultKVs(s) == Lists(s, "VaultKV")
getVaultKV(s) == Gets(s, "VaultKV")
createVaultKV(s) == kind = "VaultKV" /\ \E f \in Submissions : Creates(s, VaultKVCreated(f))
deleteVaultKV(s) == Deletes(s, "VaultKV")
updateVaultKV(s) == Updates(s, "VaultKV")

listAAPOrgs(s) == Lists(s, "AAPOrg")
getAAPOrg(s) == Gets(s, "AAPOrg")
createAAPOrg(s) == kind = "AAPOrg" /\ \E f \in Submissions : Creates(s, AAPOrgCreated(f))
deleteAAPOrg(s) == Deletes(s, "AAPOrg")
updateAAPOrg(s) == Updates(s, "AAPOrg")

listQuayOrgs(s) == Lists(s, "QuayOrg")
getQuayOrg(s) == Gets(s, "QuayOrg")
createQuayOrg(s) == kind = "QuayOrg" /\ \E f \in Submissions : Creates(s, QuayOrgCreated(f))
deleteQuayOrg(s) == Deletes(s, "QuayOrg")
updateQuayOrg(s) == Updates(s, "QuayOrg")

listPersonas(s) == Lists(s, "Persona")
getPersona(s) == Gets(s, "Persona")
createPersona(s) == kind = "Persona" /\ \E f \in Submissions : Creates(s, PersonaCreated(f))
\* Any annotations object is merged, the annotations of others included.
patchPersonaAnnotation(s) ==
    /\ kind = "Persona"
    /\ \/ Begins(s, Idle, 400)
       \/ \E patch \in AnnotationPatches : Begins(s, Sent(Annotate(patch), {403, 404}), 0)

listRbacs(s) == Lists(s, "Rbac")
searchRbacs(s) == Lists(s, "Rbac")
get(s) == Gets(s, "Rbac")
create(s) == kind = "Rbac" /\ \E f \in Submissions : Creates(s, RbacCreated(f))
remove(s) == Deletes(s, "Rbac")
updateRbac(s) == Updates(s, "Rbac")

\* The one annotation a user may set asks the operator to reconcile now.
patchAnnotation(s) == Begins(s, Sent(ReconcileNow, {403, 404}), 0)

-----------------------------------------------------------------------------
(* The handlers of the admin dashboard's server. *)

ClientErrors == {403, 404, 409, 422}

listEntities(s) == Asks(s, "Entity", List, {})
getEntity(s) == Asks(s, "Entity", Get, {404})
createEntity(s) ==
    /\ kind = "Entity"
    /\ \E f \in Submissions : LET c == EntityCreated(f) IN Submits(s, c, Post(c.spec), {409})
removeEntity(s) == Asks(s, "Entity", Delete, {404})

listEntityRbacs(s) == Asks(s, "Rbac", List, {})
createEntityRbac(s) ==
    /\ kind = "Rbac"
    /\ \E f \in Submissions :
          LET c == EntityRbacCreated(f) IN Submits(s, c, Post(c.spec), ClientErrors)
updateEntityRbac(s) ==
    /\ kind = "Rbac"
    /\ \E f \in Submissions :
          LET c == EntityRbacPatch(f) IN Submits(s, c, Merge(c.spec), {404})

listEntityPersonas(s) == Asks(s, "Persona", List, {})
createEntityPersona(s) ==
    /\ kind = "Persona"
    /\ \E f \in Submissions :
          LET c == EntityPersonaCreated(f) IN Submits(s, c, Post(c.spec), ClientErrors)

adminPatchAnnotation(s) ==
    kind # "OpenStackMigration" /\ Begins(s, Sent(ReconcileNow, {403, 404}), 0)

-----------------------------------------------------------------------------
(* The answers of the API server. *)

Ends(s, code, what) ==
    /\ job' = [job EXCEPT ![s] = Idle]
    /\ answer' = [code |-> code, effect |-> what]

\* Mutant: only a failure of the API server counts as one.
ReplyToServerErrors(code, passes) ==
    IF code < 500 THEN (IF code \in passes THEN code ELSE 200) ELSE 502

\* What a handler answers for a status of the API server.
ReplyTo(code, passes) == IF code < 400 \/ code \in passes THEN code ELSE 502

\* An update handler has read the resource: it answers at once, or sends a
\* PUT of what it read with the spec replaced.
Conflict == {409}
\* Mutant: every update builds its metadata as updateAssignment does.
PutMetaRebuilt(cur) == {}
PutMeta(cur) == IF kind = "Assignment" THEN {} ELSE cur.meta
ReadAnswered(s) ==
    /\ job[s].pc = "reading"
    /\ IF ~Exists THEN Ends(s, 404, "none")
       ELSE LET u == Updated(kind, job[s].form, obj.spec)
            IN  IF u.ok
                THEN /\ job' = [job EXCEPT ![s] =
                                   Sent(Put(obj.rv, PutMeta(obj), u.spec), Conflict)]
                     /\ answer' = NoAnswer
                ELSE Ends(s, 400, "none")
    /\ UNCHANGED <<kind, obj, deployed, late, clock, spent>>

Performed(req) == obj' = Outcome(req).obj /\ Tick

Answered(s) ==
    /\ job[s].pc = "sent"
    /\ LET code == Outcome(job[s].req).code
       IN  Ends(s, ReplyTo(code, job[s].passes), IF code < 400 THEN "done" ELSE "none")
    /\ Performed(job[s].req)
    /\ UNCHANGED <<kind, deployed, late, spent>>

Mishap(what) ==
    /\ spent.fault + spent.outside < MaxMishaps
    /\ spent' = [spent EXCEPT ![what] = @ + 1]

\* 403, or 500: the read of an update handler passes neither.
Refuses(s) ==
    /\ Mishap("fault")
    /\ \/ job[s].pc = "reading" /\ Ends(s, 502, "none")
       \/ job[s].pc = "sent" /\ \E code \in {403, 500} :
                                    Ends(s, ReplyTo(code, job[s].passes), "none")
    /\ UNCHANGED <<kind, obj, deployed, late, clock>>

\* The request is carried out, but the connection breaks before the answer.
AnswerLost(s) ==
    /\ job[s].pc = "sent" /\ Writes(job[s].req)
    /\ Mishap("fault")
    /\ Performed(job[s].req)
    /\ Ends(s, 502, IF Outcome(job[s].req).code < 400 THEN "done" ELSE "none")
    /\ UNCHANGED <<kind, deployed, late>>

\* 15 seconds have passed: the request is dropped here, and may be on its way.
GivesUp(s) ==
    /\ job[s] # Idle
    /\ Ends(s, 502, "unknown")
    /\ \/ UNCHANGED late
       \/ /\ job[s].pc = "sent" /\ Writes(job[s].req)
          /\ Cardinality(late) < MaxLate
          /\ late' = late \cup {job[s].req}
    /\ UNCHANGED <<kind, obj, deployed, clock, spent>>

LatePerformed ==
    \E req \in late :
        /\ late' = late \ {req}
        /\ Performed(req)
        /\ answer' = NoAnswer
        /\ UNCHANGED <<kind, deployed, job, spent>>

-----------------------------------------------------------------------------
(* The operator of the kind, and changes made outside the dashboards. *)

Operates(new) ==
    /\ obj' = Committed(new)
    /\ Tick
    /\ answer' = NoAnswer
    /\ UNCHANGED <<kind, job, late, spent>>

AddFinalizer ==
    /\ Exists /\ ~obj.deleting /\ "finalizer" \notin obj.meta
    /\ Operates([obj EXCEPT !.meta = @ \cup {"finalizer"}])
    /\ UNCHANGED deployed

Provision ==
    /\ Exists /\ ~obj.deleting /\ "finalizer" \in obj.meta
    /\ deployed' = TRUE
    /\ answer' = NoAnswer
    /\ UNCHANGED <<kind, obj, job, late, clock, spent>>

ServeReconcileNow ==
    /\ Exists /\ "reconcileNow" \in obj.meta
    /\ Operates([obj EXCEPT !.meta = @ \ {"reconcileNow"}])
    /\ UNCHANGED deployed

Teardown ==
    /\ Exists /\ obj.deleting
    /\ deployed' = FALSE
    /\ answer' = NoAnswer
    /\ UNCHANGED <<kind, obj, job, late, clock, spent>>

RemoveFinalizer ==
    /\ Exists /\ obj.deleting /\ ~deployed
    /\ Operates([obj EXCEPT !.meta = @ \ {"finalizer"}])
    /\ UNCHANGED deployed

OutsideChange ==
    /\ Exists
    /\ Mishap("outside")
    /\ \E x \in Fields[kind] :
          /\ obj' = Committed([obj EXCEPT !.spec[x] = FieldValue(x, "v2")])
          /\ obj' # obj
    /\ Tick
    /\ answer' = NoAnswer
    /\ UNCHANGED <<kind, deployed, job, late>>

-----------------------------------------------------------------------------

Init ==
    /\ kind \in Kinds
    /\ obj \in {NoObject, Existing}
    /\ deployed = FALSE
    /\ job = [s \in Sessions |-> Idle]
    /\ answer = NoAnswer
    /\ late = {}
    /\ clock = 1
    /\ spent = [requests |-> 0, fault |-> 0, outside |-> 0]

TenantRequest(s) ==
    \/ tenantListEntities(s)
    \/ listTeams(s) \/ getTeam(s) \/ createTeam(s) \/ deleteTeam(s) \/ updateTeam(s)
    \/ listProjects(s) \/ getProject(s) \/ createProject(s) \/ deleteProject(s)
    \/ patchProject(s)
    \/ listAssignments(s) \/ getAssignment(s) \/ createAssignment(s)
    \/ deleteAssignment(s) \/ updateAssignment(s)
    \/ listPlatformOpenshifts(s) \/ getPlatformOpenshift(s) \/ createPlatformOpenshift(s)
    \/ deletePlatformOpenshift(s) \/ patchPlatformOpenshift(s)
    \/ listCloudOSOs(s) \/ getCloudOSO(s) \/ createCloudOSO(s) \/ deleteCloudOSO(s)
    \/ patchCloudOSO(s)
    \/ listCloudAWSs(s) \/ getCloudAWS(s) \/ createCloudAWS(s) \/ deleteCloudAWS(s)
    \/ patchCloudAWS(s)
    \/ listCloudVirts(s) \/ getCloudVirt(s) \/ createCloudVirt(s) \/ deleteCloudVirt(s)
    \/ patchCloudVirt(s)
    \/ listOpenStackMigrations(s) \/ getOpenStackMigration(s)
    \/ createOpenStackMigration(s) \/ deleteOpenStackMigration(s)
    \/ listVaults(s) \/ getVault(s) \/ createVault(s) \/ deleteVault(s)
    \/ listVaultKVs(s) \/ getVaultKV(s) \/ createVaultKV(s) \/ deleteVaultKV(s)
    \/ updateVaultKV(s)
    \/ listAAPOrgs(s) \/ getAAPOrg(s) \/ createAAPOrg(s) \/ deleteAAPOrg(s)
    \/ updateAAPOrg(s)
    \/ listQuayOrgs(s) \/ getQuayOrg(s) \/ createQuayOrg(s) \/ deleteQuayOrg(s)
    \/ updateQuayOrg(s)
    \/ listPersonas(s) \/ getPersona(s) \/ createPersona(s) \/ patchPersonaAnnotation(s)
    \/ listRbacs(s) \/ searchRbacs(s) \/ get(s) \/ create(s) \/ remove(s) \/ updateRbac(s)
    \/ patchAnnotation(s)

AdminRequest(s) ==
    \/ listEntities(s) \/ getEntity(s) \/ createEntity(s) \/ removeEntity(s)
    \/ listEntityRbacs(s) \/ createEntityRbac(s) \/ updateEntityRbac(s)
    \/ listEntityPersonas(s) \/ createEntityPersona(s)
    \/ adminPatchAnnotation(s)

Handling(s) == ReadAnswered(s) \/ Answered(s) \/ Refuses(s) \/ AnswerLost(s) \/ GivesUp(s)
Operator == AddFinalizer \/ Provision \/ ServeReconcileNow \/ Teardown \/ RemoveFinalizer

Next ==
    \/ \E s \in Sessions : TenantRequest(s) \/ AdminRequest(s) \/ Handling(s)
    \/ LatePerformed
    \/ Operator
    \/ OutsideChange

Spec == Init /\ [][Next]_vars

-----------------------------------------------------------------------------
(* Properties. *)

Specs == [Fields[kind] -> Values \cup PlatformTypes]
Objects == {NoObject} \cup [rv : 1..clock, meta : SUBSET Metadata, deleting : BOOLEAN,
                            spec : Specs]

IsRequest(r) ==
    /\ r.verb \in {"list", "get", "post", "delete", "put", "merge", "replace", "annotate"}
    /\ r.verb \in {"post", "put", "merge", "replace"} => r.spec \in Specs
    /\ r.verb = "put" => r.rv \in 0..clock /\ r.meta \subseteq Metadata
    /\ r.verb = "annotate" => r.patch \in AnnotationPatches

\* Type invariant: what is stored and sent has the fields of its kind, and no
\* request carries a resource version from the future.
TypeOK ==
    /\ kind \in Kinds
    /\ obj \in Objects
    /\ deployed \in BOOLEAN
    /\ \A s \in Sessions :
          \/ job[s] = Idle
          \/ job[s].pc = "reading" /\ job[s].form \in Specs
          \/ job[s].pc = "sent" /\ IsRequest(job[s].req)
    /\ \A r \in late : Writes(r) /\ IsRequest(r)
    /\ clock \in Nat \ {0}

PutKinds == DOMAIN UpdatedFields \ {"Assignment"}
DashboardStep == Exists /\ obj' # NoObject /\ spent'.outside = spent.outside

\* An edit through a dashboard touches the fields its handler is about and
\* nothing else: what a colleague, the operator or GitOps has put into the
\* other fields and into the metadata since the handler read the resource is
\* kept, also when the edit is carried out after it was given up
\* (updateTeam, updateRbac, updateVaultKV, updateAAPOrg, updateQuayOrg; the
\* metadata under every handler but updateAssignment, and of it the annotations
\* of a Persona, which patchPersonaAnnotation merges as it is told).
EditedMeta == IF kind = "Persona" THEN Annotations ELSE {"reconcileNow"}
EditsKeepTheRest ==
    [][DashboardStep =>
          /\ kind \in PutKinds =>
                \A x \in Fields[kind] \ UpdatedFields[kind] : obj'.spec[x] = obj.spec[x]
          /\ kind # "Assignment" => obj.meta \ EditedMeta \subseteq obj'.meta]_vars

\* What the operator has set up is never left behind by a resource that is
\* gone: no edit, however it meets a deletion, takes the finalizer away
\* (every handler but updateAssignment).
NothingLeftBehind == ~Exists => ~deployed
NoOrphans == kind # "Assignment" => NothingLeftBehind

\* An answer other than 502 tells what has become of the request: a success
\* means that the API server carried it out, a refusal or an exception that it
\* never will (the status mapping of every handler).
RepliesAreTrue ==
    /\ answer.code \in {200, 201} => answer.effect = "done"
    /\ answer.code \in {400, 403, 404, 409, 422, 500} => answer.effect = "none"
=============================================================================
