----------------------------- MODULE CreateForms -----------------------------
(***************************************************************************)
(* The create form of the dashboards and console plugins                   *)
(* (ui/packages/shared/src/components/CreateResourceForm.tsx): the user    *)
(* fills it in, may pick another entity, while the lists its references    *)
(* are chosen from are still being fetched, and submits it, more than once *)
(* if he likes; a CloudAWS with access keys first gets a Secret.           *)
(*                                                                         *)
(* A reference stands for the entity whose namespace its list came from,   *)
(* since names of one entity mean something else, or nothing, in another.  *)
(* A form has at most two lists: "main", the one reference most forms are  *)
(* about, and "other", all further references, fetched likewise.  In style *)
(* "dashboard" a submission goes through the curated handlers of the       *)
(* tenant dashboard's server (ServerSpecs), in style "raw" straight to the *)
(* API server; the network and platform kinds (PlatformSpecs) go straight  *)
(* to the API server in either style.                                      *)
(*                                                                         *)
(* The values of texts are those of ServerSpecs; the references in the     *)
(* lists are proper names, but for those of the sites (cloudRef), which    *)
(* were created past the handlers.                                         *)
(***************************************************************************)
EXTENDS ServerSpecs, PlatformSpecs, Naturals

EveryKind == AllKinds \cup PlatformKinds
FieldsOf(k) == IF k \in PlatformKinds THEN PlatformFields[k] ELSE Fields[k]

CONSTANTS
    FormKinds,      \* the kinds to consider
    Styles,         \* {"dashboard", "raw"} or one of them
    Entities,       \* namespaces the user may pick
    MaxSubmits,     \* bound: submissions of one form
    MaxFailures     \* bound: lists, Secrets and creates that fail

ASSUME FormsAssumption ==
    /\ FormKinds \subseteq EveryKind /\ Styles \subseteq {"dashboard", "raw"}
    /\ Entities # {} /\ "none" \notin Entities
    /\ MaxSubmits \in Nat /\ MaxFailures \in Nat

VARIABLES
    formKind, style,
    formName,   \* the name that has been typed
    text,       \* what else has been typed and switched
    entity,     \* the namespace the resource is to be created in
    shown,      \* list -> the entity whose items it shows, "none" if it is empty
    loading,    \* the lists a fetch is under way for
    refs,       \* list -> the reference chosen from it, or "none"
    settled,    \* the references chosen by the user from an up-to-date list
    submits,    \* submission -> how far it is
    stored,     \* entity -> the resource of the form's name, or NoResource
    secrets,    \* the entities that have a Secret of the form's name
    result,     \* what the form says of the last submission that ended
    failures

createVars == <<formKind, style, formName, text, entity, shown, loading, refs, settled, submits,
          stored, secrets, result, failures>>
typedVars == <<formKind, style, formName, text>>
formVars == <<entity, shown, loading, refs, settled>>

ListNames == {"main", "other"}
NoResource == [spec |-> "none"]
Unsent == [step |-> "unsent"]
Ended == [step |-> "ended"]

-----------------------------------------------------------------------------
(* The inputs of each form, what it requires, and the spec it builds. *)

Texts == {"none", "v1"}
RequiredTexts == Texts \cup {"space"}
SiteNames == Texts \cup {"dotted"}

\* A "bad" name is one that the API server refuses as well.
FormNames == {"none", "bad", "dotted", "v1"}

\* The form shows an Entity picker: ENTITY_SCOPED_FORMS, and the Persona's own.
Switchable == {"Team", "Project", "Assignment", "PlatformOpenshift", "Persona"}

\* The forms that choose their main reference themselves, the first of the list.
Defaulted == {"Rbac", "Vault", "AAPOrg", "QuayOrg", "Assignment", "Persona",
              "VaultKV", "OpenStackMigration"}

\* The texts and switches of a form.
Inputs(k) ==
    CASE k = "Entity" -> [description : RequiredTexts, billingID : {"none", "bad", "v1"},
                               websiteLink : Texts]
      [] k = "Team" -> [features : {"blank", "v1"}, partial : BOOLEAN]
      [] k = "Project" -> [description : Texts, displayName : Texts]
      [] k = "PlatformOpenshift" ->
            [type : PlatformTypes, pickedFor : PlatformTypes, networking : Texts,
             sizes : {"bad", "odd", "v1"}]
      [] k = "CloudOSO" ->
            [cloudRef : SiteNames, project : RequiredTexts, baseDomain : RequiredTexts,
             site : Texts]
      [] k = "CloudAWS" ->
            [cloudRef : SiteNames, account : RequiredTexts, baseDomain : RequiredTexts,
             keys : BOOLEAN, vaultPath : RequiredTexts]
      [] k = "CloudVirt" ->
            [cloudRef : SiteNames, baseDomain : RequiredTexts, storageClass : Texts]
      [] k = "OpenStackMigration" -> [vmName : RequiredTexts]
      [] k = "Persona" -> [type : {"v1", "bad"}]
      [] k = "Rbac" -> [description : Texts]
      [] k = "Vault" -> [ha : {"blank", "v1"}]
      [] k \in PlatformKinds -> PlatformInputs(k)
      [] OTHER -> [nothing : {"none"}]

Ref(list) == IF refs[list] = "none" THEN "none" ELSE "v1"
RefList(list) == IF refs[list] = "none" THEN "blank" ELSE "v1"

EntitySpec == [x \in Fields.Entity |->
                  IF x = "description" /\ text[x] = "none" THEN "blank" ELSE text[x]]

\* Mutant: only the fields that have a value are sent.
TeamSpecAdminOnly == [features |-> text.features, teamAdmin |-> Ref("other")]

\* The three lists go in as a set, or none of them.
TeamSpec ==
    LET set == IF text.partial THEN "none" ELSE Ref("other")
    IN  [features |-> text.features, rbacConfig |-> "none",
         teamAdmin |-> set, teamMemberRbac |-> set, teamViewerRbac |-> set]

ProjectSpec ==
    [description |-> IF text.description = "none" THEN "blank" ELSE text.description,
     displayName |-> text.displayName, rbacConfig |-> "none", projectAdmin |-> "none"]

AssignmentSpec ==
    [team |-> Ref("main"), projects |-> RefList("other"), openshift |-> Ref("other"),
     toolRbac |-> Ref("other")]

\* Switching the type forgets platformEnv, not what was picked for another type.
Environment == IF text.pickedFor = text.type THEN Ref("main") ELSE "none"
PlatformOpenshiftSpec ==
    [type |-> text.type,
     environment |-> IF Environment = "none" THEN "blank" ELSE Environment,
     sizes |-> text.sizes, toolRbac |-> Ref("other"),
     networking |-> IF text.type = "aws" THEN "none" ELSE text.networking]

CloudOSOSpec ==
    [cloudRef |-> text.cloudRef, project |-> text.project,
     baseDomain |-> text.baseDomain, site |-> text.site, vrf |-> "none"]

CloudAWSSpec ==
    LET own == text.cloudRef = "none"
    IN  [cloudRef |-> text.cloudRef, account |-> text.account,
         baseDomain |-> text.baseDomain, landingzone |-> "v1",
         credentialsSecretRef |-> IF own /\ text.keys THEN "v1" ELSE "none",
         vaultPath |-> IF own /\ ~text.keys THEN text.vaultPath ELSE "none"]

CloudVirtSpec ==
    [cloudRef |-> text.cloudRef, baseDomain |-> text.baseDomain,
     storageClass |-> text.storageClass, networkAttachment |-> "none",
     vmNamespaceQuota |-> "none"]

OpenStackMigrationSpec ==
    [source |-> "v1", vmName |-> text.vmName, cloudoso |-> Ref("main"),
     providerNamespace |-> "v1"]

PersonaSpec == [rbac |-> Ref("main"), type |-> text.type]

RbacSpec ==
    [config |-> Ref("main"),
     description |-> IF text.description = "none" THEN "blank" ELSE text.description]

VaultSpec == [ha |-> text.ha, rbacConfig |-> Ref("main")]

VaultKVSpec == [x \in Fields.VaultKV |-> IF x = "vault" THEN Ref("main") ELSE RefList("other")]

AAPOrgSpec ==
    [x \in Fields.AAPOrg |-> CASE x = "aapConfig" -> Ref("main")
                               [] x = "description" -> "none"
                               [] OTHER -> RefList("other")]

QuayOrgSpec ==
    [x \in Fields.QuayOrg |-> IF x = "quayConfig" THEN Ref("main") ELSE RefList("other")]

buildSpec ==
    CASE formKind = "Entity" -> EntitySpec
      [] formKind = "Team" -> TeamSpec
      [] formKind = "Project" -> ProjectSpec
      [] formKind = "Assignment" -> AssignmentSpec
      [] formKind = "PlatformOpenshift" -> PlatformOpenshiftSpec
      [] formKind = "CloudOSO" -> CloudOSOSpec
      [] formKind = "CloudAWS" -> CloudAWSSpec
      [] formKind = "CloudVirt" -> CloudVirtSpec
      [] formKind = "OpenStackMigration" -> OpenStackMigrationSpec
      [] formKind = "Persona" -> PersonaSpec
      [] formKind = "Rbac" -> RbacSpec
      [] formKind = "Vault" -> VaultSpec
      [] formKind = "VaultKV" -> VaultKVSpec
      [] formKind = "AAPOrg" -> AAPOrgSpec
      [] formKind = "QuayOrg" -> QuayOrgSpec
      [] formKind \in PlatformKinds -> PlatformSpec(formKind, text, Ref("main"), Ref("other"))

Given(x) == text[x] # "none"

\* Mutant: where the credentials come from is left to the server.
CloudAWSCompleteUnchecked == Given("account") /\ Given("baseDomain")

CloudAWSComplete ==
    /\ Given("account") /\ Given("baseDomain")
    /\ Given("cloudRef") \/ text.keys \/ Given("vaultPath")

canSubmit ==
    /\ formName # "none"
    /\ formKind = "Entity" => Given("billingID")
    /\ formKind = "Team" => ~(text.partial /\ refs.other # "none")
    /\ formKind = "CloudOSO" => Given("cloudRef") /\ Given("project") /\ Given("baseDomain")
    /\ formKind = "CloudAWS" => CloudAWSComplete
    /\ formKind = "CloudVirt" => Given("cloudRef") /\ Given("baseDomain")
    /\ formKind = "OpenStackMigration" => Given("vmName")
    /\ formKind \in Defaulted \cup {"PlatformOpenshift"} => refs.main # "none"
    /\ formKind \in PlatformKinds =>
          PlatformComplete(formKind, text, refs.main, refs.other, shown.main # "none")

-----------------------------------------------------------------------------
(* The lists. *)

\* Items without metadata are dropped, and the handlers of the three lists of
\* configurations answer { name, ready, ... }.
normalizeListPayload(items, metadata) == IF metadata THEN items ELSE "none"
listRbacConfigs(e) == normalizeListPayload(e, FALSE)
listAAPConfigs(e) == normalizeListPayload(e, FALSE)
listQuayConfigs(e) == normalizeListPayload(e, FALSE)

\* What the list of an entity shows when it has come.
Items(list, e) ==
    CASE style = "raw" \/ list = "other" -> e
      [] formKind \in {"Rbac", "Vault"} -> listRbacConfigs(e)
      [] formKind = "AAPOrg" -> listAAPConfigs(e)
      [] formKind = "QuayOrg" -> listQuayConfigs(e)
      [] OTHER -> normalizeListPayload(e, TRUE)

\* The effect that runs after every change fills in an empty main reference
\* from the items its list shows at that moment.
WithDefault(r, lists) ==
    IF formKind \in Defaulted /\ r.main = "none" THEN [r EXCEPT !.main = lists.main] ELSE r

Fails == failures < MaxFailures /\ failures' = failures + 1

-----------------------------------------------------------------------------

FormInit ==
    /\ formKind \in FormKinds
    /\ style \in Styles
    /\ formKind \in PlatformKinds => style = "raw"
    /\ formName \in FormNames
    /\ text \in Inputs(formKind)
    /\ entity \in Entities
    /\ shown = [l \in ListNames |-> "none"]
    /\ loading = ListNames
    /\ refs = [l \in ListNames |-> "none"]
    /\ settled = {}
    /\ submits = [i \in 1..MaxSubmits |-> Unsent]
    /\ stored = [e \in Entities |-> NoResource]
    /\ secrets = {}
    /\ result = "none"
    /\ failures = 0

\* Mutant: only the reference most forms are about is cleared.
ClearedMain == [refs EXCEPT !.main = "none"]

Cleared == [l \in ListNames |-> "none"]

\* Another entity: every reference is cleared and every list fetched again.
\* A list keeps its items until the new ones come.
onEntityPicked(e) ==
    /\ formKind \in Switchable
    /\ e # entity
    /\ entity' = e
    /\ loading' = ListNames
    /\ refs' = WithDefault(Cleared, shown)
    /\ settled' = {l \in settled : Cleared[l] # "none"}
    /\ UNCHANGED <<typedVars, shown, submits, stored, secrets, result, failures>>

\* Only the last fetch of a list is listened to: it is the current entity's.
ListArrives(l) ==
    /\ l \in loading
    /\ loading' = loading \ {l}
    /\ shown' = [shown EXCEPT ![l] = Items(l, entity)]
    /\ refs' = WithDefault(refs, shown')
    /\ UNCHANGED <<typedVars, entity, settled, submits, stored, secrets,
                   result, failures>>

\* The items of a list that failed stay those it had.
ListFails(l) ==
    /\ l \in loading
    /\ Fails
    /\ loading' = loading \ {l}
    /\ UNCHANGED <<typedVars, entity, shown, refs, settled, submits, stored,
                   secrets, result>>

Choose(l) ==
    /\ shown[l] # "none"
    /\ refs' = [refs EXCEPT ![l] = shown[l]]
    /\ settled' = IF shown[l] = entity THEN settled \cup {l} ELSE settled \ {l}
    /\ UNCHANGED <<typedVars, entity, shown, loading, submits, stored, secrets,
                   result, failures>>

-----------------------------------------------------------------------------
(* Submission. *)

NeedsSecret == formKind = "CloudAWS" /\ text.cloudRef = "none" /\ text.keys

\* Mutant: the resource is created without waiting for its Secret.
FirstStepCreate == "create"

FirstStep == IF NeedsSecret THEN "secret" ELSE "create"

\* The button stays enabled while a submission is under way.
handleSubmit(i) ==
    /\ submits[i] = Unsent
    /\ \A j \in 1..(i - 1) : submits[j] # Unsent
    /\ canSubmit
    /\ submits' = [submits EXCEPT ![i] =
           [step |-> FirstStep, ns |-> entity, spec |-> buildSpec,
            from |-> {refs[l] : l \in ListNames} \ {"none"}]]
    /\ result' = "none"
    /\ UNCHANGED <<typedVars, formVars, stored, secrets, failures>>

Finish(i, said) ==
    /\ submits' = [submits EXCEPT ![i] = Ended]
    /\ result' = said

createNamespaceSecret(i) ==
    /\ submits[i].step = "secret"
    /\ \/ formName = "bad" /\ Finish(i, "refused") /\ UNCHANGED secrets
       \/ /\ formName # "bad" /\ submits[i].ns \in secrets
          /\ Finish(i, "exists")
          /\ UNCHANGED secrets
       \/ /\ formName # "bad" /\ submits[i].ns \notin secrets
          /\ secrets' = secrets \cup {submits[i].ns}
          /\ submits' = [submits EXCEPT ![i].step = "create"]
          /\ UNCHANGED result
    /\ UNCHANGED <<typedVars, formVars, stored, failures>>

\* What the server makes of the spec, and of that the API server.
ToApiServer(spec) ==
    IF style = "raw" THEN SendsIf(formName # "bad", spec)
    ELSE IF formName # "v1" THEN Refused ELSE Created(formKind, spec)

Accepted(spec) ==
    LET sent == ToApiServer(spec)
        valid(s) == IF formKind \in PlatformKinds THEN PlatformSchema(formKind, s) ELSE Schema(s)
    IN  IF sent.ok THEN SendsIf(valid(sent.spec), sent.spec) ELSE sent

createDashboardResource(i) ==
    /\ submits[i].step = "create"
    /\ LET s == submits[i]
           c == Accepted(s.spec)
       IN  \/ ~c.ok /\ Finish(i, "refused") /\ UNCHANGED stored
           \/ c.ok /\ stored[s.ns] # NoResource /\ Finish(i, "exists") /\ UNCHANGED stored
           \/ /\ c.ok /\ stored[s.ns] = NoResource
              /\ stored' = [stored EXCEPT ![s.ns] =
                               [spec |-> c.spec, asked |-> s.spec, from |-> s.from]]
              /\ Finish(i, "created")
    /\ UNCHANGED <<typedVars, formVars, secrets, failures>>

\* The Secret or the resource is refused by the API server, or it fails.
SubmitFails(i) ==
    /\ submits[i].step \in {"secret", "create"}
    /\ Fails
    /\ Finish(i, "failed")
    /\ UNCHANGED <<typedVars, formVars, stored, secrets>>

FormNext ==
    \/ \E e \in Entities : onEntityPicked(e)
    \/ \E l \in ListNames : ListArrives(l) \/ ListFails(l) \/ Choose(l)
    \/ \E i \in 1..MaxSubmits :
          \/ handleSubmit(i)
          \/ createNamespaceSecret(i)
          \/ createDashboardResource(i)
          \/ SubmitFails(i)

FormSpec == FormInit /\ [][FormNext]_createVars

-----------------------------------------------------------------------------
(* Properties. *)

\* Type invariant: a form builds all the fields of its kind, and what is
\* stored has them too.
FormTypeOK ==
    /\ formName \in FormNames /\ text \in Inputs(formKind)
    /\ entity \in Entities /\ secrets \subseteq Entities
    /\ shown \in [ListNames -> Entities \cup {"none"}]
    /\ refs \in [ListNames -> Entities \cup {"none"}]
    /\ settled \subseteq ListNames /\ loading \subseteq ListNames
    /\ \A i \in 1..MaxSubmits :
          submits[i].step \in {"secret", "create"} => DOMAIN submits[i].spec = FieldsOf(formKind)
    /\ \A e \in Entities : stored[e] # NoResource => DOMAIN stored[e].spec = FieldsOf(formKind)

\* A reference the user has chosen from an up-to-date list belongs to the
\* entity the resource is created for, however often he changes his mind
\* about the entity (onEntityPicked clears all that the old one has).
ChoicesBelongToEntity == \A l \in settled : refs[l] = entity

\* What the button does not check, of what the handlers ask for ...
UncheckedByHandler ==
    \/ formKind = "Entity" /\ text.description \in {"none", "space"}
    \/ formKind = "PlatformOpenshift" /\ text.pickedFor # text.type
    \/ formKind = "CloudOSO" /\ "space" \in {text.project, text.baseDomain}
    \/ formKind \in {"CloudOSO", "CloudAWS", "CloudVirt"} /\ text.cloudRef = "dotted"
    \/ formKind = "CloudAWS" /\ CloudAWSSpec.vaultPath = "space"
    \/ formKind = "OpenStackMigration" /\ text.vmName = "space"

\* ... and of what the rules of the API server do.
UncheckedByRules ==
    \/ formKind = "Entity" /\ text.billingID = "bad"
    \/ formKind = "Persona" /\ text.type = "bad"
    \/ formKind = "PlatformOpenshift" /\ text.sizes = "bad"
    \/ formKind \in PlatformKinds /\ UncheckedByButton(formKind, text)

Unchecked ==
    \/ formName = "bad" \/ UncheckedByRules
    \/ style = "dashboard" /\ (formName = "dotted" \/ UncheckedByHandler)

\* What the button lets through is refused by the server or the API server
\* exactly for what Unchecked names: a name they do not take; a description, a
\* project, a domain, a VM or a Vault path of spaces; a billing ID of the wrong
\* form; a Persona's CloudVirt roles; an environment picked for another type; a
\* size that is a fraction; the lengths, bounds and addresses of the platform
\* kinds.  Whatever was typed for a choice taken back does not matter.
SubmittedIsValid ==
    /\ result = "refused" => Unchecked
    /\ result = "created" => ~Unchecked

\* The server stores what the form asked for, an empty value counting as an
\* absent one: no field gets lost on the way, but the RBAC lists that the
\* handlers of Team, VaultKV and AAPOrg do not know, and a PlatformOpenshift's
\* sizes below one, for which its handler puts the default.
Forgotten == [Team |-> {"teamMemberRbac", "teamViewerRbac"},
              VaultKV |-> {"vaultOpsRbac", "vaultDeveloperRbac"},
              AAPOrg |-> {"aapViewerRbac"}]
Asked(v) == IF v = "blank" THEN "none" ELSE v
AskedIsStored ==
    \A e \in Entities : stored[e] # NoResource =>
        \A x \in FieldsOf(formKind) :
            \/ Asked(stored[e].spec[x]) = Asked(stored[e].asked[x])
            \/ formKind \in DOMAIN Forgotten /\ x \in Forgotten[formKind]
            \/ formKind = "PlatformOpenshift" /\ x = "sizes" /\ text.sizes = "odd"

\* A CloudAWS that names a Secret is never stored without it, whichever of
\* the two calls of a submission fails (handleSubmit).
SecretComesFirst ==
    \A e \in Entities :
        stored[e] # NoResource /\ formKind = "CloudAWS" =>
            (stored[e].spec.credentialsSecretRef = "v1" => e \in secrets)

\* "Picking a different tenant invalidates every namespace-scoped reference
\* below" (CreateResourceForm.tsx): what is created for an entity refers to
\* that entity's resources only.
ReferencesFollowEntity ==
    \A e \in Entities : stored[e] # NoResource => stored[e].from \subseteq {e}
=============================================================================
