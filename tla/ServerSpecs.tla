----------------------------- MODULE ServerSpecs -----------------------------
(***************************************************************************)
(* What the handlers of the dashboards' servers (k8s-proxy.js under        *)
(* ui/packages/tenant-dashboard/server and ui/packages/admin-dashboard/    *)
(* server) make of a submitted spec: which submissions a create handler    *)
(* refuses with 400, which fields it keeps, drops or fills with a default, *)
(* and how an update handler combines the submission with the stored spec. *)
(*                                                                         *)
(* A spec is a record from the kind's fields to values.  A value is        *)
(*   "none"   the field is absent                                          *)
(*   "blank"  an empty text, an empty list, or every switch off            *)
(*   "bad"    of the wrong type or shape: not a list, not a valid name,    *)
(*            not one of the allowed words, a count that is a fraction     *)
(*   "space"  a text of white space only, of those that are required       *)
(*   "dotted" a name with a dot, which the API server takes and the        *)
(*            patterns of the handlers do not                              *)
(*   "odd"    a number or a text beyond its bound                          *)
(*   v1, v2   two different proper values.                                 *)
(***************************************************************************)
EXTENDS FiniteSets

Proper == {"v1", "v2"}
Values == Proper \cup {"none", "blank", "bad", "space", "dotted", "odd"}
PlatformTypes == {"aws", "hosted", "openstack"}

Fields == [
    Entity |-> {"description", "billingID", "websiteLink"},
    Team |-> {"features", "rbacConfig", "teamAdmin", "teamMemberRbac", "teamViewerRbac"},
    Project |-> {"description", "displayName", "rbacConfig", "projectAdmin"},
    Assignment |-> {"team", "projects", "openshift", "toolRbac"},
    PlatformOpenshift |-> {"type", "environment", "sizes", "toolRbac", "networking"},
    CloudOSO |-> {"cloudRef", "project", "baseDomain", "site", "vrf"},
    CloudAWS |-> {"cloudRef", "account", "baseDomain", "credentialsSecretRef",
                  "vaultPath", "landingzone"},
    CloudVirt |-> {"cloudRef", "baseDomain", "storageClass", "networkAttachment",
                   "vmNamespaceQuota"},
    OpenStackMigration |-> {"source", "vmName", "cloudoso", "providerNamespace"},
    Persona |-> {"rbac", "type"},
    Rbac |-> {"config", "description"},
    Vault |-> {"ha", "rbacConfig"},
    VaultKV |-> {"vault", "vaultAdminRbac", "vaultReaderRbac", "vaultOpsRbac",
                 "vaultDeveloperRbac"},
    AAPOrg |-> {"aapConfig", "aapAdminRbac", "aapJobExecutorRbac", "aapViewerRbac",
                "description"},
    QuayOrg |-> {"quayConfig", "quayAdminRbac", "quayCreatorRbac", "quayMemberRbac"}]

AllKinds == DOMAIN Fields

\* The result of a handler's validation: a refusal with 400, an exception
\* (trim of what is not a text), which is answered with 500, or the spec it sends.
Refused == [ok |-> FALSE, code |-> 400]
Throws == [ok |-> FALSE, code |-> 500]
Sends(spec) == [ok |-> TRUE, spec |-> spec]
SendsIf(condition, spec) == IF condition THEN Sends(spec) ELSE Refused

\* spec?.x ? { x: spec.x } : {}
Kept(v) == IF v = "blank" THEN "none" ELSE v
\* Array.isArray(x) && x.length ? ... : {}, and its kin for trimmed texts
KeptIfProper(v) == IF v \in Proper THEN v ELSE "none"
OrDefault(v, default) == IF v \in Proper THEN v ELSE default
Truthy(v) == v \in Values \ {"none", "blank"}

\* A reference to a CloudInfrastructure: absent, refused, or sanitized.
sanitizeCloudRef(v) == IF v \in Proper \cup {"none"} THEN v ELSE "bad"

\* A list of Rbac names: an absent list counts as an empty one.
ValidNameList(v) == v # "bad"
NameList(v) == IF v = "none" THEN "blank" ELSE v

-----------------------------------------------------------------------------
(* The create handlers. *)

\* Mutant: a team is created without the features it did not ask for.
TeamCreatedBare(f) == Sends([teamAdmin |-> KeptIfProper(f.teamAdmin)])

TeamCreated(f) ==
    Sends([features |-> OrDefault(f.features, "blank"),
           rbacConfig |-> Kept(f.rbacConfig),
           teamAdmin |-> KeptIfProper(f.teamAdmin),
           teamMemberRbac |-> "none",
           teamViewerRbac |-> "none"])

ProjectCreated(f) ==
    Sends([x \in Fields.Project |->
              IF x = "projectAdmin" THEN KeptIfProper(f[x]) ELSE Kept(f[x])])

AssignmentCreated(f) ==
    Sends([team |-> Kept(f.team),
           projects |-> KeptIfProper(f.projects),
           openshift |-> KeptIfProper(f.openshift),
           toolRbac |-> IF f.toolRbac = "bad" THEN "none" ELSE f.toolRbac])

\* The environment is looked up under the submitted type; counts below one and
\* flavors take defaults; a list of CIDRs that is not one is refused.
PlatformOpenshiftCreated(f) ==
    SendsIf(f.type \in PlatformTypes /\ f.environment \in Proper /\ f.networking # "bad",
            [type |-> f.type,
             environment |-> f.environment,
             sizes |-> IF f.sizes = "bad" THEN "bad" ELSE OrDefault(f.sizes, "v1"),
             toolRbac |-> KeptIfProper(f.toolRbac),
             networking |-> Kept(f.networking)])

CloudOSOCreated(f) ==
    SendsIf(\A x \in {"cloudRef", "project", "baseDomain"} : f[x] \in Proper,
            [cloudRef |-> sanitizeCloudRef(f.cloudRef),
             project |-> f.project,
             baseDomain |-> f.baseDomain,
             site |-> KeptIfProper(f.site),
             vrf |-> "none"])

\* One source of credentials is kept: the reference, else the secret, else Vault.
CloudAWSCreated(f) ==
    LET ref == sanitizeCloudRef(f.cloudRef)
        hasRef == ref \in Proper
        hasSecret == f.credentialsSecretRef \in Proper
        hasVault == f.vaultPath \in Proper
    IN  SendsIf(/\ ref # "bad"
                /\ Truthy(f.account) /\ Truthy(f.baseDomain)
                /\ hasRef \/ hasSecret \/ hasVault,
                [cloudRef |-> ref,
                 account |-> f.account,
                 baseDomain |-> f.baseDomain,
                 credentialsSecretRef |->
                     IF hasSecret /\ ~hasRef THEN f.credentialsSecretRef ELSE "none",
                 vaultPath |->
                     IF ~hasRef /\ ~hasSecret THEN f.vaultPath ELSE "none",
                 landingzone |-> Kept(f.landingzone)])

\* Mutant: the optional fields are forgotten.
CloudVirtCreatedBare(f) ==
    SendsIf(/\ sanitizeCloudRef(f.cloudRef) \in Proper
            /\ Truthy(f.baseDomain)
            /\ f.vmNamespaceQuota # "bad",
            [x \in Fields.CloudVirt |->
                IF x \in {"cloudRef", "baseDomain"} THEN f[x] ELSE "none"])

CloudVirtCreated(f) ==
    SendsIf(/\ sanitizeCloudRef(f.cloudRef) \in Proper
            /\ Truthy(f.baseDomain)
            /\ f.vmNamespaceQuota # "bad",
            [x \in Fields.CloudVirt |-> Kept(f[x])])

OpenStackMigrationCreated(f) ==
    IF \E x \in {"source", "vmName", "cloudoso"} : f[x] \notin Proper THEN Refused
    ELSE IF f.providerNamespace = "bad" THEN Throws
    ELSE Sends([f EXCEPT !.providerNamespace = OrDefault(@, "v1")])

PersonaCreated(f) == SendsIf(f.rbac \in Proper /\ f.type \in Proper, f)

RbacCreated(f) ==
    SendsIf(f.config \in Proper, [f EXCEPT !.description = KeptIfProper(@)])

\* ha is on unless it is switched off; the config goes through as it is.
VaultCreated(f) ==
    Sends([ha |-> IF f.ha = "blank" THEN "blank" ELSE "v1", rbacConfig |-> f.rbacConfig])

VaultKVCreated(f) ==
    Sends([vault |-> f.vault,
           vaultAdminRbac |-> NameList(f.vaultAdminRbac),
           vaultReaderRbac |-> NameList(f.vaultReaderRbac),
           vaultOpsRbac |-> "none",
           vaultDeveloperRbac |-> "none"])

AAPOrgCreated(f) ==
    SendsIf(/\ f.aapConfig \in Proper
            /\ ValidNameList(f.aapAdminRbac) /\ ValidNameList(f.aapJobExecutorRbac),
            [aapConfig |-> f.aapConfig,
             aapAdminRbac |-> NameList(f.aapAdminRbac),
             aapJobExecutorRbac |-> NameList(f.aapJobExecutorRbac),
             aapViewerRbac |-> "none",
             description |-> "none"])

QuayOrgCreated(f) ==
    LET lists == Fields.QuayOrg \ {"quayConfig"}
    IN  SendsIf(f.quayConfig \in Proper /\ \A x \in lists : ValidNameList(f[x]),
                [x \in Fields.QuayOrg |-> IF x \in lists THEN NameList(f[x]) ELSE f[x]])

(* The create handlers of the administrators' dashboard. *)

EntityCreated(f) ==
    SendsIf(f.description \in Proper /\ f.billingID \in Proper /\ f.websiteLink # "bad",
            [f EXCEPT !.websiteLink = Kept(@)])

EntityRbacCreated(f) ==
    IF f.config \notin Proper THEN Refused
    ELSE IF f.description = "bad" THEN Throws
    ELSE Sends([f EXCEPT !.description = Kept(@)])

EntityPersonaCreated(f) == SendsIf(f.rbac \in Proper /\ f.type \in Proper, f)

Created(kind, f) ==
    CASE kind = "Entity" -> EntityCreated(f)
      [] kind = "Team" -> TeamCreated(f)
      [] kind = "Project" -> ProjectCreated(f)
      [] kind = "Assignment" -> AssignmentCreated(f)
      [] kind = "PlatformOpenshift" -> PlatformOpenshiftCreated(f)
      [] kind = "CloudOSO" -> CloudOSOCreated(f)
      [] kind = "CloudAWS" -> CloudAWSCreated(f)
      [] kind = "CloudVirt" -> CloudVirtCreated(f)
      [] kind = "OpenStackMigration" -> OpenStackMigrationCreated(f)
      [] kind = "Persona" -> PersonaCreated(f)
      [] kind = "Rbac" -> RbacCreated(f)
      [] kind = "Vault" -> VaultCreated(f)
      [] kind = "VaultKV" -> VaultKVCreated(f)
      [] kind = "AAPOrg" -> AAPOrgCreated(f)
      [] kind = "QuayOrg" -> QuayOrgCreated(f)

-----------------------------------------------------------------------------
(* The update handlers: f is the submission, cur the spec just read. *)

TeamUpdated(f, cur) ==
    Sends([cur EXCEPT !.features = OrDefault(f.features, "blank"),
                      !.rbacConfig = IF Truthy(f.rbacConfig) THEN f.rbacConfig ELSE @,
                      !.teamAdmin = IF f.teamAdmin \in Proper \cup {"blank"}
                                    THEN f.teamAdmin ELSE @])

RbacUpdated(f, cur) ==
    Sends([cur EXCEPT !.config = OrDefault(f.config, @),
                      !.description = IF f.description \in {"none", "bad"} THEN @
                                      ELSE KeptIfProper(f.description)])

\* An empty list stands for the stored one: these lists are never emptied.
VaultKVUpdated(f, cur) ==
    SendsIf(ValidNameList(f.vaultAdminRbac) /\ ValidNameList(f.vaultReaderRbac),
            [cur EXCEPT !.vaultAdminRbac = OrDefault(f.vaultAdminRbac, NameList(@)),
                        !.vaultReaderRbac = OrDefault(f.vaultReaderRbac, NameList(@))])

AAPOrgUpdated(f, cur) ==
    SendsIf(ValidNameList(f.aapAdminRbac) /\ ValidNameList(f.aapJobExecutorRbac),
            [cur EXCEPT !.aapAdminRbac = NameList(f.aapAdminRbac),
                        !.aapJobExecutorRbac = NameList(f.aapJobExecutorRbac),
                        !.description = IF f.description \in {"none", "bad"} THEN @
                                        ELSE f.description])

QuayOrgUpdated(f, cur) ==
    LET lists == Fields.QuayOrg \ {"quayConfig"}
    IN  SendsIf(\A x \in lists : ValidNameList(f[x]),
                [x \in Fields.QuayOrg |-> IF x \in lists THEN NameList(f[x]) ELSE cur[x]])

\* The stored spec is not read, and toolRbac is not among the fields built.
AssignmentUpdated(f) ==
    Sends([team |-> Kept(f.team),
           projects |-> KeptIfProper(f.projects),
           openshift |-> KeptIfProper(f.openshift),
           toolRbac |-> "none"])

Updated(kind, f, cur) ==
    CASE kind = "Team" -> TeamUpdated(f, cur)
      [] kind = "Rbac" -> RbacUpdated(f, cur)
      [] kind = "VaultKV" -> VaultKVUpdated(f, cur)
      [] kind = "AAPOrg" -> AAPOrgUpdated(f, cur)
      [] kind = "QuayOrg" -> QuayOrgUpdated(f, cur)
      [] kind = "Assignment" -> AssignmentUpdated(f)

\* The fields an update handler may change, of the kinds that keep the rest.
UpdatedFields == [
    Entity |-> {"description", "billingID", "websiteLink"},
    Team |-> {"features", "rbacConfig", "teamAdmin"},
    Rbac |-> {"config", "description"},
    VaultKV |-> {"vaultAdminRbac", "vaultReaderRbac"},
    AAPOrg |-> {"aapAdminRbac", "aapJobExecutorRbac", "description"},
    QuayOrg |-> {"quayAdminRbac", "quayCreatorRbac", "quayMemberRbac"},
    Assignment |-> {"team", "projects", "openshift"}]

-----------------------------------------------------------------------------
(* The API server: it refuses what is of the wrong type, and applies patches. *)

Schema(spec) == \A x \in DOMAIN spec : spec[x] # "bad"

\* application/merge-patch+json of { spec }: absent fields stay.
Merged(f, cur) == [x \in DOMAIN cur |-> IF f[x] = "none" THEN cur[x] ELSE f[x]]

\* The one replacement that is validated: a VRF that is enabled needs its id.
CloudOSOPatch(f) == SendsIf(f.vrf # "bad", f)

\* The merge patch of an Rbac: the config is required, a description is trimmed.
EntityRbacPatch(f) ==
    IF f.config \notin Proper THEN Refused
    ELSE IF f.description = "bad" THEN Throws
    ELSE Sends(f)
=============================================================================
