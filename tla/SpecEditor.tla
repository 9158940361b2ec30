----------------------------- MODULE SpecEditor -----------------------------
(***************************************************************************)
(* The editor of a resource's spec on its detail page (GenericSpecEditor   *)
(* and specFieldMeta under ui/packages/shared/src/forms): the fields it    *)
(* shows and lets one change, what an entry leaves in the draft, and what  *)
(* the save makes of the stored spec through the server's update handler.  *)
(*                                                                         *)
(* A draft's values are those of a spec (ServerSpecs) and "null".  Fields  *)
(* are grouped as in ServerSpecs: a group has the widgets of its fields.   *)
(***************************************************************************)
EXTENDS ServerSpecs

DraftValues == Values \cup {"null"} \cup PlatformTypes

-----------------------------------------------------------------------------
(* KIND_SPEC_META: the widgets of the fields that can be changed. *)

TenancyEditor == [
    Team |-> [features |-> {"boolean"}],
    Project |-> [displayName |-> {"text"}, description |-> {"text"}],
    Assignment |-> [projects |-> {"list"}, openshift |-> {"text"}, toolRbac |-> {"text"}]]

\* clusterViewerRbac goes with toolRbac.
PlatformEditor == [
    PlatformOpenshift |-> [sizes |-> {"number", "text", "omitted", "select"},
                           networking |-> {"list", "boolean"},
                           toolRbac |-> {"list"}]]

CloudEditor == [
    CloudOSO |-> [cloudRef |-> {"ref"}, project |-> {"text"}, baseDomain |-> {"text"},
                  site |-> {"text"}],
    CloudAWS |-> [cloudRef |-> {"ref"}, account |-> {"text"}, vaultPath |-> {"text"},
                  baseDomain |-> {"text"}, landingzone |-> {"text"}],
    CloudVirt |-> [cloudRef |-> {"ref"}, baseDomain |-> {"text"}, storageClass |-> {"text"},
                   networkAttachment |-> {"text"}, vmNamespaceQuota |-> {"json"}]]

AccessEditor == [Rbac |-> [description |-> {"text"}]]

ServiceEditor == [
    Vault |-> [ha |-> {"boolean"}],
    VaultKV |-> [vaultAdminRbac |-> {"list"}, vaultReaderRbac |-> {"list"},
                 vaultOpsRbac |-> {"list"}, vaultDeveloperRbac |-> {"list"}],
    AAPOrg |-> [aapAdminRbac |-> {"list"}, aapJobExecutorRbac |-> {"list"},
                aapViewerRbac |-> {"list"}],
    QuayOrg |-> [quayAdminRbac |-> {"list"}, quayCreatorRbac |-> {"list"},
                 quayMemberRbac |-> {"list"}]]

Editable(kind) ==
    CASE kind \in DOMAIN TenancyEditor -> TenancyEditor[kind]
      [] kind \in DOMAIN PlatformEditor -> PlatformEditor[kind]
      [] kind \in DOMAIN CloudEditor -> CloudEditor[kind]
      [] kind \in DOMAIN AccessEditor -> AccessEditor[kind]
      [] kind \in DOMAIN ServiceEditor -> ServiceEditor[kind]

EditorKinds == UNION {DOMAIN TenancyEditor, DOMAIN PlatformEditor, DOMAIN CloudEditor,
                      DOMAIN AccessEditor, DOMAIN ServiceEditor}

HasValue(v) == v \notin {"none", "null", "blank"}

\* visibleWhen: the Vault path of a CloudAWS shows while it has no cloudRef.
\* (The sections of the other kinds depend on a field that never changes.)
isSpecFieldVisible(kind, x, draft) ==
    kind = "CloudAWS" /\ x = "vaultPath" => ~HasValue(draft.cloudRef)

\* The fields of a draft one may change.
Open(kind, draft) == {x \in DOMAIN Editable(kind) : isSpecFieldVisible(kind, x, draft)}

-----------------------------------------------------------------------------
(* What the widgets put into the draft when they are filled in or emptied. *)

TextEntry == {"v1", "v2", "blank"}
OmittedEntry == {"v1", "v2", "null"}
SwitchEntry == {"v1", "blank"}
SelectEntry == {"v1", "v2"}
JsonEntry == {"v1", "v2", "none"}
NumberEntry == {"v1", "v2", "none"}
ListEntry == {"v1", "v2", "blank"}
RefEntry == {"v1", "v2", "null"}

Entry(widget) ==
    CASE widget = "text" -> TextEntry
      [] widget = "omitted" -> OmittedEntry
      [] widget = "boolean" -> SwitchEntry
      [] widget = "select" -> SelectEntry
      [] widget = "json" -> JsonEntry
      [] widget = "number" -> NumberEntry
      [] widget = "list" -> ListEntry
      [] widget = "ref" -> RefEntry

Entries(kind, x) == UNION {Entry(w) : w \in Editable(kind)[x]}

setField(draft, x, v) == [draft EXCEPT ![x] = v]

-----------------------------------------------------------------------------
(* updateDashboardResource: the whole draft goes to the kind's route. *)

\* UPDATE_METHOD, and what the handler behind the route does with it.  A
\* Vault has no such route.
UPDATE_METHOD(kind) ==
    CASE kind \in {"Project", "PlatformOpenshift"} -> "merge"
      [] kind \in {"CloudOSO", "CloudAWS", "CloudVirt"} -> "replace"
      [] kind = "Vault" -> "none"
      [] OTHER -> "put"

\* A null removes the key, in a merge and in a replaced spec alike.
Pruned(spec) == [x \in DOMAIN spec |-> IF spec[x] = "null" THEN "none" ELSE spec[x]]

\* A merge patch has no word for a key that is not there.
MergedDraft(draft, cur) ==
    [x \in DOMAIN cur |-> IF draft[x] = "none" THEN cur[x] ELSE Pruned(draft)[x]]

SavedAs(kind, draft, cur) ==
    CASE UPDATE_METHOD(kind) = "merge" -> Sends(MergedDraft(draft, cur))
      [] UPDATE_METHOD(kind) = "replace" -> Sends(Pruned(draft))
      [] UPDATE_METHOD(kind) = "put" -> Updated(kind, draft, cur)
      [] UPDATE_METHOD(kind) = "none" -> Refused

\* Both mean that the field says nothing.
Same(v, w) == v = w \/ {v, w} \subseteq {"none", "null", "blank"}

\* The entries that a save cannot make take effect: a number or a JSON value
\* that is emptied is not in the patch, and the handler of VaultKV takes an
\* empty list for none.
CannotEmpty(kind) ==
    CASE kind = "PlatformOpenshift" -> {"sizes"}
      [] kind = "VaultKV" -> {"vaultAdminRbac", "vaultReaderRbac"}
      [] OTHER -> {}

\* The lists that the editor offers and the kind's handler does not know.
Ignored(kind) ==
    CASE kind = "VaultKV" -> {"vaultOpsRbac", "vaultDeveloperRbac"}
      [] kind = "AAPOrg" -> {"aapViewerRbac"}
      [] kind = "Assignment" -> {"toolRbac"}
      [] OTHER -> {}
=============================================================================
