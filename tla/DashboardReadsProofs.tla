------------------------ MODULE DashboardReadsProofs ------------------------
(***************************************************************************)
(* What the dashboards read and show, for every bound.                     *)
(*                                                                         *)
(* The resource pages, for every set of kinds and of namespaces: the types *)
(* of the pages (TypeCorrect), that a settled page is fresh                *)
(* (SettledPagesAreFresh), that the entity picked stays (PicksStay), and   *)
(* what a save does to the fields that were edited and to the others       *)
(* (EditsTakeEffect, TheRestStays).  None of these is inductive.  A page   *)
(* is fresh because the one fetch that counts is of the namespace shown    *)
(* and of the time the page last asked (Counts).  A save keeps what was    *)
(* not edited because the draft copies the item shown outside the fields   *)
(* touched (CopiesRest), from the answer that brings the item to the       *)
(* request under way (Holds), and because each update handler keeps such a *)
(* field (SavesField).                                                     *)
(*                                                                         *)
(* The overview pages, for every finite catalogue of resources: the types  *)
(* of a load (OverviewTypeCorrect), that the graph drawn is faithful       *)
(* (GraphFaithful) and loses nothing (NothingLost), that the two network   *)
(* views agree (ViewsAlwaysAgree), and that the platform's lists may fail  *)
(* without hiding a tenant's networks (PlatformListsOptional).  The        *)
(* invariant (OverviewInv) says that a page only ever holds resources of   *)
(* the catalogue; the rest holds of any such set, however it was put       *)
(* together: what an edge may connect (Upstream, Ownership), and that the  *)
(* layers are the kinds' own, in order, each node once (LayersAre).        *)
(***************************************************************************)
EXTENDS ResourcePages, Overview, FiniteSetTheorems, TLAPS

-----------------------------------------------------------------------------
(* What a save makes of a draft *)

\* What the editor and the update handlers leave in a spec, and in a draft: only
\* the kinds whose spec is merged or replaced have entries that put a null.
StoredValues == {"v1", "v2", "none", "blank"}
DraftOnly(k) == IF UPDATE_METHOD(k) = "put" THEN {} ELSE {"null"}
Specs(k) == [Fields[k] -> StoredValues]
Drafts(k) == [Fields[k] -> StoredValues \cup DraftOnly(k)]

\* The update handlers that read first, field by field.
LEMMA TeamByField ==
    ASSUME NEW f \in Specs("Team"), NEW cur \in Specs("Team")
    PROVE  Updated("Team", f, cur) = Sends([x \in Fields["Team"] |->
               CASE x = "features" -> OrDefault(f.features, "blank")
                 [] x = "rbacConfig" -> IF Truthy(f.rbacConfig) THEN f.rbacConfig
                                        ELSE cur.rbacConfig
                 [] x = "teamAdmin" -> IF f.teamAdmin \in Proper \cup {"blank"}
                                       THEN f.teamAdmin ELSE cur.teamAdmin
                 [] OTHER -> cur[x]])
BY DEF Specs, Fields, Updated, TeamUpdated, Sends

LEMMA RbacByField ==
    ASSUME NEW f \in Specs("Rbac"), NEW cur \in Specs("Rbac")
    PROVE  Updated("Rbac", f, cur) = Sends([x \in Fields["Rbac"] |->
               CASE x = "config" -> OrDefault(f.config, cur.config)
                 [] OTHER -> IF f.description \in {"none", "bad"} THEN cur.description
                             ELSE KeptIfProper(f.description)])
BY DEF Specs, Fields, Updated, RbacUpdated, Sends

LEMMA VaultKVByField ==
    ASSUME NEW f \in Specs("VaultKV"), NEW cur \in Specs("VaultKV")
    PROVE  Updated("VaultKV", f, cur) = Sends([x \in Fields["VaultKV"] |->
               CASE x = "vaultAdminRbac" ->
                        OrDefault(f.vaultAdminRbac, NameList(cur.vaultAdminRbac))
                 [] x = "vaultReaderRbac" ->
                        OrDefault(f.vaultReaderRbac, NameList(cur.vaultReaderRbac))
                 [] OTHER -> cur[x]])
BY DEF Specs, StoredValues, Fields, Updated, VaultKVUpdated, SendsIf, Sends, ValidNameList

LEMMA AAPOrgByField ==
    ASSUME NEW f \in Specs("AAPOrg"), NEW cur \in Specs("AAPOrg")
    PROVE  Updated("AAPOrg", f, cur) = Sends([x \in Fields["AAPOrg"] |->
               CASE x = "aapAdminRbac" -> NameList(f.aapAdminRbac)
                 [] x = "aapJobExecutorRbac" -> NameList(f.aapJobExecutorRbac)
                 [] x = "description" -> IF f.description \in {"none", "bad"}
                                         THEN cur.description ELSE f.description
                 [] OTHER -> cur[x]])
BY DEF Specs, StoredValues, Fields, Updated, AAPOrgUpdated, SendsIf, Sends, ValidNameList

\* The kinds of the editor, by what their route does with a draft.
MergeKinds == {"Project", "PlatformOpenshift"}
ReplaceKinds == {"CloudOSO", "CloudAWS", "CloudVirt"}
PutKinds == {"Team", "Assignment", "Rbac", "VaultKV", "AAPOrg", "QuayOrg"}

LEMMA KindsByMethod ==
    /\ EditorKinds = MergeKinds \cup ReplaceKinds \cup PutKinds \cup {"Vault"}
    /\ \A k \in MergeKinds : UPDATE_METHOD(k) = "merge"
    /\ \A k \in ReplaceKinds : UPDATE_METHOD(k) = "replace"
    /\ \A k \in PutKinds : UPDATE_METHOD(k) = "put"
    /\ UPDATE_METHOD("Vault") = "none"
BY DEF EditorKinds, MergeKinds, ReplaceKinds, PutKinds, UPDATE_METHOD, TenancyEditor,
       PlatformEditor, CloudEditor, AccessEditor, ServiceEditor

\* The widgets, by what emptying one leaves: an empty value, a null or no key.
EmptyingWidgets == {"text", "boolean", "list", "select"}
NullingWidgets == {"omitted", "ref"}
DroppingWidgets == {"number", "json"}

LEMMA EntryPerWidget ==
    /\ \A w \in EmptyingWidgets : Entry(w) \subseteq {"v1", "v2", "blank"}
    /\ \A w \in NullingWidgets : Entry(w) \subseteq {"v1", "v2", "null"}
    /\ \A w \in DroppingWidgets : Entry(w) \subseteq {"v1", "v2", "none"}
BY DEF EmptyingWidgets, NullingWidgets, DroppingWidgets, Entry, TextEntry, OmittedEntry,
       SwitchEntry, SelectEntry, JsonEntry, NumberEntry, ListEntry, RefEntry

LEMMA EditorTables ==
    /\ DOMAIN TenancyEditor = {"Team", "Project", "Assignment"}
    /\ DOMAIN PlatformEditor = {"PlatformOpenshift"}
    /\ DOMAIN CloudEditor = {"CloudOSO", "CloudAWS", "CloudVirt"}
    /\ DOMAIN AccessEditor = {"Rbac"}
    /\ DOMAIN ServiceEditor = {"Vault", "VaultKV", "AAPOrg", "QuayOrg"}
BY DEF TenancyEditor, PlatformEditor, CloudEditor, AccessEditor, ServiceEditor

\* Only the numbers of a merged kind drop a key, and the editor of a kind that is
\* put has no widget but those that leave an empty value.
LEMMA WidgetsPerKind ==
    ASSUME NEW k \in EditorKinds, NEW x \in DOMAIN Editable(k)
    PROVE  /\ x \in Fields[k]
           /\ Editable(k)[x] \subseteq EmptyingWidgets \cup NullingWidgets \cup DroppingWidgets
           /\ k \in MergeKinds /\ x \notin CannotEmpty(k) =>
                 Editable(k)[x] \subseteq EmptyingWidgets
           /\ k \in PutKinds \cup {"Vault"} => Editable(k)[x] \subseteq EmptyingWidgets
<1> USE DEF Fields, MergeKinds, PutKinds, CannotEmpty, EmptyingWidgets, NullingWidgets,
            DroppingWidgets
<1>1. CASE k \in DOMAIN TenancyEditor
    <2>1. Editable(k) = TenancyEditor[k]
        BY <1>1, EditorTables DEF Editable
    <2>2. CASE k = "Team"
        BY <2>1, <2>2 DEF TenancyEditor
    <2>3. CASE k = "Project"
        BY <2>1, <2>3 DEF TenancyEditor
    <2>4. CASE k = "Assignment"
        BY <2>1, <2>4 DEF TenancyEditor
    <2> QED
        BY <1>1, <2>2, <2>3, <2>4, EditorTables
<1>2. CASE k \in DOMAIN PlatformEditor
    <2>1. Editable(k) = PlatformEditor[k] /\ k = "PlatformOpenshift"
        BY <1>2, EditorTables DEF Editable
    <2> QED
        BY <2>1 DEF PlatformEditor
<1>3. CASE k \in DOMAIN CloudEditor
    <2>1. Editable(k) = CloudEditor[k]
        BY <1>3, EditorTables DEF Editable
    <2>2. CASE k = "CloudOSO"
        BY <2>1, <2>2 DEF CloudEditor
    <2>3. CASE k = "CloudAWS"
        BY <2>1, <2>3 DEF CloudEditor
    <2>4. CASE k = "CloudVirt"
        BY <2>1, <2>4 DEF CloudEditor
    <2> QED
        BY <1>3, <2>2, <2>3, <2>4, EditorTables
<1>4. CASE k \in DOMAIN AccessEditor
    <2>1. Editable(k) = AccessEditor[k] /\ k = "Rbac"
        BY <1>4, EditorTables DEF Editable
    <2> QED
        BY <2>1 DEF AccessEditor
<1>5. CASE k \in DOMAIN ServiceEditor
    <2>1. Editable(k) = ServiceEditor[k]
        BY <1>5, EditorTables DEF Editable
    <2>2. CASE k = "Vault"
        BY <2>1, <2>2 DEF ServiceEditor
    <2>3. CASE k = "VaultKV"
        BY <2>1, <2>3 DEF ServiceEditor
    <2>4. CASE k = "AAPOrg"
        BY <2>1, <2>4 DEF ServiceEditor
    <2>5. CASE k = "QuayOrg"
        BY <2>1, <2>5 DEF ServiceEditor
    <2> QED
        BY <1>5, <2>2, <2>3, <2>4, <2>5, EditorTables
<1> QED
    BY <1>1, <1>2, <1>3, <1>4, <1>5 DEF EditorKinds

\* What the widgets put into a draft are values of a draft of the kind.
LEMMA EntriesPerKind ==
    ASSUME NEW k \in EditorKinds, NEW x \in DOMAIN Editable(k)
    PROVE  /\ x \in Fields[k]
           /\ Entries(k, x) \subseteq StoredValues \cup DraftOnly(k)
           /\ k \in MergeKinds /\ x \notin CannotEmpty(k) =>
                 Entries(k, x) \subseteq {"v1", "v2", "blank", "null"}
           /\ k \in PutKinds => Entries(k, x) \subseteq {"v1", "v2", "blank"}
<1>1. CASE k \in PutKinds \cup {"Vault"}
    BY <1>1, WidgetsPerKind, EntryPerWidget, KindsByMethod
       DEF Entries, DraftOnly, StoredValues, MergeKinds, PutKinds
<1>2. CASE k \notin PutKinds \cup {"Vault"}
    <2>1. DraftOnly(k) = {"null"} /\ k \notin PutKinds
        BY <1>2, KindsByMethod DEF DraftOnly
    <2>2. \A w \in Editable(k)[x] : Entry(w) \subseteq StoredValues \cup {"null"}
        BY WidgetsPerKind, EntryPerWidget DEF StoredValues
    <2>3. k \in MergeKinds /\ x \notin CannotEmpty(k) =>
              \A w \in Editable(k)[x] : Entry(w) \subseteq {"v1", "v2", "blank", "null"}
        BY WidgetsPerKind, EntryPerWidget
    <2> QED
        BY <2>1, <2>2, <2>3, WidgetsPerKind DEF Entries
<1> QED
    BY <1>1, <1>2

\* The fields that the editor offers of the kinds that are put.
LEMMA OfferedFields ==
    /\ DOMAIN Editable("Team") = {"features"}
    /\ DOMAIN Editable("Assignment") = {"projects", "openshift", "toolRbac"}
    /\ DOMAIN Editable("Rbac") = {"description"}
    /\ DOMAIN Editable("VaultKV") = {"vaultAdminRbac", "vaultReaderRbac", "vaultOpsRbac",
                                       "vaultDeveloperRbac"}
    /\ DOMAIN Editable("AAPOrg") = {"aapAdminRbac", "aapJobExecutorRbac", "aapViewerRbac"}
    /\ DOMAIN Editable("QuayOrg") = {"quayAdminRbac", "quayCreatorRbac", "quayMemberRbac"}
<1> USE EditorTables DEF Editable
<1>1. DOMAIN Editable("Team") = {"features"}
    BY DEF TenancyEditor
<1>2. DOMAIN Editable("Assignment") = {"projects", "openshift", "toolRbac"}
    BY DEF TenancyEditor
<1>3. DOMAIN Editable("Rbac") = {"description"}
    BY DEF AccessEditor
<1>4. DOMAIN Editable("VaultKV") = {"vaultAdminRbac", "vaultReaderRbac", "vaultOpsRbac",
                                       "vaultDeveloperRbac"}
    BY DEF ServiceEditor
<1>5. DOMAIN Editable("AAPOrg") = {"aapAdminRbac", "aapJobExecutorRbac", "aapViewerRbac"}
    BY DEF ServiceEditor
<1>6. DOMAIN Editable("QuayOrg") = {"quayAdminRbac", "quayCreatorRbac", "quayMemberRbac"}
    BY DEF ServiceEditor
<1> QED
    BY <1>1, <1>2, <1>3, <1>4, <1>5, <1>6

\* What a save makes of a field of a spec: a value to store, and where the route
\* knows the field, the draft's if the user has entered it and otherwise the one
\* that both have.
SavesField(k, edited, cur, saved, x) ==
    /\ saved[x] \in StoredValues
    /\ x \notin Ignored(k) /\ edited[x] = cur[x] => Same(saved[x], cur[x])
    /\ /\ x \in DOMAIN Editable(k) /\ x \notin Ignored(k) /\ x \notin CannotEmpty(k)
       /\ edited[x] \in Entries(k, x)
       => Same(saved[x], edited[x])

LEMMA PutSaves ==
    ASSUME NEW k \in PutKinds, NEW edited \in Specs(k), NEW cur \in Specs(k)
    PROVE  \E saved \in Specs(k) :
              /\ Updated(k, edited, cur) = Sends(saved)
              /\ \A x \in Fields[k] : SavesField(k, edited, cur, saved, x)
<1> USE DEF Specs, StoredValues, SavesField, Same, Ignored, CannotEmpty
<1>0. \A x \in DOMAIN Editable(k) : Entries(k, x) \subseteq {"v1", "v2", "blank"}
    BY EntriesPerKind, KindsByMethod
<1>1. CASE k = "Team"
    <2> DEFINE saved == [x \in Fields["Team"] |->
               CASE x = "features" -> OrDefault(edited.features, "blank")
                 [] x = "rbacConfig" -> IF Truthy(edited.rbacConfig) THEN edited.rbacConfig
                                        ELSE cur.rbacConfig
                 [] x = "teamAdmin" -> IF edited.teamAdmin \in Proper \cup {"blank"}
                                       THEN edited.teamAdmin ELSE cur.teamAdmin
                 [] OTHER -> cur[x]]
    <2>1. Updated(k, edited, cur) = Sends(saved)
        BY <1>1, TeamByField
    <2>2. \A x \in Fields["Team"] : SavesField("Team", edited, cur, saved, x)
        BY <1>1, <1>0, OfferedFields DEF Fields, OrDefault, Truthy, Proper
    <2>3. saved \in Specs("Team")
        BY <2>2
    <2> QED
        BY <1>1, <2>1, <2>2, <2>3
<1>2. CASE k = "Rbac"
    <2> DEFINE saved == [x \in Fields["Rbac"] |->
               CASE x = "config" -> OrDefault(edited.config, cur.config)
                 [] OTHER -> IF edited.description \in {"none", "bad"} THEN cur.description
                             ELSE KeptIfProper(edited.description)]
    <2>1. Updated(k, edited, cur) = Sends(saved)
        BY <1>2, RbacByField
    <2>2. \A x \in Fields["Rbac"] : SavesField("Rbac", edited, cur, saved, x)
        BY <1>2, <1>0, OfferedFields DEF Fields, OrDefault, KeptIfProper, Proper
    <2>3. saved \in Specs("Rbac")
        BY <2>2
    <2> QED
        BY <1>2, <2>1, <2>2, <2>3
<1>3. CASE k = "VaultKV"
    <2> DEFINE saved == [x \in Fields["VaultKV"] |->
               CASE x = "vaultAdminRbac" ->
                        OrDefault(edited.vaultAdminRbac, NameList(cur.vaultAdminRbac))
                 [] x = "vaultReaderRbac" ->
                        OrDefault(edited.vaultReaderRbac, NameList(cur.vaultReaderRbac))
                 [] OTHER -> cur[x]]
    <2>1. Updated(k, edited, cur) = Sends(saved)
        BY <1>3, VaultKVByField
    <2>2. \A x \in Fields["VaultKV"] : SavesField("VaultKV", edited, cur, saved, x)
        BY <1>3, <1>0, OfferedFields DEF Fields, OrDefault, NameList, Proper
    <2>3. saved \in Specs("VaultKV")
        BY <2>2
    <2> QED
        BY <1>3, <2>1, <2>2, <2>3
<1>4. CASE k = "AAPOrg"
    <2> DEFINE saved == [x \in Fields["AAPOrg"] |->
               CASE x = "aapAdminRbac" -> NameList(edited.aapAdminRbac)
                 [] x = "aapJobExecutorRbac" -> NameList(edited.aapJobExecutorRbac)
                 [] x = "description" -> IF edited.description \in {"none", "bad"}
                                         THEN cur.description ELSE edited.description
                 [] OTHER -> cur[x]]
    <2>1. Updated(k, edited, cur) = Sends(saved)
        BY <1>4, AAPOrgByField
    <2>2. \A x \in Fields["AAPOrg"] : SavesField("AAPOrg", edited, cur, saved, x)
        BY <1>4, <1>0, OfferedFields DEF Fields, NameList
    <2>3. saved \in Specs("AAPOrg")
        BY <2>2
    <2> QED
        BY <1>4, <2>1, <2>2, <2>3
<1>5. CASE k = "QuayOrg"
    <2> DEFINE saved == [x \in Fields["QuayOrg"] |->
               IF x \in Fields["QuayOrg"] \ {"quayConfig"} THEN NameList(edited[x]) ELSE cur[x]]
    <2>1. Updated(k, edited, cur) = Sends(saved)
        BY <1>5 DEF Updated, QuayOrgUpdated, SendsIf, Sends, ValidNameList, Fields
    <2>2. \A x \in Fields["QuayOrg"] : SavesField("QuayOrg", edited, cur, saved, x)
        BY <1>5, <1>0, OfferedFields DEF Fields, NameList
    <2>3. saved \in Specs("QuayOrg")
        BY <2>2
    <2> QED
        BY <1>5, <2>1, <2>2, <2>3
<1>6. CASE k = "Assignment"
    <2> DEFINE saved == [team |-> Kept(edited.team),
                        projects |-> KeptIfProper(edited.projects),
                        openshift |-> KeptIfProper(edited.openshift),
                        toolRbac |-> "none"]
    <2>1. Updated(k, edited, cur) = Sends(saved)
        BY <1>6 DEF Updated, AssignmentUpdated, Sends, Fields
    <2> HIDE DEF saved
    <2>2. /\ saved["team"] = Kept(edited["team"])
          /\ saved["projects"] = KeptIfProper(edited["projects"])
          /\ saved["openshift"] = KeptIfProper(edited["openshift"])
          /\ saved["toolRbac"] = "none"
        BY DEF saved
    <2>3. \A x \in Fields["Assignment"] : SavesField("Assignment", edited, cur, saved, x)
        BY <1>6, <1>0, <2>2, OfferedFields DEF Fields, Kept, KeptIfProper, Proper
    <2>4. saved \in Specs("Assignment")
        BY <1>6 DEF saved, Fields, Kept, KeptIfProper, Proper
    <2> QED
        BY <1>6, <2>1, <2>3, <2>4
<1> QED
    BY <1>1, <1>2, <1>3, <1>4, <1>5, <1>6 DEF PutKinds

LEMMA MergeSaves ==
    ASSUME NEW k \in MergeKinds, NEW edited \in Drafts(k), NEW cur \in Specs(k)
    PROVE  \A x \in Fields[k] : SavesField(k, edited, cur, MergedDraft(edited, cur), x)
<1> DEFINE saved == MergedDraft(edited, cur)
<1>1. k \in EditorKinds /\ DraftOnly(k) = {"null"}
    BY KindsByMethod DEF DraftOnly
<1> SUFFICES ASSUME NEW x \in Fields[k]
             PROVE  SavesField(k, edited, cur, saved, x)
    OBVIOUS
<1>2. saved[x] = IF edited[x] = "none" THEN cur[x]
                 ELSE IF edited[x] = "null" THEN "none" ELSE edited[x]
    BY <1>1 DEF MergedDraft, Pruned, Specs, Drafts
<1>3. edited[x] \in StoredValues \cup {"null"} /\ cur[x] \in StoredValues
    BY <1>1 DEF Specs, Drafts
<1>4. x \in DOMAIN Editable(k) /\ x \notin CannotEmpty(k) /\ edited[x] \in Entries(k, x)
        => edited[x] # "none"
    BY <1>1, EntriesPerKind
<1> HIDE DEF saved
<1> QED
    BY <1>2, <1>3, <1>4 DEF SavesField, Same, StoredValues

LEMMA ReplaceSaves ==
    ASSUME NEW k \in ReplaceKinds, NEW edited \in Drafts(k), NEW cur \in Specs(k)
    PROVE  \A x \in Fields[k] : SavesField(k, edited, cur, Pruned(edited), x)
BY KindsByMethod DEF DraftOnly, Pruned, Specs, Drafts, StoredValues, SavesField, Same

\* A save that is accepted stores a spec of the kind, and of each field what
\* SavesField says, whichever way the kind's route updates.
LEMMA SaveEffects ==
    ASSUME NEW k \in EditorKinds, NEW edited \in Drafts(k), NEW cur \in Specs(k),
           SavedAs(k, edited, cur).ok
    PROVE  /\ SavedAs(k, edited, cur).spec \in Specs(k)
           /\ \A x \in Fields[k] : SavesField(k, edited, cur, SavedAs(k, edited, cur).spec, x)
<1>1. CASE k \in MergeKinds
    <2>1. SavedAs(k, edited, cur).spec = MergedDraft(edited, cur)
        BY <1>1, KindsByMethod DEF SavedAs, Sends
    <2>2. DOMAIN cur = Fields[k]
        BY DEF Specs
    <2> QED
        BY <1>1, <2>1, <2>2, MergeSaves DEF Specs, MergedDraft, SavesField
<1>2. CASE k \in ReplaceKinds
    <2>1. SavedAs(k, edited, cur).spec = Pruned(edited)
        BY <1>2, KindsByMethod DEF SavedAs, Sends
    <2>2. DOMAIN edited = Fields[k]
        BY DEF Drafts
    <2> QED
        BY <1>2, <2>1, <2>2, ReplaceSaves DEF Specs, Pruned, SavesField
<1>3. CASE k \in PutKinds
    <2>1. edited \in Specs(k)
        BY <1>3, KindsByMethod DEF Drafts, Specs, DraftOnly
    <2>2. SavedAs(k, edited, cur) = Updated(k, edited, cur)
        BY <1>3, KindsByMethod DEF SavedAs
    <2> QED
        BY <1>3, <2>1, <2>2, PutSaves DEF Sends
<1>4. CASE k = "Vault"
    BY <1>4, KindsByMethod DEF SavedAs, Refused
<1> QED
    BY <1>1, <1>2, <1>3, <1>4, KindsByMethod

-----------------------------------------------------------------------------
(* The invariant *)

Resources(k) == [there : BOOLEAN, rev : Nat, spec : Specs(k)]
Items(k) == [ns : Namespaces \cup {"none"}, res : Resources(k)]
ChoiceStates == [ns : Namespaces, picked : BOOLEAN, kept : Namespaces \cup {"none"},
            listed : BOOLEAN, seen : SUBSET Entities]
Gets(k) == [ns : Namespaces, since : Nat, at : {"sent", "read"}, res : Resources(k)]
Views(k) == [item : Items(k), loading : BOOLEAN, error : BOOLEAN, since : Nat]
EditorStates(k) == [spec : Drafts(k), touched : SUBSET DOMAIN Editable(k)]
Saves(k) == [what : {"delete", "reconcile", "save"}, ns : Namespaces, spec : Drafts(k),
             entry : EditorStates(k), base : Items(k), nr : Nat,
             heard : {"page", "tab", "none"}, at : {"sent", "read", "done"},
             got : Resources(k), ok : BOOLEAN]

\* What is shown counts as picked only while sessionStorage tells it to the next
\* load, and what the user has picked counts.
PickKept ==
    /\ choice.picked => choice.kept = choice.ns
    /\ pick \in Entities \cup {"none"}
    /\ pick # "none" => choice.picked /\ choice.ns = pick

\* The resources, the entity and the bounds.
ShellInv ==
    /\ kind \in Kinds
    /\ stored \in [Namespaces -> Resources(kind)]
    /\ choice \in ChoiceStates
    /\ PickKept
    /\ page \in {"list", "detail"}
    /\ used \in [user : Nat, others : Nat, mishaps : Nat]

\* A fetch that counts is about the namespace shown and was sent when the page
\* last asked: what it has read is no older than that.
Counts(get) ==
    /\ get \in Gets(kind)
    /\ get.ns = choice.ns /\ get.since = view.since
    /\ get.since <= stored[get.ns].rev
    /\ get.at = "read" => get.res.rev >= get.since

FetchInv ==
    /\ view \in Views(kind)
    /\ \A g, h \in gets : g = h
    /\ \A g \in gets : Counts(g)
    /\ SettledIsFresh

\* The fields touched hold what a widget leaves, and the others are the item's.
Entered(k, d) == \A x \in d.touched : d.spec[x] \in Entries(k, x)
CopiesRest(k, d, item) == \A x \in Fields[k] \ d.touched : d.spec[x] = item.res.spec[x]

EditorInv ==
    /\ draft \in EditorStates(kind)
    /\ Entered(kind, draft)
    /\ page = "detail" => CopiesRest(kind, draft, view.item)
    /\ page = "list" => draft = NoDraft

\* A save under way sends the draft that the page had, with the item it copies.
Holds(k, s) ==
    /\ s \in Saves(k)
    /\ s.what = "save" => /\ s.spec = s.entry.spec
                          /\ Entered(k, s.entry)
                          /\ CopiesRest(k, s.entry, s.base)

\* What the server's handler has read is what is stored, or older.
ReadIsOld(s) ==
    s.at = "read" => s.got = stored[s.ns] \/ s.got.rev < stored[s.ns].rev

SavesInv == \A s \in saves : Holds(kind, s) /\ ReadIsOld(s)

IInv == ShellInv /\ FetchInv /\ EditorInv /\ SavesInv

LEMMA KindsOffered == ShellInv => kind \in EditorKinds
BY PagesAssumption DEF ShellInv

\* A page without an item, and a draft of nothing.
LEMMA Blanks ==
    ASSUME ShellInv
    PROVE  /\ NoSpec \in Specs(kind) /\ NoSpec \in Drafts(kind)
           /\ \A rev \in Nat : Absent(rev) \in Resources(kind)
           /\ \A rev \in Nat : \A spec \in Specs(kind) : Present(rev, spec) \in Resources(kind)
           /\ Nothing \in Items(kind)
           /\ NoDraft \in EditorStates(kind)
           /\ Entered(kind, NoDraft)
           /\ CopiesRest(kind, NoDraft, Nothing)
<1>1. NoSpec \in Specs(kind) /\ NoSpec \in Drafts(kind)
    BY DEF NoSpec, Specs, Drafts, StoredValues
<1>2. \A rev \in Nat : Absent(rev) \in Resources(kind)
    BY <1>1 DEF Absent, Resources
<1>3. \A rev \in Nat : \A spec \in Specs(kind) : Present(rev, spec) \in Resources(kind)
    BY DEF Present, Resources
<1>4. Nothing \in Items(kind)
    BY <1>2 DEF Nothing, Items
<1>5. NoDraft \in EditorStates(kind)
    BY <1>1 DEF NoDraft, EditorStates
<1>6. Entered(kind, NoDraft) /\ CopiesRest(kind, NoDraft, Nothing)
    BY DEF Entered, CopiesRest, NoDraft, Nothing, Absent
<1> QED
    BY <1>1, <1>2, <1>3, <1>4, <1>5, <1>6

LEMMA Starts == Init => IInv
<1> SUFFICES ASSUME Init PROVE IInv
    OBVIOUS
<1>1. kind \in Kinds /\ Fallback \in Namespaces
    BY PagesAssumption DEF Init, Namespaces
<1>2. \A spec \in Specs(kind) : [there |-> TRUE, rev |-> 1, spec |-> spec] \in Resources(kind)
    BY DEF Resources
<1>3. [x \in Fields[kind] |-> "v1"] \in Specs(kind) /\ NoSpec \in Specs(kind)
    BY DEF Specs, StoredValues, NoSpec
<1>4. stored \in [Namespaces -> Resources(kind)]
    <2>1. Absent(0) \in Resources(kind)
        BY <1>3 DEF Absent, Resources
    <2> QED
        BY <1>2, <1>3, <2>1 DEF Init, Present
<1>5. ShellInv
    BY <1>1, <1>4 DEF Init, ShellInv, ChoiceStates, PickKept
<1>6. FetchInv
    <2>1. stored[Fallback].rev \in Nat
        BY <1>1, <1>4 DEF Resources
    <2>2. Absent(0) \in Resources(kind) /\ Nothing \in Items(kind)
        BY <1>5, Blanks
    <2> QED
        BY <1>1, <2>1, <2>2 DEF Init, FetchInv, Counts, Get, Gets, Views, SettledIsFresh
<1>7. EditorInv
    BY <1>5, Blanks DEF Init, EditorInv
<1>8. SavesInv
    BY DEF Init, SavesInv
<1> QED
    BY <1>5, <1>6, <1>7, <1>8 DEF IInv

-----------------------------------------------------------------------------
(* What is stored, and the entity *)

LEMMA BoundsKept ==
    ASSUME ShellInv, NEW what \in {"user", "others", "mishaps"}, NEW bound \in Nat,
           Bounded(what, bound)
    PROVE  /\ used' \in [user : Nat, others : Nat, mishaps : Nat]
           /\ used'[what] = used[what] + 1
           /\ used[what] \in Nat
BY DEF ShellInv, Bounded

\* A request that the server carries out writes a spec of the kind in a new
\* revision, or what was there.
LEMMA Writes ==
    ASSUME ShellInv, SavesInv, NEW s \in saves, Accepted(s)
    PROVE  /\ Written(s) \in Resources(kind)
           /\ Written(s) = stored[s.ns] \/ Written(s).rev > stored[s.ns].rev
<1>1. Holds(kind, s)
    BY DEF SavesInv
<1> DEFINE cur == stored[s.ns]
<1>2. cur \in Resources(kind) /\ cur.rev \in Nat /\ cur.spec \in Specs(kind)
    BY <1>1 DEF Holds, Saves, ShellInv, Resources
<1>3. s.what \in {"delete", "reconcile", "save"} /\ s.spec \in Drafts(kind)
    BY <1>1 DEF Holds, Saves
<1> HIDE DEF cur
<1>4. CASE s.what = "delete"
    <2>1. Written(s) = Absent(cur.rev + 1)
        BY <1>4 DEF Written, cur
    <2> QED
        BY <1>2, <2>1, Blanks DEF Absent, cur
<1>5. CASE s.what = "reconcile"
    <2>1. Written(s) = Present(cur.rev + 1, cur.spec)
        BY <1>5 DEF Written, cur
    <2> QED
        BY <1>2, <2>1, Blanks DEF Present, cur
<1>6. CASE s.what = "save"
    <2> DEFINE spec == Saved(s).spec
    <2>1. Written(s) = IF spec = cur.spec THEN cur ELSE Present(cur.rev + 1, spec)
        BY <1>6 DEF Written, cur
    <2>2. Current(s).spec \in Specs(kind)
        BY <1>1, <1>2 DEF Current, cur, Holds, Saves, Resources
    <2>3. spec \in Specs(kind)
        BY <1>3, <1>6, <2>2, SaveEffects, KindsOffered DEF Accepted, Saved
    <2> HIDE DEF spec
    <2> QED
        BY <1>2, <2>1, <2>3, Blanks DEF Present, cur
<1> QED
    BY <1>3, <1>4, <1>5, <1>6

\* What a step stores is a new revision.
StoredGrows ==
    /\ stored' \in [Namespaces -> Resources(kind)]
    /\ \A n \in Namespaces : stored'[n] = stored[n] \/ stored'[n].rev > stored[n].rev

LEMMA NothingStored == ShellInv /\ stored' = stored => StoredGrows
BY DEF ShellInv, StoredGrows, Resources

LEMMA OneStored ==
    ASSUME ShellInv, NEW n \in Namespaces, NEW res \in Resources(kind),
           res = stored[n] \/ res.rev > stored[n].rev,
           stored' = [stored EXCEPT ![n] = res]
    PROVE  StoredGrows
BY DEF ShellInv, StoredGrows, Resources

LEMMA CarriedOutStores ==
    ASSUME ShellInv, SavesInv, NEW s \in saves, CarriedOut(s)
    PROVE  StoredGrows
<1>1. CASE Accepted(s)
    <2>1. stored' = [stored EXCEPT ![s.ns] = Written(s)]
        BY <1>1 DEF CarriedOut
    <2>2. /\ Written(s) \in Resources(kind)
          /\ Written(s) = stored[s.ns] \/ Written(s).rev > stored[s.ns].rev
        BY <1>1, Writes
    <2> QED
        BY <2>1, <2>2, OneStored DEF SavesInv, Holds, Saves
<1>2. CASE ~Accepted(s)
    BY <1>2, NothingStored DEF CarriedOut
<1> QED
    BY <1>1, <1>2

LEMMA OthersStore ==
    ASSUME ShellInv, NEW n \in Namespaces, Others(n)
    PROVE  StoredGrows
<1> DEFINE cur == stored[n]
<1>1. cur.rev \in Nat /\ cur.spec \in Specs(kind)
    BY DEF ShellInv, Resources
<1>2. PICK res : /\ stored' = [stored EXCEPT ![n] = res]
                 /\ res = Absent(cur.rev + 1) \/ \E x \in Fields[kind] :
                        res = Present(cur.rev + 1, [cur.spec EXCEPT ![x] = "v2"])
    BY DEF Others
<1>3. res \in Resources(kind) /\ res.rev > cur.rev
    <2>1. \A x \in Fields[kind] : [cur.spec EXCEPT ![x] = "v2"] \in Specs(kind)
        BY <1>1 DEF Specs, StoredValues
    <2> HIDE DEF cur
    <2> QED
        BY <1>1, <1>2, <2>1, Blanks DEF Absent, Present
<1> QED
    BY <1>2, <1>3, OneStored

\* What the list of entities brings: the namespace stays, or is a candidate.
Keeps(listing) == choice' = [choice EXCEPT !.listed = TRUE, !.seen = listing]
Takes(listing, n) ==
    choice' = [choice EXCEPT !.listed = TRUE, !.seen = listing, !.ns = n, !.kept = n]

LEMMA EntitiesBring ==
    ASSUME NEW listing, NEW named, EntitiesArrive(listing, named)
    PROVE  /\ kind' = kind /\ stored' = stored /\ used' = used /\ pick' = pick
           /\ \/ Keeps(listing) /\ Shows(choice.ns)
              \/ \E n \in Detected(listing, named) : Takes(listing, n) /\ Shows(n)
<1>1. UNCHANGED <<kind, stored, used, pick>>
    BY Zenon DEF EntitiesArrive
<1>2. \/ Keeps(listing) /\ Shows(choice.ns)
      \/ \E n \in Detected(listing, named) : Takes(listing, n) /\ Shows(n)
    BY Zenon DEF EntitiesArrive, Keeps, Takes
<1> QED
    BY <1>1, <1>2

\* A namespace shown changes nothing but what the page fetches, shows and asks.
LEMMA ShowsStays ==
    ASSUME NEW n, Shows(n)
    PROVE  page' = page /\ draft' = draft /\ saves' = saves
BY Zenon DEF Shows

\* Every other action leaves the resources alone.
LEMMA NextStores == IInv /\ [Next]_vars => StoredGrows
<1> SUFFICES ASSUME IInv, [Next]_vars PROVE StoredGrows
    OBVIOUS
<1> USE DEF IInv
<1>1. CASE \E s \in saves : CarriedOut(s)
    BY <1>1, CarriedOutStores
<1>2. CASE \E n \in Namespaces : Others(n)
    BY <1>2, OthersStore
<1>3. CASE stored' = stored
    BY <1>3, NothingStored
<1>4. CASE \E get \in gets : Read(get) \/ Arrives(get) \/ FetchFails(get)
    BY <1>4, <1>3 DEF Read, Arrives, FetchFails, Fails
<1>5. CASE fetchCanIProxy \/ CanIFails
    BY <1>5, <1>3 DEF fetchCanIProxy, CanIFails, CanI
<1>6. CASE \E s \in saves : HandlerReads(s) \/ Answered(s) \/ RequestFails(s)
    BY <1>6, <1>3 DEF HandlerReads, Answered, RequestFails, Navigates
<1>7. ASSUME NEW listing \in SUBSET Entities, NEW named \in SUBSET Groups,
             EntitiesArrive(listing, named)
      PROVE  StoredGrows
    BY <1>7, <1>3, EntitiesBring
<1>12. CASE (\E n \in Namespaces : selectEntity(n)) \/ Reload
    BY <1>12, <1>3, Zenon DEF selectEntity, Reload
<1>8. CASE OpenDetail \/ Back \/ Refresh
    BY <1>8, <1>3 DEF OpenDetail, Back, Refresh, Navigates
<1>9. CASE handleDelete \/ handleReconcile \/ save
    BY <1>9, <1>3 DEF handleDelete, handleReconcile, save, Submits
<1>10. CASE \E x \in DOMAIN Editable(kind) : \E v \in Entries(kind, x) : edit(x, v)
    BY <1>10, <1>3 DEF edit
<1>11. CASE UNCHANGED vars
    BY <1>11, <1>3 DEF vars
<1> QED
    BY <1>1, <1>2, <1>4, <1>5, <1>6, <1>7, <1>8, <1>9, <1>10, <1>11, <1>12 DEF Next

\* What the steps of a page may do to its kind, its entity and the bounds.
ShellStep ==
    /\ kind' = kind
    /\ choice' \in ChoiceStates
    /\ PickKept'
    /\ page' \in {"list", "detail"}
    /\ used' \in [user : Nat, others : Nat, mishaps : Nat]

\* The steps that leave the entity alone.
LEMMA EntityStays ==
    ASSUME ShellInv, kind' = kind, choice' = choice, pick' = pick, page' \in {"list", "detail"},
           UNCHANGED used \/ User \/ Mishap \/ Bounded("others", MaxOthers)
    PROVE  ShellStep
<1>1. used' \in [user : Nat, others : Nat, mishaps : Nat]
    BY BoundsKept, PagesAssumption DEF User, Mishap, ShellInv
<1> QED
    BY <1>1 DEF ShellInv, ShellStep, PickKept

\* The candidates are namespaces of the pages.
LEMMA CandidatesAre ==
    ASSUME NEW listing \in SUBSET Entities, NEW named, NEW n \in Detected(listing, named)
    PROVE  ~choice.picked /\ n \in Namespaces
BY DEF Detected, Candidates, Namespaces

\* The list of entities changes the namespace only if nothing counts as picked.
LEMMA EntitiesArriveShell ==
    ASSUME ShellInv, NEW listing \in SUBSET Entities, NEW named, EntitiesArrive(listing, named)
    PROVE  ShellStep
<1>1. kind' = kind /\ used' = used /\ page' = page /\ pick' = pick
    BY EntitiesBring, ShowsStays
<1>2. CASE Keeps(listing)
    BY <1>1, <1>2 DEF Keeps, ShellInv, ShellStep, ChoiceStates, PickKept
<1>3. ASSUME NEW n \in Detected(listing, named), Takes(listing, n)
      PROVE  ShellStep
    <2>1. ~choice.picked /\ n \in Namespaces
        BY <1>3, CandidatesAre
    <2>2. choice' \in ChoiceStates /\ choice'.kept = choice'.ns
        BY <1>3, <2>1 DEF Takes, ShellInv, ChoiceStates
    <2> QED
        BY <1>1, <2>1, <2>2 DEF ShellInv, ShellStep, PickKept
<1> QED
    BY <1>2, <1>3, EntitiesBring

LEMMA SelectShell ==
    ASSUME ShellInv, NEW n \in Namespaces, selectEntity(n)
    PROVE  ShellStep
<1>1. kind' = kind /\ page' = page
    BY DEF selectEntity, Shows
<1>2. /\ choice' \in ChoiceStates /\ choice'.picked /\ choice'.kept = choice'.ns
      /\ pick' = choice'.ns /\ pick' \in Entities
    BY DEF selectEntity, ShellInv, ChoiceStates
<1>3. used' \in [user : Nat, others : Nat, mishaps : Nat]
    BY BoundsKept, PagesAssumption DEF selectEntity, User
<1> QED
    BY <1>1, <1>2, <1>3 DEF ShellStep, ShellInv, PickKept

LEMMA ReloadShell ==
    ASSUME ShellInv, Reload
    PROVE  ShellStep
<1>1. kind' = kind /\ page' = page
    BY DEF Reload, Mounts
<1>2. choice' \in ChoiceStates
    BY PagesAssumption DEF Reload, ShellInv, ChoiceStates, Namespaces
<1>3. PickKept'
    <2>1. /\ choice'.picked <=> choice.kept # "none"
          /\ choice'.kept = choice.kept /\ pick' = pick
          /\ choice.kept # "none" => choice'.ns = choice.kept
        BY DEF Reload
    <2>2. choice.ns # "none"
        BY PagesAssumption DEF ShellInv, ChoiceStates, Namespaces
    <2> QED
        BY <2>1, <2>2 DEF ShellInv, PickKept
<1>4. used' \in [user : Nat, others : Nat, mishaps : Nat]
    BY BoundsKept, PagesAssumption DEF Reload, User
<1> QED
    BY <1>1, <1>2, <1>3, <1>4 DEF ShellStep, ShellInv

LEMMA NextShell == IInv /\ [Next]_vars => ShellStep
<1> SUFFICES ASSUME IInv, [Next]_vars PROVE ShellStep
    OBVIOUS
<1> USE DEF IInv
<1>0. page \in {"list", "detail"}
    BY DEF ShellInv
<1>1. CASE \E listing \in SUBSET Entities : \E named \in SUBSET Groups :
                EntitiesArrive(listing, named)
    BY <1>1, EntitiesArriveShell
<1>2. CASE \E n \in Namespaces : selectEntity(n)
    BY <1>2, SelectShell
<1>3. CASE Reload
    BY <1>3, ReloadShell
<1>4. CASE \E get \in gets : Read(get) \/ Arrives(get) \/ FetchFails(get)
    BY <1>0, <1>4, EntityStays DEF Read, Arrives, FetchFails, Fails
<1>5. CASE fetchCanIProxy \/ CanIFails
    BY <1>0, <1>5, EntityStays DEF fetchCanIProxy, CanIFails, CanI
<1>6. CASE \E s \in saves : HandlerReads(s) \/ CarriedOut(s) \/ Answered(s) \/ RequestFails(s)
    BY <1>0, <1>6, EntityStays
       DEF HandlerReads, CarriedOut, Answered, RequestFails, Navigates, Mounts
<1>7. CASE \E n \in Namespaces : Others(n)
    BY <1>0, <1>7, EntityStays DEF Others
<1>8. CASE OpenDetail \/ Back \/ Refresh
    BY <1>0, <1>8, EntityStays DEF OpenDetail, Back, Refresh, Navigates, Mounts
<1>9. CASE handleDelete \/ handleReconcile \/ save
    BY <1>0, <1>9, EntityStays DEF handleDelete, handleReconcile, save, Submits
<1>10. CASE \E x \in DOMAIN Editable(kind) : \E v \in Entries(kind, x) : edit(x, v)
    BY <1>0, <1>10, EntityStays DEF edit
<1>11. CASE UNCHANGED vars
    BY <1>0, <1>11, EntityStays DEF vars
<1> QED
    BY <1>1, <1>2, <1>3, <1>4, <1>5, <1>6, <1>7, <1>8, <1>9, <1>10, <1>11 DEF Next

LEMMA ShellKept == IInv /\ [Next]_vars => ShellInv'
BY NextShell, NextStores DEF ShellStep, StoredGrows, ShellInv, IInv

-----------------------------------------------------------------------------
(* The fetches *)

\* A fetch that is on its way stays one that counts while others write.
LEMMA FetchesStay ==
    ASSUME ShellInv, FetchInv, StoredGrows, kind' = kind, choice'.ns = choice.ns,
           gets' = gets, view' = view
    PROVE  FetchInv'
<1>1. ASSUME NEW g \in gets PROVE Counts(g)'
    <2>1. Counts(g)
        BY DEF FetchInv
    <2>2. g.ns \in Namespaces /\ g.since \in Nat
        BY <2>1 DEF Counts, Gets
    <2>3. /\ stored[g.ns].rev \in Nat /\ stored'[g.ns].rev \in Nat
          /\ stored'[g.ns].rev >= stored[g.ns].rev
        BY <2>2 DEF ShellInv, StoredGrows, Resources
    <2> QED
        BY <2>1, <2>2, <2>3 DEF Counts
<1> QED
    BY <1>1 DEF FetchInv, SettledIsFresh

\* The only fetch that counts is the one just sent.
LEMMA FetchSent ==
    ASSUME ShellInv, NEW n \in Namespaces, kind' = kind, stored' = stored, choice'.ns = n,
           gets' = {Get(n)}, view' \in Views(kind), view'.loading, view'.since = stored[n].rev
    PROVE  FetchInv'
<1>1. Get(n) \in Gets(kind) /\ Get(n).ns = n /\ Get(n).at = "sent"
      /\ Get(n).since = stored[n].rev /\ stored[n].rev \in Nat
    <2>1. Absent(0) \in Resources(kind)
        BY Blanks
    <2>2. stored[n].rev \in Nat
        BY DEF ShellInv, Resources
    <2> QED
        BY <2>1, <2>2 DEF Get, Gets
<1>2. Counts(Get(n))'
    <2> DEFINE g == Get(n)
    <2> SUFFICES g' = g
        BY <1>1 DEF Counts
    <2> QED
        BY DEF Get, Absent, NoSpec
<1> QED
    BY <1>2 DEF FetchInv, SettledIsFresh, Get, Absent, NoSpec

LEMMA Refetches ==
    ASSUME ShellInv, FetchInv, NEW n \in Namespaces, kind' = kind, stored' = stored,
           choice'.ns = n, Fetches(n)
    PROVE  FetchInv'
<1>1. stored[n].rev \in Nat
    BY DEF ShellInv, Resources
<1>2. view' \in Views(kind) /\ view'.loading /\ view'.since = stored[n].rev
    BY <1>1 DEF Fetches, FetchInv, Views
<1> QED
    BY <1>2, FetchSent DEF Fetches, Pending

LEMMA MountFetches ==
    ASSUME ShellInv, NEW n \in Namespaces, NEW p, kind' = kind, stored' = stored,
           choice'.ns = n, Mounts(p, n)
    PROVE  FetchInv'
<1>1. stored[n].rev \in Nat /\ Nothing \in Items(kind)
    BY Blanks DEF ShellInv, Resources
<1>2. view' \in Views(kind) /\ view'.loading /\ view'.since = stored[n].rev
    BY <1>1 DEF Mounts, Views
<1> QED
    BY <1>2, FetchSent DEF Mounts

\* Another namespace is asked anew, and the same one is not.
LEMMA ShownFetches ==
    ASSUME ShellInv, FetchInv, NEW n \in Namespaces, kind' = kind, stored' = stored,
           choice'.ns = n, Shows(n)
    PROVE  FetchInv'
<1>1. CASE n = choice.ns
    BY <1>1, FetchesStay, NothingStored DEF Shows
<1>2. CASE n # choice.ns
    BY <1>2, Refetches DEF Shows
<1> QED
    BY <1>1, <1>2

LEMMA FailsFetches ==
    ASSUME ShellInv, FetchInv, NEW get \in gets, Fails(get)
    PROVE  FetchInv'
<1>1. view' \in Views(kind) /\ view'.error /\ view'.since = view.since
    BY DEF Fails, FetchInv, Views, StopsLoading
<1>2. \A g \in gets' : Counts(g)'
    BY <1>1 DEF Fails, FetchInv, Counts
<1> QED
    BY <1>1, <1>2 DEF FetchInv, SettledIsFresh, Fails

LEMMA ReadFetches ==
    ASSUME ShellInv, FetchInv, NEW get \in gets, Read(get)
    PROVE  FetchInv'
<1>1. Counts(get) /\ gets = {get} /\ get.at = "sent"
    BY DEF FetchInv, Read
<1>2. PICK g : g = [get EXCEPT !.at = "read", !.res = stored[get.ns]]
    OBVIOUS
<1>3. g \in Gets(kind) /\ g.ns = get.ns /\ g.since = get.since /\ g.res = stored[get.ns]
    BY <1>1, <1>2 DEF Counts, Gets, ShellInv
<1>4. gets' = {g}
    BY <1>1, <1>2 DEF Read
<1>5. Counts(g)'
    BY <1>1, <1>3 DEF Counts, Read
<1> QED
    BY <1>4, <1>5 DEF Read, FetchInv, SettledIsFresh

\* What the page shows when an answer has come.
LEMMA ArrivesShows ==
    ASSUME FetchInv, NEW get \in gets, Arrives(get), ~(page = "detail" /\ ~get.res.there)
    PROVE  /\ view' \in Views(kind) /\ view'.since = view.since
           /\ view'.item.ns = get.ns /\ view'.item.res = get.res
<1>1. view \in Views(kind) /\ Counts(get)
    BY DEF FetchInv
<1>2. PICK item \in Items(kind) : item = [ns |-> get.ns, res |-> get.res]
    BY <1>1 DEF Counts, Gets, Items
<1>3. PICK w : view' = w /\ w = [view EXCEPT !.item = item, !.error = FALSE, !.loading = FALSE]
    BY <1>2, Zenon DEF Arrives
<1>4. PICK a \in Views(kind) : a = [view EXCEPT !.item = item]
    BY <1>1 DEF Views
<1>5. PICK b \in Views(kind) : b = [a EXCEPT !.error = FALSE]
    BY DEF Views
<1>6. w = [b EXCEPT !.loading = FALSE]
    BY <1>3, <1>4, <1>5
<1>7. w \in Views(kind) /\ w.since = view.since /\ w.item = item
    BY <1>1, <1>4, <1>5, <1>6 DEF Views
<1> QED
    BY <1>2, <1>3, <1>7

\* The answer of a fetch that counts is the namespace's, and fresh.
LEMMA ArrivesFetches ==
    ASSUME ShellInv, FetchInv, NEW get \in gets, Arrives(get)
    PROVE  FetchInv'
<1>1. CASE page = "detail" /\ ~get.res.there
    BY <1>1, FailsFetches DEF Arrives
<1>2. CASE ~(page = "detail" /\ ~get.res.there)
    <2>1. Counts(get) /\ gets = {get} /\ get.at = "read"
        BY DEF FetchInv, Arrives
    <2>2. gets' = {} /\ choice' = choice /\ kind' = kind
        BY <1>2, <2>1 DEF Arrives
    <2>3. /\ view' \in Views(kind) /\ view'.since = view.since
          /\ view'.item.ns = get.ns /\ view'.item.res = get.res
        BY <1>2, ArrivesShows
    <2> QED
        BY <2>1, <2>2, <2>3 DEF FetchInv, SettledIsFresh, Counts
<1> QED
    BY <1>1, <1>2

LEMMA NextFetches == IInv /\ [Next]_vars => FetchInv'
<1> SUFFICES ASSUME IInv, [Next]_vars PROVE FetchInv'
    OBVIOUS
<1> USE DEF IInv
<1>0. kind' = kind /\ StoredGrows /\ choice'.ns \in Namespaces /\ choice.ns \in Namespaces
    BY NextShell, NextStores DEF ShellStep, ShellInv, ChoiceStates
<1>1. CASE \E get \in gets : Read(get) \/ Arrives(get) \/ FetchFails(get)
    BY <1>1, ReadFetches, ArrivesFetches, FailsFetches DEF FetchFails
<1>2. CASE fetchCanIProxy \/ CanIFails
    BY <1>0, <1>2, FetchesStay DEF fetchCanIProxy, CanIFails, CanI
<1>3. CASE \E s \in saves : HandlerReads(s) \/ CarriedOut(s) \/ RequestFails(s)
    BY <1>0, <1>3, FetchesStay DEF HandlerReads, CarriedOut, RequestFails
<1>4. ASSUME NEW s \in saves, Answered(s) PROVE FetchInv'
    <2>1. CASE Navigates("list")
        BY <1>0, <2>1, MountFetches DEF Navigates
    <2>2. CASE UNCHANGED <<choice, gets, view>>
        BY <1>0, <2>2, FetchesStay
    <2>3. CASE Fetches(choice.ns) /\ UNCHANGED <<stored, choice>>
        BY <1>0, <2>3, Refetches
    <2> QED
        BY <1>4, <2>1, <2>2, <2>3 DEF Answered
<1>5. CASE \E listing \in SUBSET Entities : \E named \in SUBSET Groups :
                EntitiesArrive(listing, named)
    <2> PICK listing \in SUBSET Entities : \E named \in SUBSET Groups : EntitiesArrive(listing, named)
        BY <1>5
    <2> PICK named \in SUBSET Groups : EntitiesArrive(listing, named)
        OBVIOUS
    <2>1. stored' = stored
        BY EntitiesBring
    <2>2. CASE Keeps(listing) /\ Shows(choice.ns)
        BY <1>0, <2>1, <2>2, ShownFetches DEF Keeps, ShellInv, ChoiceStates
    <2>3. ASSUME NEW n \in Detected(listing, named), Shows(n), Takes(listing, n)
          PROVE  FetchInv'
        <3>1. choice'.ns = n /\ n \in Namespaces
            BY <2>3, CandidatesAre DEF Takes, ShellInv, ChoiceStates
        <3> QED
            BY <1>0, <2>1, <2>3, <3>1, ShownFetches
    <2> QED
        BY <2>2, <2>3, EntitiesBring
<1>6. CASE \E n \in Namespaces : selectEntity(n)
    <2> PICK n \in Namespaces : selectEntity(n)
        BY <1>6
    <2>1. stored' = stored /\ choice'.ns = n /\ Shows(n)
        BY DEF selectEntity, ShellInv, ChoiceStates
    <2> QED
        BY <1>0, <2>1, ShownFetches
<1>7. CASE \E n \in Namespaces : Others(n)
    BY <1>0, <1>7, FetchesStay DEF Others
<1>8. CASE Reload
    BY <1>0, <1>8, MountFetches DEF Reload
<1>9. CASE OpenDetail \/ Back
    BY <1>0, <1>9, MountFetches DEF OpenDetail, Back, Navigates
<1>10. CASE Refresh
    BY <1>0, <1>10, Refetches DEF Refresh
<1>11. CASE handleDelete \/ handleReconcile \/ save
    BY <1>0, <1>11, FetchesStay DEF handleDelete, handleReconcile, save, Submits
<1>12. CASE \E x \in DOMAIN Editable(kind) : \E v \in Entries(kind, x) : edit(x, v)
    BY <1>0, <1>12, FetchesStay DEF edit
<1>13. CASE UNCHANGED vars
    BY <1>0, <1>13, FetchesStay DEF vars
<1> QED
    BY <1>1, <1>2, <1>3, <1>4, <1>5, <1>6, <1>7, <1>8, <1>9, <1>10, <1>11, <1>12, <1>13
       DEF Next

-----------------------------------------------------------------------------
(* The draft *)

LEMMA DraftStaysSame ==
    ASSUME EditorInv, kind' = kind, draft' = draft, page' = page, view'.item = view.item
    PROVE  EditorInv'
BY DEF EditorInv, NoDraft, NoSpec

LEMMA MountDrafts ==
    ASSUME ShellInv, NEW p, NEW n, kind' = kind, Mounts(p, n)
    PROVE  EditorInv'
<1>1. draft' = NoDraft /\ view'.item = Nothing
    BY DEF Mounts
<1>2. NoDraft' = NoDraft
    BY DEF NoDraft, NoSpec
<1> QED
    BY <1>1, <1>2, Blanks DEF EditorInv

\* A refresh and an error leave the item as it is.
LEMMA ItemStays ==
    ASSUME FetchInv,
           \/ \E n \in Namespaces : Fetches(n) \/ Shows(n)
           \/ \E get \in gets : Fails(get)
    PROVE  view'.item = view.item
<1>1. ASSUME NEW n \in Namespaces, Fetches(n) PROVE view'.item = view.item
    <2>1. PICK rev : view' = [view EXCEPT !.loading = TRUE, !.since = rev]
        BY <1>1, Zenon DEF Fetches
    <2> QED
        BY <2>1 DEF FetchInv, Views
<1>2. ASSUME NEW n \in Namespaces, Shows(n) PROVE view'.item = view.item
    <2>1. view' = view \/ Fetches(n)
        BY <1>2, Zenon DEF Shows
    <2> QED
        BY <1>1, <2>1
<1>3. ASSUME NEW get \in gets, Fails(get) PROVE view'.item = view.item
    BY <1>3 DEF FetchInv, Views, Fails
<1> QED
    BY <1>1, <1>2, <1>3

\* A new item resets the draft to its spec.
LEMMA ArrivesDrafts ==
    ASSUME ShellInv, FetchInv, EditorInv, NEW get \in gets, Arrives(get)
    PROVE  EditorInv'
<1>1. CASE page = "detail" /\ ~get.res.there
    BY <1>1, DraftStaysSame, ItemStays DEF Arrives, Fails
<1>2. CASE ~(page = "detail" /\ ~get.res.there)
    <2>1. Counts(get) /\ kind' = kind /\ page' = page /\ draft' = DraftOf(get.res)
        BY <1>2 DEF FetchInv, Arrives
    <2>2. CASE page = "list"
        <3>1. draft' = NoDraft /\ NoDraft' = NoDraft
            BY <2>1, <2>2 DEF DraftOf, NoDraft, NoSpec
        <3> QED
            BY <2>1, <2>2, <3>1, Blanks DEF EditorInv
    <2>3. CASE page = "detail"
        <3>1. draft' = [spec |-> get.res.spec, touched |-> {}]
            BY <2>1, <2>3 DEF DraftOf
        <3>2. get.res.spec \in Drafts(kind)
            BY <2>1 DEF Counts, Gets, Resources, Specs, Drafts
        <3>3. view'.item.res = get.res
            BY <1>2, ArrivesShows
        <3> QED
            BY <2>1, <2>3, <3>1, <3>2, <3>3 DEF EditorInv, EditorStates, Entered, CopiesRest
    <2> QED
        BY <2>2, <2>3 DEF ShellInv
<1> QED
    BY <1>1, <1>2

\* What is typed in is an entry of the field's widget, in a field that it touches.
LEMMA EditDrafts ==
    ASSUME ShellInv, EditorInv, NEW x \in DOMAIN Editable(kind), NEW v \in Entries(kind, x),
           edit(x, v)
    PROVE  EditorInv'
<1>1. x \in Fields[kind] /\ v \in StoredValues \cup DraftOnly(kind)
    BY KindsOffered, EntriesPerKind
<1>2. draft.spec \in [Fields[kind] -> StoredValues \cup DraftOnly(kind)]
      /\ draft.touched \subseteq DOMAIN Editable(kind)
    BY DEF EditorInv, EditorStates, Drafts
<1>3. PICK spec \in Drafts(kind) :
          /\ spec = [draft.spec EXCEPT ![x] = v]
          /\ spec[x] = v
          /\ \A y \in Fields[kind] \ {x} : spec[y] = draft.spec[y]
    <2>1. PICK V : V = StoredValues \cup DraftOnly(kind)
        OBVIOUS
    <2>2. PICK d \in [Fields[kind] -> V] : d = draft.spec
        BY <1>2, <2>1
    <2>3. [d EXCEPT ![x] = v] \in [Fields[kind] -> V]
        BY <1>1, <2>1
    <2>4. /\ [d EXCEPT ![x] = v][x] = v
          /\ \A y \in Fields[kind] \ {x} : [d EXCEPT ![x] = v][y] = d[y]
        BY <1>1
    <2> QED
        BY <2>1, <2>2, <2>3, <2>4 DEF Drafts
<1>4. draft' = [spec |-> spec, touched |-> draft.touched \cup {x}]
    BY <1>3 DEF edit, setField
<1>5. kind' = kind /\ page' = page /\ page = "detail" /\ view' = view
    BY DEF edit, Ready
<1>6. \A y \in DOMAIN Editable(kind) : y \in Fields[kind]
    BY KindsOffered, EntriesPerKind
<1>7. draft' \in EditorStates(kind)
    BY <1>2, <1>4 DEF EditorStates
<1>8. Entered(kind, draft')
    BY <1>2, <1>3, <1>4, <1>6 DEF Entered, EditorInv
<1>9. CopiesRest(kind, draft', view.item)
    BY <1>3, <1>4, <1>5 DEF CopiesRest, EditorInv
<1> QED
    BY <1>5, <1>7, <1>8, <1>9 DEF EditorInv

LEMMA NextDrafts == IInv /\ [Next]_vars => EditorInv'
<1> SUFFICES ASSUME IInv, [Next]_vars PROVE EditorInv'
    OBVIOUS
<1> USE DEF IInv
<1>0. kind' = kind /\ choice.ns \in Namespaces
    BY NextShell DEF ShellStep, ShellInv, ChoiceStates
<1>1. CASE \E get \in gets : Arrives(get)
    BY <1>1, ArrivesDrafts
<1>2. CASE \E get \in gets : Read(get) \/ FetchFails(get)
    BY <1>0, <1>2, DraftStaysSame, ItemStays DEF Read, FetchFails, Fails
<1>3. CASE fetchCanIProxy \/ CanIFails
    BY <1>0, <1>3, DraftStaysSame DEF fetchCanIProxy, CanIFails, CanI
<1>4. CASE \E s \in saves : HandlerReads(s) \/ CarriedOut(s) \/ RequestFails(s)
    BY <1>0, <1>4, DraftStaysSame DEF HandlerReads, CarriedOut, RequestFails
<1>5. CASE \E s \in saves : Answered(s)
    BY <1>0, <1>5, DraftStaysSame, ItemStays, MountDrafts DEF Answered, Navigates
<1>6. CASE \E listing \in SUBSET Entities : \E named \in SUBSET Groups :
                EntitiesArrive(listing, named)
    <2>1. PICK n \in Namespaces : Shows(n)
        BY <1>0, <1>6, CandidatesAre, EntitiesBring
    <2>2. view'.item = view.item
        BY <2>1, ItemStays
    <2> QED
        BY <1>0, <2>1, <2>2, DraftStaysSame DEF Shows
<1>7. CASE \E n \in Namespaces : selectEntity(n)
    <2>1. PICK n \in Namespaces : Shows(n)
        BY <1>7 DEF selectEntity
    <2>2. view'.item = view.item
        BY <2>1, ItemStays
    <2> QED
        BY <1>0, <2>1, <2>2, DraftStaysSame DEF Shows
<1>8. CASE \E n \in Namespaces : Others(n)
    BY <1>0, <1>8, DraftStaysSame DEF Others
<1>9. CASE Reload \/ OpenDetail \/ Back
    BY <1>0, <1>9, MountDrafts DEF Reload, OpenDetail, Back, Navigates
<1>10. CASE Refresh
    BY <1>0, <1>10, DraftStaysSame, ItemStays DEF Refresh
<1>11. CASE handleDelete \/ handleReconcile \/ save
    BY <1>0, <1>11, DraftStaysSame DEF handleDelete, handleReconcile, save, Submits
<1>12. CASE \E x \in DOMAIN Editable(kind) : \E v \in Entries(kind, x) : edit(x, v)
    BY <1>12, EditDrafts
<1>13. CASE UNCHANGED vars
    BY <1>0, <1>13, DraftStaysSame DEF vars
<1> QED
    BY <1>1, <1>2, <1>3, <1>4, <1>5, <1>6, <1>7, <1>8, <1>9, <1>10, <1>11, <1>12, <1>13
       DEF Next

-----------------------------------------------------------------------------
(* The saves *)

\* What becomes of a request leaves what it sends alone.
LEMMA LikeHolds ==
    ASSUME NEW k, NEW s, Holds(k, s), NEW t \in Saves(k),
           t.what = s.what, t.spec = s.spec, t.entry = s.entry, t.base = s.base
    PROVE  Holds(k, t)
BY DEF Holds

LEMMA HeardHolds ==
    ASSUME NEW s, Holds(kind, s), ReadIsOld(s), NEW h \in {"page", "tab", "none"}
    PROVE  Holds(kind, [s EXCEPT !.heard = h]) /\ ReadIsOld([s EXCEPT !.heard = h])
<1>1. PICK t \in Saves(kind) : t = [s EXCEPT !.heard = h]
    BY DEF Holds, Saves
<1>2. /\ t.what = s.what /\ t.spec = s.spec /\ t.entry = s.entry /\ t.base = s.base
      /\ t.at = s.at /\ t.got = s.got /\ t.ns = s.ns
    BY <1>1 DEF Holds, Saves
<1> QED
    BY <1>1, <1>2, LikeHolds DEF ReadIsOld

LEMMA DoneHolds ==
    ASSUME NEW s, Holds(kind, s), NEW answer \in BOOLEAN
    PROVE  /\ Holds(kind, [s EXCEPT !.at = "done", !.ok = answer])
           /\ [s EXCEPT !.at = "done", !.ok = answer].at = "done"
<1>1. PICK d \in Saves(kind) : d = [s EXCEPT !.at = "done"]
    BY DEF Holds, Saves
<1>2. /\ d.what = s.what /\ d.spec = s.spec /\ d.entry = s.entry /\ d.base = s.base
      /\ d.at = "done"
    BY <1>1 DEF Holds, Saves
<1>3. PICK t \in Saves(kind) : t = [d EXCEPT !.ok = answer]
    BY DEF Saves
<1>4. /\ t.what = d.what /\ t.spec = d.spec /\ t.entry = d.entry /\ t.base = d.base
      /\ t.at = d.at
    BY <1>3 DEF Saves
<1> QED
    BY <1>1, <1>2, <1>3, <1>4, LikeHolds

LEMMA ReadHolds ==
    ASSUME NEW s, Holds(kind, s), NEW res \in Resources(kind), res = stored[s.ns]
    PROVE  /\ Holds(kind, [s EXCEPT !.at = "read", !.got = res])
           /\ ReadIsOld([s EXCEPT !.at = "read", !.got = res])
<1>1. PICK d \in Saves(kind) : d = [s EXCEPT !.at = "read"]
    BY DEF Holds, Saves
<1>2. /\ d.what = s.what /\ d.spec = s.spec /\ d.entry = s.entry /\ d.base = s.base
      /\ d.ns = s.ns
    BY <1>1 DEF Holds, Saves
<1>3. PICK t \in Saves(kind) : t = [d EXCEPT !.got = res]
    BY DEF Saves
<1>4. /\ t.what = d.what /\ t.spec = d.spec /\ t.entry = d.entry /\ t.base = d.base
      /\ t.ns = d.ns /\ t.got = res
    BY <1>3 DEF Saves
<1> QED
    BY <1>1, <1>2, <1>3, <1>4, LikeHolds DEF ReadIsOld

\* What was read gets no newer.
LEMMA OldStays ==
    ASSUME ShellInv, StoredGrows, NEW s, Holds(kind, s), ReadIsOld(s)
    PROVE  ReadIsOld(s)'
<1>1. s.ns \in Namespaces /\ s.got.rev \in Nat
    BY DEF Holds, Saves, Resources
<1>2. stored[s.ns].rev \in Nat /\ stored'[s.ns].rev \in Nat
    BY <1>1 DEF ShellInv, StoredGrows, Resources
<1> QED
    BY <1>1, <1>2 DEF ReadIsOld, StoredGrows

\* The requests after a step are those before, whoever hears their answers, or
\* ones that hold by themselves.
LEMMA SavesStay ==
    ASSUME ShellInv, SavesInv, StoredGrows, kind' = kind,
           \A t \in saves' :
              \/ t \in saves
              \/ \E s \in saves : \E h \in {"page", "tab", "none"} : t = [s EXCEPT !.heard = h]
              \/ Holds(kind, t) /\ ReadIsOld(t)
    PROVE  SavesInv'
<1> SUFFICES ASSUME NEW t \in saves' PROVE Holds(kind, t) /\ ReadIsOld(t)'
    BY DEF SavesInv, Holds, Saves, Entered, CopiesRest, EditorStates, Drafts, Items
<1>1. Holds(kind, t) /\ ReadIsOld(t)
    BY HeardHolds DEF SavesInv
<1> QED
    BY <1>1, OldStays

LEMMA OrphansHeard ==
    ASSUME NEW S, NEW t \in Orphaned(S) \cup Deserted(S)
    PROVE  \E s \in S : \E h \in {"page", "tab", "none"} : t = [s EXCEPT !.heard = h]
<1>1. CASE t \in Deserted(S)
    BY <1>1 DEF Deserted
<1>2. ASSUME NEW s \in S, t = Left(s)
      PROVE  \E h \in {"page", "tab", "none"} : t = [s EXCEPT !.heard = h]
    <2>1. PICK h \in {"tab", "none"} :
              h = IF s.what = "delete" /\ s.heard # "none" THEN "tab" ELSE "none"
        OBVIOUS
    <2> QED
        BY <1>2, <2>1 DEF Left
<1> QED
    BY <1>1, <1>2 DEF Orphaned

LEMMA ConcludedHolds ==
    ASSUME ShellInv, SavesInv, StoredGrows, kind' = kind, NEW s \in saves,
           NEW answer \in BOOLEAN, Concludes(s, answer)
    PROVE  SavesInv'
<1> DEFINE done == [s EXCEPT !.at = "done", !.ok = answer]
<1>1. Holds(kind, done) /\ ReadIsOld(done)
    <2>1. Holds(kind, s)
        BY DEF SavesInv
    <2>2. Holds(kind, done) /\ done.at = "done"
        BY <2>1, DoneHolds, Zenon
    <2> HIDE DEF done
    <2> QED
        BY <2>2 DEF ReadIsOld
<1>2. saves' \subseteq saves \cup {done}
    BY DEF Concludes
<1> HIDE DEF done
<1> QED
    BY <1>1, <1>2, SavesStay

LEMMA CarriedOutHolds ==
    ASSUME ShellInv, SavesInv, StoredGrows, NEW s \in saves, CarriedOut(s)
    PROVE  SavesInv'
<1>1. PICK answer \in BOOLEAN : answer = Accepted(s)
    BY Zenon DEF Accepted
<1> QED
    BY <1>1, ConcludedHolds DEF CarriedOut

LEMMA HandlerReadsHolds ==
    ASSUME ShellInv, SavesInv, StoredGrows, NEW s \in saves, HandlerReads(s)
    PROVE  SavesInv'
<1>1. Holds(kind, s) /\ stored[s.ns] \in Resources(kind)
    BY DEF SavesInv, Holds, Saves, ShellInv
<1>2. CASE Concludes(s, FALSE)
    BY <1>2, ConcludedHolds DEF HandlerReads
<1>3. CASE saves' = (saves \ {s}) \cup {[s EXCEPT !.at = "read", !.got = stored[s.ns]]}
    <2> DEFINE read == [s EXCEPT !.at = "read", !.got = stored[s.ns]]
    <2>1. Holds(kind, read) /\ ReadIsOld(read)
        <3>1. PICK res \in Resources(kind) : res = stored[s.ns]
            BY <1>1
        <3> QED
            BY <1>1, <3>1, ReadHolds, Zenon
    <2>2. saves' \subseteq saves \cup {read} /\ kind' = kind
        BY <1>3 DEF HandlerReads
    <2> HIDE DEF read
    <2> QED
        BY <2>1, <2>2, SavesStay
<1> QED
    BY <1>2, <1>3 DEF HandlerReads

\* A save that the user makes sends the draft, which copies the item shown.
LEMMA SubmitsHolds ==
    ASSUME ShellInv, FetchInv, EditorInv, SavesInv, StoredGrows,
           handleDelete \/ handleReconcile \/ save
    PROVE  SavesInv'
<1>1. /\ choice.ns \in Namespaces /\ view.item \in Items(kind) /\ draft.spec \in Drafts(kind)
      /\ used.user \in Nat /\ Absent(0) \in Resources(kind)
    BY Blanks DEF ShellInv, ChoiceStates, FetchInv, Views, EditorInv, EditorStates
<1>2. \A what \in {"delete", "reconcile"} :
          LET r == Request(what, NoSpec, NoDraft, Nothing)
          IN  Holds(kind, r) /\ ReadIsOld(r)
    BY <1>1, Blanks DEF Request, Holds, Saves, ReadIsOld
<1>3. Ready => LET r == Request("save", Sent, draft, view.item)
               IN  Holds(kind, r) /\ ReadIsOld(r)
    BY <1>1 DEF Request, Holds, Saves, Sent, EditorInv, Ready, ReadIsOld
<1>4. kind' = kind
    BY DEF handleDelete, handleReconcile, save, Submits
<1>5. PICK r : saves' = saves \cup {r} /\ Holds(kind, r) /\ ReadIsOld(r)
    BY <1>2, <1>3 DEF handleDelete, handleReconcile, save, Submits
<1> QED
    BY <1>4, <1>5, SavesStay

LEMMA NextSaves == IInv /\ [Next]_vars => SavesInv'
<1> SUFFICES ASSUME IInv, [Next]_vars PROVE SavesInv'
    OBVIOUS
<1> USE DEF IInv
<1>0. kind' = kind /\ StoredGrows
    BY NextShell, NextStores DEF ShellStep
<1>1. CASE \E s \in saves : HandlerReads(s) \/ CarriedOut(s)
    BY <1>0, <1>1, CarriedOutHolds, HandlerReadsHolds
<1>2. CASE handleDelete \/ handleReconcile \/ save
    BY <1>0, <1>2, SubmitsHolds
<1>3. CASE saves' \subseteq saves
    BY <1>0, <1>3, SavesStay
<1>4. CASE \E get \in gets : Read(get) \/ Arrives(get) \/ FetchFails(get)
    BY <1>3, <1>4 DEF Read, Arrives, FetchFails, Fails
<1>5. CASE fetchCanIProxy \/ CanIFails
    BY <1>3, <1>5 DEF fetchCanIProxy, CanIFails, CanI
<1>6. ASSUME NEW S \in SUBSET saves, saves' \subseteq Orphaned(S) \cup Deserted(S)
      PROVE  SavesInv'
    BY <1>0, <1>6, SavesStay, OrphansHeard
<1>7. ASSUME NEW s \in saves, Answered(s) PROVE SavesInv'
    BY <1>3, <1>6, <1>7 DEF Answered
<1>8. ASSUME NEW s \in saves, RequestFails(s) PROVE SavesInv'
    <2>1. saves' \subseteq saves \cup {[s EXCEPT !.heard = "none"]}
        BY <1>8 DEF RequestFails
    <2> QED
        BY <1>0, <2>1, SavesStay
<1>9. CASE \/ \E n \in Namespaces : selectEntity(n) \/ Others(n)
           \/ Refresh
    <2>1. CASE \E n \in Namespaces : selectEntity(n)
        BY <1>3, <2>1, ShowsStays DEF selectEntity
    <2>2. CASE (\E n \in Namespaces : Others(n)) \/ Refresh
        BY <1>3, <2>2, Zenon DEF Others, Refresh
    <2> QED
        BY <1>9, <2>1, <2>2
<1>13. ASSUME NEW listing \in SUBSET Entities, NEW named \in SUBSET Groups,
              EntitiesArrive(listing, named)
       PROVE  SavesInv'
    BY <1>3, <1>13, EntitiesBring, ShowsStays
<1>10. CASE Reload \/ OpenDetail \/ Back
    BY <1>6, <1>10 DEF Reload, OpenDetail, Back
<1>11. CASE \E x \in DOMAIN Editable(kind) : \E v \in Entries(kind, x) : edit(x, v)
    BY <1>3, <1>11 DEF edit
<1>12. CASE UNCHANGED vars
    BY <1>3, <1>12 DEF vars
<1> QED
    BY <1>1, <1>2, <1>4, <1>5, <1>7, <1>8, <1>9, <1>10, <1>11, <1>12, <1>13 DEF Next

-----------------------------------------------------------------------------
(* The theorems *)

\* The invariant of every behaviour of the pages.
THEOREM Inductive == Spec => []IInv
<1>1. Init => IInv
    BY Starts
<1>2. IInv /\ [Next]_vars => IInv'
    BY ShellKept, NextFetches, NextDrafts, NextSaves DEF IInv
<1> QED
    BY <1>1, <1>2, PTL DEF Spec

\* A page that neither loads nor reports an error shows the resource of the
\* namespace chosen, no older than when the page last asked for it, whatever the
\* order of the answers and of what the user does (useK8sResource and
\* useK8sResourceList of hooks/k8s.ts).
THEOREM SettledPagesAreFresh == Spec => []SettledIsFresh
<1>1. IInv => SettledIsFresh
    BY DEF IInv, FetchInv
<1> QED
    BY <1>1, Inductive, PTL

\* Once the user has picked an entity, the pages are about the one picked last,
\* over every reload and whatever the lists of entities name: what was picked is in
\* sessionStorage, and what is there counts as picked (useEntityNamespace).
THEOREM PicksStay == Spec => []PickedStays
<1>1. IInv => PickedStays
    BY DEF IInv, ShellInv, PickKept, PickedStays
<1> QED
    BY <1>1, Inductive, PTL

\* A save that is carried out: what is stored of a field is what SavesField says,
\* with what the handler read, if it reads, still the version stored.
LEMMA SavedFields ==
    ASSUME IInv, NEW s \in saves, SaveDone(s)
    PROVE  /\ Holds(kind, s) /\ s.what = "save" /\ s.spec \in Drafts(kind)
           /\ \A x \in Fields[kind] :
                 SavesField(kind, s.spec, stored[s.ns].spec, stored'[s.ns].spec, x)
<1> USE DEF IInv
<1>1. Holds(kind, s) /\ ReadIsOld(s) /\ s.what = "save"
    BY DEF SavesInv, SaveDone
<1>2. s.ns \in Namespaces /\ s.spec \in Drafts(kind) /\ s.got.rev \in Nat
    BY <1>1 DEF Holds, Saves, Resources
<1>3. stored[s.ns].spec \in Specs(kind) /\ stored[s.ns].rev \in Nat
    BY <1>2 DEF ShellInv, Resources
<1>4. Current(s) = stored[s.ns]
    BY <1>1, <1>2, <1>3 DEF Current, SaveDone, Accepted, CarriedOut, ReadIsOld
<1> DEFINE saved == SavedAs(kind, s.spec, stored[s.ns].spec)
<1>5. saved.ok /\ Saved(s) = saved
    BY <1>1, <1>4 DEF SaveDone, Accepted, Saved
<1>6. \A x \in Fields[kind] : SavesField(kind, s.spec, stored[s.ns].spec, saved.spec, x)
    BY <1>2, <1>3, <1>5, SaveEffects, KindsOffered
<1>7. stored'[s.ns].spec = saved.spec
    <2>1. stored' = [stored EXCEPT ![s.ns] = Written(s)]
        BY DEF SaveDone, CarriedOut
    <2>2. stored'[s.ns] = Written(s)
        BY <1>2, <2>1 DEF ShellInv
    <2>3. Written(s).spec = saved.spec
        BY <1>1, <1>5 DEF Written, Present
    <2> QED
        BY <2>2, <2>3
<1> QED
    BY <1>1, <1>2, <1>6, <1>7

\* A save that is answered with success has stored what was entered, whatever others
\* have stored since the page showed the resource, in every field but those that the
\* kind's route cannot empty or does not know (GenericSpecEditor, the update handlers).
THEOREM EditsTakeEffect == Spec => EditTakesEffect
<1>1. ASSUME IInv, NEW s \in saves, SaveDone(s),
             NEW x \in s.entry.touched \ (CannotEmpty(kind) \cup Ignored(kind))
      PROVE  Same(stored'[s.ns].spec[x], s.entry.spec[x])
    <2>1. Holds(kind, s) /\ s.what = "save"
        BY <1>1, SavedFields
    <2>2. s.spec = s.entry.spec /\ x \in DOMAIN Editable(kind) /\ s.spec[x] \in Entries(kind, x)
        BY <1>1, <2>1 DEF Holds, Saves, EditorStates, Entered
    <2>3. x \in Fields[kind]
        BY <1>1, <2>2, EntriesPerKind, KindsOffered DEF IInv
    <2> QED
        BY <1>1, <2>2, <2>3, SavedFields DEF SavesField
<1>2. IInv /\ [Next]_vars =>
          [\A s \in saves : SaveDone(s) =>
              \A x \in s.entry.touched \ (CannotEmpty(kind) \cup Ignored(kind)) :
                  Same(stored'[s.ns].spec[x], s.entry.spec[x])]_vars
    BY <1>1
<1> QED
    BY <1>2, Inductive, PTL DEF Spec, EditTakesEffect

\* And it has changed nothing that the user did not touch (the drafts that copy the
\* whole spec and go back whole).
THEOREM TheRestStays == Spec => RestIsKept
<1>1. ASSUME IInv, NEW s \in saves, SavedOnItsBase(s),
             NEW x \in Fields[kind] \ (s.entry.touched \cup Ignored(kind))
      PROVE  Same(stored'[s.ns].spec[x], stored[s.ns].spec[x])
    <2>1. /\ Holds(kind, s) /\ s.what = "save" /\ s.base.res = stored[s.ns]
          /\ SaveDone(s)
        BY <1>1, SavedFields DEF SavedOnItsBase
    <2>2. s.spec[x] = stored[s.ns].spec[x]
        BY <1>1, <2>1 DEF Holds, CopiesRest
    <2> QED
        BY <1>1, <2>1, <2>2, SavedFields DEF SavesField
<1>2. IInv /\ [Next]_vars =>
          [\A s \in saves : SavedOnItsBase(s) =>
              \A x \in Fields[kind] \ (s.entry.touched \cup Ignored(kind)) :
                  Same(stored'[s.ns].spec[x], stored[s.ns].spec[x])]_vars
    BY <1>1
<1> QED
    BY <1>2, Inductive, PTL DEF Spec, RestIsKept

\* The types of the pages' state, with at most one fetch that counts.
THEOREM TypeCorrect == Spec => []TypeOK
<1>1. ASSUME IInv PROVE TypeOK
    <2> USE <1>1 DEF IInv
    <2>1. Drafts(kind) \subseteq [Fields[kind] -> DraftValues]
          /\ Specs(kind) \subseteq [Fields[kind] -> DraftValues]
        BY DEF Drafts, Specs, StoredValues, DraftOnly, DraftValues, Values, Proper
    <2>2. \A r \in Resources(kind) : IsResource(r)
        BY <2>1 DEF Resources, IsResource
    <2>3. Cardinality(gets) <= 1
        <3>1. CASE gets = {}
            BY <3>1, FS_EmptySet
        <3>2. CASE gets # {}
            <4>1. PICK g : gets = {g}
                BY <3>2 DEF FetchInv
            <4> QED
                BY <4>1, FS_Singleton
        <3> QED
            BY <3>1, <3>2
    <2>4. \A n \in Namespaces : IsResource(stored[n])
        BY <2>2 DEF ShellInv
    <2>5. view.item.ns \in Namespaces \cup {"none"} /\ IsResource(view.item.res)
        BY <2>2 DEF FetchInv, Views, Items
    <2>6. /\ draft.spec \in [Fields[kind] -> DraftValues]
          /\ draft.touched \subseteq DOMAIN Editable(kind)
          /\ page = "list" => draft = NoDraft
        BY <2>1 DEF EditorInv, EditorStates
    <2>7. \A s \in saves : s.spec \in [Fields[kind] -> DraftValues]
        <3>1. \A s \in saves : Holds(kind, s)
            BY DEF SavesInv
        <3>2. \A s \in Saves(kind) : s.spec \in Drafts(kind)
            BY DEF Saves
        <3> QED
            BY <2>1, <3>1, <3>2 DEF Holds
    <2> QED
        BY <2>3, <2>4, <2>5, <2>6, <2>7 DEF TypeOK, ShellInv, PickKept, ChoiceStates
<1> QED
    BY <1>1, Inductive, PTL

-----------------------------------------------------------------------------
(* Orders *)

LEMMA NumberingIsOne ==
    ASSUME NEW S, IsFiniteSet(S)
    PROVE  Numbering(S) \in [S -> 1 .. Cardinality(S)] /\ IsInjective(Numbering(S))
<1> DEFINE n == Cardinality(S)
<1>1. n \in Nat /\ ExistsBijection(1 .. n, S)
    BY FS_CardinalityType
<1>2. PICK f : f \in Bijection(1 .. n, S)
    BY <1>1 DEF ExistsBijection
<1>3. /\ f \in [1 .. n -> S]
      /\ \A a, b \in 1 .. n : f[a] = f[b] => a = b
      /\ \A x \in S : \E i \in 1 .. n : f[i] = x
    BY <1>2, Zenon DEF Bijection, Injection, Surjection, IsInjective
<1> DEFINE g == [x \in S |-> CHOOSE i \in 1 .. n : f[i] = x]
<1>4. \A x \in S : g[x] \in 1 .. n /\ f[g[x]] = x
    BY <1>3
<1>5. g \in [S -> 1 .. n] /\ IsInjective(g)
    <2>1. g \in [S -> 1 .. n]
        BY <1>4
    <2> HIDE DEF g
    <2> QED
        BY <1>4, <2>1 DEF IsInjective
<1> QED
    BY <1>5, Zenon DEF Numbering

\* Who comes before more comes later.
LEMMA MoreBelow ==
    ASSUME NEW S, IsFiniteSet(S), NEW f \in [S -> Nat], NEW x \in S, NEW y \in S, f[x] < f[y]
    PROVE  Cardinality({z \in S : f[z] < f[x]}) < Cardinality({z \in S : f[z] < f[y]})
<1> DEFINE X == {z \in S : f[z] < f[x]}
           Y == {z \in S : f[z] < f[y]}
<1>1. X \in SUBSET Y /\ x \in Y /\ x \notin X
    BY SMT
<1>2. IsFiniteSet(Y)
    BY FS_Subset
<1> HIDE DEF X, Y
<1>3. IsFiniteSet(X) /\ Cardinality(X) <= Cardinality(Y) /\ Cardinality(X) # Cardinality(Y)
    BY <1>1, <1>2, FS_Subset
<1>4. Cardinality(X) \in Nat /\ Cardinality(Y) \in Nat
    BY <1>2, <1>3, FS_CardinalityType
<1> QED
    BY <1>3, <1>4 DEF X, Y

\* Ranked puts all the elements of a set in a row, each once, by their numbers.
LEMMA RankedInOrder ==
    ASSUME NEW S, IsFiniteSet(S), NEW f \in [S -> Nat], IsInjective(f)
    PROVE  /\ Ranked(S, f) \in [1 .. Cardinality(S) -> S]
           /\ \A x \in S : \E i \in 1 .. Cardinality(S) : Ranked(S, f)[i] = x
           /\ \A i, j \in 1 .. Cardinality(S) : i < j => f[Ranked(S, f)[i]] < f[Ranked(S, f)[j]]
<1> DEFINE n == Cardinality(S)
           Below(x) == {y \in S : f[y] < f[x]}
           rank == [x \in S |-> Cardinality(Below(x)) + 1]
           s == Ranked(S, f)
<1>1. n \in Nat /\ IsFiniteSet(1 .. n) /\ Cardinality(1 .. n) = n
    BY FS_CardinalityType, FS_Interval
<1>2. \A x \in S : Cardinality(Below(x)) \in Nat /\ Cardinality(Below(x)) < n
    <2> TAKE x \in S
    <2>1. Below(x) \in SUBSET S /\ x \notin Below(x)
        BY SMT
    <2> HIDE DEF Below
    <2>2. IsFiniteSet(Below(x)) /\ Cardinality(Below(x)) <= n /\ Cardinality(Below(x)) # n
        BY <2>1, FS_Subset
    <2> QED
        BY <1>1, <2>2, FS_CardinalityType
<1>3. rank \in [S -> 1 .. n]
    BY <1>1, <1>2
<1>4. \A x, y \in S : f[x] < f[y] => rank[x] < rank[y]
    <2> SUFFICES ASSUME NEW x \in S, NEW y \in S, f[x] < f[y] PROVE rank[x] < rank[y]
        OBVIOUS
    <2>1. Cardinality(Below(x)) < Cardinality(Below(y))
        BY MoreBelow
    <2> HIDE DEF Below
    <2> QED
        BY <1>2, <2>1
<1>5. \A x, y \in S : rank[x] = rank[y] => x = y
    <2> TAKE x, y \in S
    <2>1. f[x] \in Nat /\ f[y] \in Nat /\ (f[x] = f[y] => x = y)
        BY DEF IsInjective
    <2>2. rank[x] \in Nat /\ rank[y] \in Nat
        BY <1>2
    <2> HIDE DEF rank
    <2> QED
        BY <1>4, <2>1, <2>2
<1>6. \A i \in 1 .. n : \E x \in S : rank[x] = i
    <2> HIDE DEF rank, n
    <2>1. rank \in Injection(S, 1 .. n)
        BY <1>3, <1>5 DEF Injection, IsInjective
    <2>2. rank \in Surjection(S, 1 .. n)
        BY <1>1, <2>1, FS_Injection DEF n
    <2> QED
        BY <2>2, Zenon DEF Surjection
<1>7. \A i \in 1 .. n : s[i] \in S /\ rank[s[i]] = i
    <2> TAKE i \in 1 .. n
    <2>1. s[i] = CHOOSE x \in S : Cardinality(Below(x)) = i - 1
        BY DEF Ranked
    <2>2. \E x \in S : Cardinality(Below(x)) = i - 1
        <3>1. PICK x \in S : rank[x] = i
            BY <1>6
        <3> HIDE DEF Below
        <3>2. Cardinality(Below(x)) = i - 1
            BY <1>2, <3>1
        <3> QED
            BY <3>2
    <2>3. s[i] \in S /\ Cardinality(Below(s[i])) = i - 1
        <3> HIDE DEF Below, s
        <3> QED
            BY <2>1, <2>2
    <2> QED
        BY <2>3
<1>8. s \in [1 .. n -> S]
    <2> DEFINE at(i) == CHOOSE x \in S : Cardinality({y \in S : f[y] < f[x]}) = i - 1
    <2>1. s = [i \in 1 .. n |-> at(i)]
        BY DEF Ranked
    <2> HIDE DEF at, s, n, rank
    <2>2. \A i \in 1 .. n : at(i) \in S
        BY <1>7, <2>1
    <2> QED
        BY <2>1, <2>2
<1> HIDE DEF s, rank, n
<1>9. \A x \in S : \E i \in 1 .. n : s[i] = x
    BY <1>3, <1>5, <1>7
<1>10. \A i, j \in 1 .. n : i < j => f[s[i]] < f[s[j]]
    <2> TAKE i, j \in 1 .. n
    <2>1. f[s[i]] \in Nat /\ f[s[j]] \in Nat
        BY <1>7
    <2>2. rank[s[i]] = i /\ rank[s[j]] = j /\ s[i] \in S /\ s[j] \in S
        BY <1>7
    <2>3. f[s[i]] = f[s[j]] => s[i] = s[j]
        BY <2>2 DEF IsInjective
    <2> QED
        BY <1>1, <1>4, <2>1, <2>2, <2>3 DEF n
<1> QED
    BY <1>8, <1>9, <1>10 DEF s, n

\* What distinguishes the numbers of two entities is more than their nodes' own.
LEMMA Multiples ==
    ASSUME NEW a \in Nat, NEW b \in Nat, NEW m \in Nat, a < b
    PROVE  a * m + m <= b * m
<1>1. PICK d \in Nat : b = a + 1 + d
    <2>1. b - a - 1 \in Nat /\ b = a + 1 + (b - a - 1)
        OBVIOUS
    <2> QED
        BY <2>1
<1>2. b * m = a * m + m + d * m
    BY <1>1
<1>3. d * m \in Nat /\ a * m \in Nat
    OBVIOUS
<1> QED
    BY <1>2, <1>3

\* A node's rank is a place among the entities.
LEMMA OwnerRankIsNat ==
    ASSUME NEW entities, IsFiniteSet(entities), NEW n
    PROVE  OwnerRank(n, entities) \in Nat
<1> DEFINE owners == {e \in entities : n = e \/ n[2] = <<"entity", e[3]>>}
<1>1. Cardinality(entities) \in Nat
    BY FS_CardinalityType
<1>2. Numbering(entities) \in [entities -> 1 .. Cardinality(entities)]
    BY NumberingIsOne
<1>3. ASSUME owners # {} PROVE (CHOOSE e \in owners : TRUE) \in entities
    BY <1>3
<1>4. ASSUME owners # {} PROVE Numbering(entities)[CHOOSE e \in owners : TRUE] \in Nat
    <2> HIDE DEF owners
    <2> QED
        BY <1>1, <1>2, <1>3, <1>4
<1> QED
    BY <1>1, <1>4 DEF OwnerRank

\* A layer is each of its nodes once.
LEMMA SortedInOrder ==
    ASSUME NEW nodes, IsFiniteSet(nodes), NEW entities, IsFiniteSet(entities)
    PROVE  /\ Sorted(nodes, entities) \in [1 .. Cardinality(nodes) -> nodes]
           /\ Range(Sorted(nodes, entities)) = nodes
           /\ IsInjective(Sorted(nodes, entities))
<1> DEFINE m == Cardinality(nodes) + 1
           byName == Numbering(nodes)
           number == [n \in nodes |-> OwnerRank(n, entities) * m + byName[n]]
           s == Sorted(nodes, entities)
<1>1. Cardinality(nodes) \in Nat /\ m \in Nat
    BY FS_CardinalityType
<1>2. byName \in [nodes -> 1 .. Cardinality(nodes)] /\ IsInjective(byName)
    BY NumberingIsOne
<1>3. \A n \in nodes : /\ OwnerRank(n, entities) \in Nat /\ OwnerRank(n, entities) * m \in Nat
                       /\ byName[n] \in Nat /\ 0 < byName[n] /\ byName[n] < m
    <2> TAKE n \in nodes
    <2>1. OwnerRank(n, entities) \in Nat
        BY OwnerRankIsNat
    <2>2. byName[n] \in 1 .. Cardinality(nodes)
        BY <1>2
    <2> HIDE DEF byName
    <2>3. OwnerRank(n, entities) * m \in Nat
        <3> HIDE DEF m
        <3> QED BY <1>1, <2>1
    <2> QED
        BY <1>1, <2>1, <2>2, <2>3
<1>4. number \in [nodes -> Nat]
    BY <1>3
<1>5. ASSUME NEW a \in nodes, NEW b \in nodes, number[a] = number[b] PROVE a = b
    <2> DEFINE ra == OwnerRank(a, entities)
               rb == OwnerRank(b, entities)
    <2>1. ra * m + byName[a] = rb * m + byName[b]
        BY <1>5
    <2>2. ~ (ra < rb) /\ ~ (rb < ra)
        <3>1. ra < rb => ra * m + m <= rb * m
            BY <1>1, <1>3, Multiples
        <3>2. rb < ra => rb * m + m <= ra * m
            BY <1>1, <1>3, Multiples
        <3>3. /\ ra * m \in Nat /\ rb * m \in Nat /\ byName[a] \in Nat /\ byName[b] \in Nat
              /\ 0 < byName[a] /\ byName[a] < m /\ 0 < byName[b] /\ byName[b] < m
            BY <1>3
        <3> DEFINE pa == ra * m
                   pb == rb * m
        <3> HIDE DEF ra, rb, m, byName, pa, pb
        <3> QED
            BY <1>1, <2>1, <3>1, <3>2, <3>3 DEF pa, pb
    <2>3. ra \in Nat /\ rb \in Nat
        BY <1>3
    <2>4. ra = rb
        <3> HIDE DEF ra, rb
        <3> QED BY <2>2, <2>3
    <2>5. byName[a] = byName[b]
        <3> DEFINE p == ra * m
        <3>1. p \in Nat /\ byName[a] \in Nat /\ byName[b] \in Nat
            BY <1>3
        <3>2. p + byName[a] = p + byName[b]
            BY <2>1, <2>4
        <3> HIDE DEF p, byName
        <3> QED BY <3>1, <3>2
    <2> QED
        BY <1>2, <2>5 DEF IsInjective
<1>6. IsInjective(number)
    <2> HIDE DEF number
    <2> QED BY <1>4, <1>5 DEF IsInjective
<1>7. s = Ranked(nodes, number)
    BY DEF Sorted
<1> HIDE DEF number, s, m, byName
<1>8. /\ s \in [1 .. Cardinality(nodes) -> nodes]
      /\ \A x \in nodes : \E i \in 1 .. Cardinality(nodes) : s[i] = x
      /\ \A i, j \in 1 .. Cardinality(nodes) : i < j => number[s[i]] < number[s[j]]
    BY <1>4, <1>6, <1>7, RankedInOrder
<1>9. Range(s) = nodes
    BY <1>8 DEF Range
<1>10. IsInjective(s)
    <2> SUFFICES ASSUME NEW i \in 1 .. Cardinality(nodes), NEW j \in 1 .. Cardinality(nodes),
                        s[i] = s[j], i < j
                 PROVE  FALSE
        BY <1>1, <1>8 DEF IsInjective
    <2>1. number[s[i]] \in Nat /\ number[s[i]] < number[s[i]]
        BY <1>4, <1>8
    <2> QED
        BY <2>1
<1> QED
    BY <1>8, <1>9, <1>10 DEF s

-----------------------------------------------------------------------------
(* The nodes of the graph *)

Scopes == {Everything} \cup TenantNamespaces

\* The values of a function of a finite set are finitely many.
LEMMA FiniteValues ==
    ASSUME NEW S, IsFiniteSet(S), NEW f, DOMAIN f = S
    PROVE  IsFiniteSet({f[x] : x \in S})
<1> DEFINE g == [x \in S |-> f[x]]
<1>1. g \in Surjection(S, {f[x] : x \in S})
    BY Zenon DEF Surjection
<1> QED
    BY <1>1, FS_Surjection

\* Of what is listed the nodes are finitely many, and so are the names in references.
LEMMA FiniteNames ==
    ASSUME NEW items \in SUBSET Catalogue
    PROVE  /\ IsFiniteSet({Node(r) : r \in items})
           /\ IsFiniteSet(UNION {{p[2] : p \in r.refs} : r \in items})
<1>1. IsFiniteSet(items) /\ \A r \in items : IsFiniteSet(r.refs)
    BY CatalogueAssumption, FS_Subset
<1>2. IsFiniteSet({Node(r) : r \in items})
    <2> DEFINE f == [r \in items |-> Node(r)]
    <2>1. IsFiniteSet({f[r] : r \in items})
        BY <1>1, FiniteValues
    <2>2. {f[r] : r \in items} = {Node(r) : r \in items}
        OBVIOUS
    <2> QED
        BY <2>1, <2>2
<1>3. \A r \in items : IsFiniteSet({p[2] : p \in r.refs})
    <2> TAKE r \in items
    <2> DEFINE f == [p \in r.refs |-> p[2]]
    <2>1. IsFiniteSet({f[p] : p \in r.refs})
        BY <1>1, FiniteValues
    <2>2. {f[p] : p \in r.refs} = {p[2] : p \in r.refs}
        OBVIOUS
    <2> QED
        BY <2>1, <2>2
<1>4. IsFiniteSet({{p[2] : p \in r.refs} : r \in items})
    <2> DEFINE f == [r \in items |-> {p[2] : p \in r.refs}]
    <2>1. IsFiniteSet({f[r] : r \in items})
        BY <1>1, FiniteValues
    <2>2. {f[r] : r \in items} = {{p[2] : p \in r.refs} : r \in items}
        OBVIOUS
    <2> QED
        BY <2>1, <2>2
<1>5. \A T \in {{p[2] : p \in r.refs} : r \in items} : IsFiniteSet(T)
    BY <1>3
<1> QED
    BY <1>2, <1>4, <1>5, FS_UNION

\* The names a resource's fields hold are names of its references.
LEMMA RefsAreNames ==
    ASSUME NEW r, NEW field
    PROVE  Refs(r, field) \subseteq {p[2] : p \in r.refs}
BY DEF Refs

\* The graph has finitely many nodes.
LEMMA NodesAreFinite ==
    ASSUME NEW items \in SUBSET Catalogue, NEW scope \in Scopes
    PROVE  IsFiniteSet(AllNodes(items, scope)) /\ IsFiniteSet(EntityNodes(items, scope))
<1> DEFINE own == {Node(r) : r \in items}
           names == UNION {{p[2] : p \in r.refs} : r \in items}
           site == [x \in names |-> <<"CloudInfrastructure", Platform, x>>]
           sites == {site[x] : x \in names}
           entity == {<<"Entity", scope, scope[2]>>}
<1>1. IsFiniteSet(own) /\ IsFiniteSet(names)
    BY FiniteNames
<1>2. IsFiniteSet(sites)
    BY <1>1, FiniteValues
<1>3. IsFiniteSet(own \cup sites \cup entity)
    <2> HIDE DEF own, sites, entity
    <2>1. IsFiniteSet(own \cup sites)
        BY <1>1, <1>2, FS_Union
    <2>2. IsFiniteSet(entity)
        BY FS_Singleton DEF entity
    <2> QED
        BY <2>1, <2>2, FS_Union
<1>4. EntityNodes(items, scope) \subseteq own \cup entity
    BY DEF EntityNodes, OfKind
<1>5. SiteNodes(items, scope) \subseteq own \cup sites
    <2> SUFFICES ASSUME NEW n \in SiteNodes(items, scope) PROVE n \in own \cup sites
        OBVIOUS
    <2> DEFINE pointing == OfKind(items, CloudKinds \cup (IF scope = Everything THEN {"CloudGateway"} ELSE {}))
    <2>1. CASE n \in {Node(r) : r \in OfKind(items, {"CloudInfrastructure"})}
        BY <2>1 DEF OfKind
    <2>2. CASE \E x \in UNION {Refs(r, "cloudRef") : r \in pointing} :
                 n = <<"CloudInfrastructure", Platform, x>>
        <3>1. PICK r \in pointing : \E x \in Refs(r, "cloudRef") : n = <<"CloudInfrastructure", Platform, x>>
            BY <2>2
        <3> PICK x \in Refs(r, "cloudRef") : n = <<"CloudInfrastructure", Platform, x>>
            BY <3>1
        <3>2. r \in items /\ x \in {p[2] : p \in r.refs}
            BY <3>1, RefsAreNames DEF OfKind
        <3>3. x \in names
            BY <3>2
        <3> HIDE DEF names
        <3> QED
            BY <3>3
    <2> HIDE DEF own, sites
    <2> QED
        BY <2>1, <2>2 DEF SiteNodes
<1>6. FabricNodes(items, scope) \subseteq own /\ {Node(r) : r \in OfKind(items, TenantKinds)} \subseteq own
    BY DEF FabricNodes, OfKind
<1> HIDE DEF own, sites, entity
<1>7. /\ AllNodes(items, scope) \in SUBSET (own \cup sites \cup entity)
      /\ EntityNodes(items, scope) \in SUBSET (own \cup sites \cup entity)
    BY <1>4, <1>5, <1>6 DEF AllNodes
<1> QED
    BY <1>3, <1>7, FS_Subset

-----------------------------------------------------------------------------
(* The edges of the graph *)

\* A reference resolves to a node of the kind it names, and but for the platform's
\* kinds to one of its own namespace.
LEMMA ResolvesToNode ==
    ASSUME NEW nodes, NEW sort, NEW ns, NEW name, NEW n \in Resolve(nodes, sort, ns, name)
    PROVE  n \in nodes /\ n[1] = sort /\ (sort \notin PlatformScopedKinds => n[2] = ns)
BY DEF Resolve

\* What an upstream edge may connect.
Upstream(e) ==
  \/ e[1][1] \in {"Team", "Project", "PlatformOpenshift", "CloudAWS", "CloudOSO"}
     /\ e[2][1] = "Assignment" /\ e[1][2] = e[2][2]
  \/ e[1][1] = "HybridFabric" /\ e[2][1] = "CloudInfrastructure"
  \/ e[1][1] = "CloudInfrastructure" /\ e[2][1] \in CloudKinds
  \/ e[1][1] \in CloudKinds /\ e[2][1] = "PlatformOpenshift" /\ e[1][2] = e[2][2]

\* An edge of ownership leads from an entity into its namespace.
Ownership(e) ==
  /\ e[1][1] = "Entity"
  /\ e[2][1] \in CloudKinds \cup {"Team", "PlatformOpenshift", "Assignment"}
  /\ e[2][2] = <<"entity", e[1][3]>>

\* A listed resource of a tenant's kind is a node.
LEMMA TenantNode ==
    ASSUME NEW items, NEW scope, NEW r \in OfKind(items, TenantKinds)
    PROVE  Node(r) \in AllNodes(items, scope) /\ Node(r)[1] = r.kind /\ Node(r)[2] = r.ns
BY DEF AllNodes, Node

\* What the edges of each kind connect.
LEMMA AssignmentEdgesAre ==
    ASSUME NEW items, NEW scope, NEW e \in AssignmentEdges(items, AllNodes(items, scope))
    PROVE  {e[1], e[2]} \subseteq AllNodes(items, scope) /\ Upstream(e)
<1> DEFINE nodes == AllNodes(items, scope)
<1>1. PICK a \in OfKind(items, {"Assignment"}), f \in DOMAIN AssignmentRefKind :
         \E x \in Refs(a, f) : /\ e[1] \in Resolve(nodes, AssignmentRefKind[f], a.ns, x)
                               /\ e[2] = Node(a)
    <2> HIDE DEF nodes
    <2> QED BY DEF AssignmentEdges, nodes
<1>2. PICK x \in Refs(a, f) : e[1] \in Resolve(nodes, AssignmentRefKind[f], a.ns, x)
    BY <1>1
<1>3. AssignmentRefKind[f] \in {"Team", "Project", "PlatformOpenshift", "CloudAWS", "CloudOSO"}
    BY DEF AssignmentRefKind
<1>4. /\ e[1] \in nodes /\ e[1][1] = AssignmentRefKind[f]
      /\ AssignmentRefKind[f] \notin PlatformScopedKinds => e[1][2] = a.ns
    <2> HIDE DEF nodes
    <2> QED BY <1>2, ResolvesToNode
<1>5. e[2] = Node(a) /\ a \in OfKind(items, TenantKinds) /\ a.kind = "Assignment"
    BY <1>1 DEF OfKind, TenantKinds
<1>6. e[2] \in nodes /\ e[2][1] = "Assignment" /\ e[2][2] = a.ns
    BY <1>5, TenantNode
<1> QED
    BY <1>3, <1>4, <1>6 DEF Upstream, PlatformScopedKinds

LEMMA FabricEdgesAre ==
    ASSUME NEW items, NEW scope, NEW e \in FabricEdges(items, scope, AllNodes(items, scope))
    PROVE  /\ {e[1], e[2]} \subseteq AllNodes(items, scope) /\ Upstream(e)
           /\ scope = Everything /\ e[2][1] = "CloudInfrastructure"
<1> DEFINE nodes == AllNodes(items, scope)
<1>1. scope = Everything
    BY DEF FabricEdges
<1>2. PICK g \in OfKind(items, {"CloudGateway"}) :
         \E p \in Refs(g, "fabricRef") \X Refs(g, "cloudRef") :
           /\ e[1] \in Resolve(nodes, "HybridFabric", g.ns, p[1])
           /\ e[2] \in Resolve(nodes, "CloudInfrastructure", g.ns, p[2])
    <2> HIDE DEF nodes
    <2> QED BY <1>1 DEF FabricEdges, nodes
<1> PICK p \in Refs(g, "fabricRef") \X Refs(g, "cloudRef") :
         /\ e[1] \in Resolve(nodes, "HybridFabric", g.ns, p[1])
         /\ e[2] \in Resolve(nodes, "CloudInfrastructure", g.ns, p[2])
    BY <1>2
<1>3. /\ e[1] \in nodes /\ e[1][1] = "HybridFabric"
      /\ e[2] \in nodes /\ e[2][1] = "CloudInfrastructure"
    <2> HIDE DEF nodes
    <2> QED BY ResolvesToNode
<1> QED
    BY <1>1, <1>3 DEF Upstream

LEMMA CloudEdgesAre ==
    ASSUME NEW items, NEW scope, NEW e \in CloudEdges(items, AllNodes(items, scope))
    PROVE  {e[1], e[2]} \subseteq AllNodes(items, scope) /\ Upstream(e)
<1> DEFINE nodes == AllNodes(items, scope)
<1>1. PICK c \in OfKind(items, CloudKinds) :
         \E x \in Refs(c, "cloudRef") : /\ e[1] \in Resolve(nodes, "CloudInfrastructure", c.ns, x)
                                        /\ e[2] = Node(c)
    <2> HIDE DEF nodes
    <2> QED BY DEF CloudEdges, nodes
<1> PICK x \in Refs(c, "cloudRef") : e[1] \in Resolve(nodes, "CloudInfrastructure", c.ns, x)
    BY <1>1
<1>2. e[1] \in nodes /\ e[1][1] = "CloudInfrastructure"
    <2> HIDE DEF nodes
    <2> QED BY ResolvesToNode
<1>3. c \in OfKind(items, TenantKinds) /\ c.kind \in CloudKinds
    BY DEF OfKind, TenantKinds
<1>4. e[2] \in nodes /\ e[2][1] \in CloudKinds
    BY <1>1, <1>3, TenantNode
<1> QED
    BY <1>2, <1>4 DEF Upstream

LEMMA ClusterEdgesAre ==
    ASSUME NEW items, NEW scope, NEW e \in ClusterEdges(items, AllNodes(items, scope))
    PROVE  {e[1], e[2]} \subseteq AllNodes(items, scope) /\ Upstream(e)
<1> DEFINE nodes == AllNodes(items, scope)
<1>1. PICK p \in OfKind(items, {"PlatformOpenshift"}), f \in DOMAIN PlatformEnvKind :
         \E x \in Refs(p, f) : /\ e[1] \in Resolve(nodes, PlatformEnvKind[f], p.ns, x)
                               /\ e[2] = Node(p)
    <2> HIDE DEF nodes
    <2> QED BY DEF ClusterEdges, nodes
<1>2. PICK x \in Refs(p, f) : e[1] \in Resolve(nodes, PlatformEnvKind[f], p.ns, x)
    BY <1>1
<1>3. PlatformEnvKind[f] \in CloudKinds
    BY DEF PlatformEnvKind, CloudKinds
<1>4. /\ e[1] \in nodes /\ e[1][1] = PlatformEnvKind[f]
      /\ PlatformEnvKind[f] \notin PlatformScopedKinds => e[1][2] = p.ns
    <2> HIDE DEF nodes
    <2> QED BY <1>2, ResolvesToNode
<1>5. e[2] = Node(p) /\ p \in OfKind(items, TenantKinds) /\ p.kind = "PlatformOpenshift"
    BY <1>1 DEF OfKind, TenantKinds
<1>6. e[2] \in nodes /\ e[2][1] = "PlatformOpenshift" /\ e[2][2] = p.ns
    BY <1>5, TenantNode
<1> QED
    BY <1>3, <1>4, <1>6 DEF Upstream, PlatformScopedKinds, CloudKinds

\* A tenant's namespace is that of its entity.
LEMMA TenantNamespace ==
    ASSUME NEW ns \in TenantNamespaces
    PROVE  ns = <<"entity", ns[2]>>
BY SMT DEF TenantNamespaces

\* An entity owns what is in its namespace.
LEMMA OwnersOwnTheirNamespace ==
    ASSUME NEW items \in SUBSET Catalogue, NEW scope \in Scopes,
           NEW r \in OfKind(items, TenantKinds), NEW o \in Owner(items, scope, r)
    PROVE  o[1] = "Entity" /\ r.ns = <<"entity", o[3]>>
<1>1. o \in EntityNodes(items, scope) /\ EntityOf(r) # "" /\ o[3] = EntityOf(r)
      /\ (scope # Everything => r.ns = scope)
    BY DEF Owner
<1>2. o[1] = "Entity" /\ (scope # Everything => o[3] = scope[2])
    <2>1. CASE scope # Everything
        <3>1. o = <<"Entity", scope, scope[2]>>
            BY <1>1, <2>1, Zenon DEF EntityNodes
        <3> QED
            BY <3>1
    <2>2. CASE scope = Everything
        <3>1. PICK x \in OfKind(items, {"Entity"}) : o = Node(x)
            BY <1>1, <2>2 DEF EntityNodes
        <3> QED
            BY <2>2, <3>1 DEF Node, OfKind
    <2> QED
        BY <2>1, <2>2
<1>3. r \in Catalogue /\ r.kind \in TenantKinds
    BY DEF OfKind
<1>4. r.ns \in {Platform} \cup TenantNamespaces /\ (r.entity # "" => r.ns = <<"entity", r.entity>>)
    BY <1>3, CatalogueAssumption
<1>5. CASE scope # Everything
    <2>1. scope \in TenantNamespaces
        BY <1>5, Zenon DEF Scopes
    <2>2. scope = <<"entity", scope[2]>>
        BY <2>1, TenantNamespace
    <2> QED
        BY <1>1, <1>2, <1>5, <2>2
<1>6. CASE scope = Everything /\ r.entity # ""
    BY <1>1, <1>2, <1>4, <1>6 DEF EntityOf
<1>7. CASE scope = Everything /\ r.entity = ""
    <2>1. IsTenant(r.ns) /\ o[3] = r.ns[2]
        BY <1>1, <1>7 DEF EntityOf
    <2>2. r.ns # Platform
        BY <2>1 DEF IsTenant, Platform
    <2>3. r.ns = <<"entity", r.ns[2]>>
        BY <1>4, <2>2, TenantNamespace
    <2> QED
        BY <1>2, <2>1, <2>3
<1> QED
    BY <1>5, <1>6, <1>7

\* What the edges of ownership connect.
LEMMA OwnerEdgesAre ==
    ASSUME NEW items \in SUBSET Catalogue, NEW scope \in Scopes, NEW upstream,
           NEW e \in OwnerEdges(items, scope, upstream)
    PROVE  {e[1], e[2]} \subseteq AllNodes(items, scope) /\ Ownership(e)
<1> DEFINE owners == CloudKinds \cup {"Team", "PlatformOpenshift", "Assignment"}
<1>1. PICK r \in OfKind(items, owners) : e[1] \in Owner(items, scope, r) /\ e[2] = Node(r)
    BY DEF OwnerEdges, OfKind
<1>2. r \in OfKind(items, TenantKinds) /\ r.kind \in owners
    BY DEF OfKind, TenantKinds
<1>3. e[1] \in AllNodes(items, scope)
    BY <1>1 DEF Owner, AllNodes
<1>4. e[2] \in AllNodes(items, scope) /\ e[2][1] \in owners /\ e[2][2] = r.ns
    BY <1>1, <1>2, TenantNode
<1>5. e[1][1] = "Entity" /\ r.ns = <<"entity", e[1][3]>>
    BY <1>1, <1>2, OwnersOwnTheirNamespace
<1> QED
    BY <1>3, <1>4, <1>5 DEF Ownership

\* Every edge connects two nodes of the graph, and is one of the kinds above.
LEMMA EdgesAre ==
    ASSUME NEW items \in SUBSET Catalogue, NEW scope \in Scopes, NEW e \in EdgePairs(items, scope)
    PROVE  /\ {e[1], e[2]} \subseteq AllNodes(items, scope)
           /\ Upstream(e) \/ Ownership(e)
<1> DEFINE nodes == AllNodes(items, scope)
           upstream == AssignmentEdges(items, nodes) \cup FabricEdges(items, scope, nodes)
                       \cup CloudEdges(items, nodes) \cup ClusterEdges(items, nodes)
<1>1. \/ e \in AssignmentEdges(items, nodes) \/ e \in FabricEdges(items, scope, nodes)
      \/ e \in CloudEdges(items, nodes) \/ e \in ClusterEdges(items, nodes)
      \/ e \in OwnerEdges(items, scope, upstream)
    BY DEF EdgePairs
<1>2. CASE e \in AssignmentEdges(items, nodes)
    BY <1>2, AssignmentEdgesAre
<1>3. CASE e \in FabricEdges(items, scope, nodes)
    BY <1>3, FabricEdgesAre
<1>4. CASE e \in CloudEdges(items, nodes)
    BY <1>4, CloudEdgesAre
<1>5. CASE e \in ClusterEdges(items, nodes)
    BY <1>5, ClusterEdgesAre
<1>6. CASE e \in OwnerEdges(items, scope, upstream)
    <2> HIDE DEF upstream
    <2> QED BY <1>6, OwnerEdgesAre
<1> QED
    BY <1>1, <1>2, <1>3, <1>4, <1>5, <1>6

-----------------------------------------------------------------------------
(* The layers *)

\* The kinds of each layer of a page, top down.
LEMMA KindsOfTenantLayers ==
    ASSUME NEW scope, scope # Everything
    PROVE  LET kinds == LayerKinds(scope)
           IN /\ DOMAIN kinds = 1 .. 7
              /\ kinds[1] = {"Entity"} /\ kinds[2] = {"Team"} /\ kinds[3] = {"Project"}
              /\ kinds[4] = {"CloudInfrastructure"} /\ kinds[5] = CloudKinds
              /\ kinds[6] = {"PlatformOpenshift"} /\ kinds[7] = {"Assignment"}
<1>1. LayerKinds(scope) = << {"Entity"}, {"Team"}, {"Project"}, {"CloudInfrastructure"}, CloudKinds,
                             {"PlatformOpenshift"}, {"Assignment"} >>
    BY Zenon DEF LayerKinds
<1> QED
    BY <1>1

LEMMA KindsOfPlatformLayers ==
    LET kinds == LayerKinds(Everything)
    IN /\ DOMAIN kinds = 1 .. 6
       /\ kinds[1] = {"HybridFabric"} /\ kinds[2] = {"CloudInfrastructure"}
       /\ kinds[3] = {"Entity"} /\ kinds[4] = CloudKinds
       /\ kinds[5] = {"PlatformOpenshift"} /\ kinds[6] = {"Assignment"}
<1>1. LayerKinds(Everything) = << {"HybridFabric"}, {"CloudInfrastructure"}, {"Entity"}, CloudKinds,
                                  {"PlatformOpenshift"}, {"Assignment"} >>
    BY Zenon DEF LayerKinds
<1> QED
    BY <1>1
\* The layers of a page.
LayerNumbers(scope) == IF scope # Everything THEN 1 .. 7 ELSE 1 .. 6

LEMMA LayerNumbersAre ==
    ASSUME NEW scope
    PROVE  /\ DOMAIN LayerKinds(scope) = LayerNumbers(scope)
           /\ LayerNumbers(scope) \subseteq Nat /\ IsFiniteSet(LayerNumbers(scope))
<1>1. CASE scope # Everything
    <2>1. LayerNumbers(scope) = 1 .. 7
        BY <1>1 DEF LayerNumbers
    <2>2. 1 \in Int /\ 7 \in Int
        OBVIOUS
    <2>3. IsFiniteSet(1 .. 7)
        BY <2>2, FS_Interval
    <2> QED
        BY <1>1, <2>1, <2>3, KindsOfTenantLayers
<1>2. CASE scope = Everything
    <2>1. LayerNumbers(scope) = 1 .. 6
        BY <1>2 DEF LayerNumbers
    <2>2. 1 \in Int /\ 6 \in Int
        OBVIOUS
    <2>3. IsFiniteSet(1 .. 6)
        BY <2>2, FS_Interval
    <2> QED
        BY <1>2, <2>1, <2>3, KindsOfPlatformLayers
<1> QED
    BY <1>1, <1>2

\* A kind has one layer.
LEMMA OneLayerOfKind ==
    ASSUME NEW scope, NEW i \in LayerNumbers(scope), NEW j \in LayerNumbers(scope), NEW k,
           k \in LayerKinds(scope)[i], k \in LayerKinds(scope)[j]
    PROVE  i = j
<1>1. CASE scope # Everything
    <2>1. i \in 1 .. 7 /\ j \in 1 .. 7
        BY <1>1 DEF LayerNumbers
    <2> QED
        BY <1>1, <2>1, KindsOfTenantLayers DEF CloudKinds
<1>2. CASE scope = Everything
    <2>1. i \in 1 .. 6 /\ j \in 1 .. 6
        BY <1>2 DEF LayerNumbers
    <2> QED
        BY <1>2, <2>1, KindsOfPlatformLayers DEF CloudKinds
<1> QED
    BY <1>1, <1>2

\* An edge leads downward through the layers of the kinds.
LEMMA KindsLeadDown ==
    ASSUME NEW scope, NEW i \in LayerNumbers(scope), NEW j \in LayerNumbers(scope), NEW e,
           Upstream(e) \/ Ownership(e),
           e[1][1] \in LayerKinds(scope)[i], e[2][1] \in LayerKinds(scope)[j]
    PROVE  i < j
<1>1. CASE scope # Everything
    <2>1. i \in 1 .. 7 /\ j \in 1 .. 7
        BY <1>1 DEF LayerNumbers
    <2> QED
        BY <1>1, <2>1, KindsOfTenantLayers DEF CloudKinds, Upstream, Ownership
<1>2. CASE scope = Everything
    <2>1. i \in 1 .. 6 /\ j \in 1 .. 6
        BY <1>2 DEF LayerNumbers
    <2> QED
        BY <1>2, <2>1, KindsOfPlatformLayers DEF CloudKinds, Upstream, Ownership
<1> QED
    BY <1>1, <1>2

\* The layers drawn are those with a node, in their order, each node once.
LEMMA LayersAre ==
    ASSUME NEW items \in SUBSET Catalogue, NEW scope \in Scopes
    PROVE  LET layers == Layers(items, scope)
               kinds == LayerKinds(scope)
               kept == Keep(AllNodes(items, scope), EdgePairs(items, scope), scope)
           IN /\ DOMAIN layers \subseteq Nat
              /\ \A k \in DOMAIN layers : IsInjective(layers[k])
              /\ \A n : n \in Drawn(layers) <=>
                          n \in kept /\ \E i \in LayerNumbers(scope) : n[1] \in kinds[i]
              /\ \A k, l \in DOMAIN layers : \A n \in Range(layers[k]), m \in Range(layers[l]) :
                   /\ n = m => k = l
                   /\ \A i, j \in LayerNumbers(scope) :
                        n[1] \in kinds[i] /\ m[1] \in kinds[j] /\ i < j => k < l
<1> DEFINE layers == Layers(items, scope)
           kinds == LayerKinds(scope)
           entities == EntityNodes(items, scope)
           kept == Keep(AllNodes(items, scope), EdgePairs(items, scope), scope)
           L == DOMAIN kinds
           all == [i \in L |-> {n \in kept : n[1] \in kinds[i]}]
           filled == {i \in L : all[i] # {}}
           own == [i \in filled |-> i]
           shown == Ranked(filled, own)
           c == Cardinality(filled)
<1>1. L = LayerNumbers(scope) /\ L \subseteq Nat /\ IsFiniteSet(L)
    BY LayerNumbersAre
<1>2. IsFiniteSet(filled) /\ c \in Nat
    <2>1. filled \in SUBSET L
        OBVIOUS
    <2> HIDE DEF filled, L
    <2> QED
        BY <1>1, <2>1, FS_Subset, FS_CardinalityType
<1>3. own \in [filled -> Nat] /\ IsInjective(own)
    <2> HIDE DEF all, L
    <2> QED BY <1>1 DEF IsInjective
<1>4. /\ shown \in [1 .. c -> filled]
      /\ \A i \in filled : \E k \in 1 .. c : shown[k] = i
      /\ \A k, l \in 1 .. c : k < l => own[shown[k]] < own[shown[l]]
    <2> HIDE DEF filled, own
    <2> QED BY <1>2, <1>3, RankedInOrder
<1>5. layers = [k \in 1 .. c |-> Sorted(all[shown[k]], entities)]
    <2>1. layers = [k \in DOMAIN shown |-> Sorted(all[shown[k]], entities)]
        BY Zenon DEF Layers, Layered
    <2>2. DOMAIN shown = 1 .. c
        BY <1>4
    <2> HIDE DEF shown, all, entities, c
    <2> QED
        BY <2>1, <2>2
<1>6. \A i \in L : IsFiniteSet(all[i])
    <2> TAKE i \in L
    <2>1. all[i] \in SUBSET AllNodes(items, scope)
        BY Zenon DEF Keep
    <2> HIDE DEF all
    <2> QED
        BY <2>1, NodesAreFinite, FS_Subset
<1>7. IsFiniteSet(entities)
    BY NodesAreFinite
<1> HIDE DEF shown, c, entities
<1>8. \A k \in 1 .. c : shown[k] \in L /\ shown[k] \in Nat /\ all[shown[k]] # {}
    <2> HIDE DEF all, L
    <2> QED BY <1>1, <1>4
<1>9. \A k \in 1 .. c : Range(layers[k]) = all[shown[k]] /\ IsInjective(layers[k])
    <2> TAKE k \in 1 .. c
    <2> HIDE DEF all, L, layers
    <2> QED
        BY <1>5, <1>6, <1>7, <1>8, SortedInOrder
<1>10. DOMAIN layers = 1 .. c
    BY <1>5
<1>11. \A k, l \in 1 .. c : k < l => shown[k] < shown[l]
    <2> HIDE DEF all, L
    <2> QED BY <1>4
<1>12. \A i \in L : \A n : n \in all[i] <=> n \in kept /\ n[1] \in kinds[i]
    <2> HIDE DEF kept, kinds
    <2> QED OBVIOUS
<1>13. \A i \in L : all[i] # {} => \E k \in 1 .. c : shown[k] = i
    <2> HIDE DEF all, L
    <2> QED BY <1>4
<1> HIDE DEF all, filled, kept, kinds, L, layers
<1>14. \A n : n \in Drawn(layers) <=> n \in kept /\ \E i \in L : n[1] \in kinds[i]
    <2> TAKE n
    <2>1. n \in Drawn(layers) <=> \E k \in 1 .. c : n \in all[shown[k]]
        <3>1. n \in Drawn(layers) <=> \E k \in 1 .. c : n \in Range(layers[k])
            BY <1>10 DEF Drawn
        <3> QED
            BY <1>9, <3>1
    <2>2. (\E k \in 1 .. c : n \in all[shown[k]]) <=> \E i \in L : n \in all[i]
        <3>1. ASSUME NEW i \in L, n \in all[i] PROVE \E k \in 1 .. c : n \in all[shown[k]]
            BY <1>13, <3>1
        <3> QED
            BY <1>8, <3>1
    <2> QED
        BY <1>12, <2>1, <2>2
<1>15. ASSUME NEW k \in 1 .. c, NEW l \in 1 .. c, NEW n \in Range(layers[k]), NEW m \in Range(layers[l])
       PROVE  /\ n = m => k = l
              /\ \A i, j \in L : n[1] \in kinds[i] /\ m[1] \in kinds[j] /\ i < j => k < l
    <2>1. shown[k] \in L /\ n[1] \in kinds[shown[k]] /\ shown[l] \in L /\ m[1] \in kinds[shown[l]]
        BY <1>8, <1>9, <1>12
    <2>2. shown[k] \in Nat /\ shown[l] \in Nat
        BY <1>8
    <2>3. n = m => shown[k] = shown[l]
        BY <1>1, <2>1, OneLayerOfKind DEF kinds
    <2>4. n = m => k = l
        BY <1>2, <1>11, <2>2, <2>3
    <2>5. ASSUME NEW i \in L, NEW j \in L, n[1] \in kinds[i], m[1] \in kinds[j], i < j PROVE k < l
        <3>1. i = shown[k] /\ j = shown[l]
            BY <1>1, <2>1, <2>5, OneLayerOfKind DEF kinds
        <3>2. shown[k] < shown[l]
            BY <2>5, <3>1
        <3>3. ~ (l < k) /\ k # l
            BY <1>11, <2>2, <3>2
        <3> QED
            BY <1>2, <3>3
    <2> QED
        BY <2>4, <2>5
<1>16. \A k \in DOMAIN layers : IsInjective(layers[k])
    BY <1>9, <1>10
<1>17. DOMAIN layers \subseteq Nat
    BY <1>2, <1>10
<1>18. \A k, l \in DOMAIN layers : \A n \in Range(layers[k]), m \in Range(layers[l]) :
         /\ n = m => k = l
         /\ \A i, j \in L : n[1] \in kinds[i] /\ m[1] \in kinds[j] /\ i < j => k < l
    BY <1>10, <1>15
<1> QED
    BY <1>1, <1>14, <1>16, <1>17, <1>18 DEF layers, kinds, kept

-----------------------------------------------------------------------------
(* What is drawn *)

\* The layer of a drawn node is the one it is in.
LEMMA LayerOfDrawn ==
    ASSUME NEW layers, NEW n \in Drawn(layers)
    PROVE  Drawing!LayerOf(layers, n) \in DOMAIN layers /\ n \in Range(layers[Drawing!LayerOf(layers, n)])
<1>1. \E i \in DOMAIN layers : n \in Range(layers[i])
    BY DEF Drawn
<1>2. \A i \in DOMAIN layers : Drawing!Range(layers[i]) = Range(layers[i])
    BY DEF Range, Drawing!Range
<1> QED
    BY <1>1, <1>2 DEF Drawing!LayerOf

\* For any resources listed the graph is faithful: its layers have each node once, and
\* its edges lead down, from a tenant's resource or an entity into the same namespace.
LEMMA AnyGraphIsFaithful ==
    ASSUME NEW items \in SUBSET Catalogue, NEW scope \in Scopes
    PROVE  LET layers == Layers(items, scope)
               edges == LiveEdges(items, scope, layers)
           IN /\ \A i, k \in DOMAIN layers : \A j \in DOMAIN layers[i], l \in DOMAIN layers[k] :
                   layers[i][j] = layers[k][l] => i = k /\ j = l
              /\ \A e \in edges :
                   /\ Drawing!LayerOf(layers, e[1]) < Drawing!LayerOf(layers, e[2])
                   /\ e[1][1] \in TenantKinds => e[1][2] = e[2][2]
                   /\ e[1][1] = "Entity" => e[2][2] = <<"entity", e[1][3]>>
<1> DEFINE layers == Layers(items, scope)
           edges == LiveEdges(items, scope, layers)
           kinds == LayerKinds(scope)
           L == LayerNumbers(scope)
           kept == Keep(AllNodes(items, scope), EdgePairs(items, scope), scope)
<1>1. /\ \A k \in DOMAIN layers : IsInjective(layers[k])
      /\ \A n : n \in Drawn(layers) <=> n \in kept /\ \E i \in L : n[1] \in kinds[i]
      /\ \A k, l \in DOMAIN layers : \A n \in Range(layers[k]), m \in Range(layers[l]) :
           /\ n = m => k = l
           /\ \A i, j \in L : n[1] \in kinds[i] /\ m[1] \in kinds[j] /\ i < j => k < l
    BY LayersAre
<1> HIDE DEF layers, kinds, L, kept
<1>2. ASSUME NEW i \in DOMAIN layers, NEW k \in DOMAIN layers,
             NEW j \in DOMAIN layers[i], NEW l \in DOMAIN layers[k], layers[i][j] = layers[k][l]
      PROVE  i = k /\ j = l
    <2>1. layers[i][j] \in Range(layers[i]) /\ layers[k][l] \in Range(layers[k])
        BY DEF Range
    <2>2. i = k
        BY <1>1, <1>2, <2>1
    <2> QED
        BY <1>1, <1>2, <2>2 DEF IsInjective
<1>3. ASSUME NEW e \in edges
      PROVE  /\ Drawing!LayerOf(layers, e[1]) < Drawing!LayerOf(layers, e[2])
             /\ e[1][1] \in TenantKinds => e[1][2] = e[2][2]
             /\ e[1][1] = "Entity" => e[2][2] = <<"entity", e[1][3]>>
    <2>1. e \in EdgePairs(items, scope) /\ e[1] \in Drawn(layers) /\ e[2] \in Drawn(layers)
        BY <1>3 DEF LiveEdges
    <2>2. Upstream(e) \/ Ownership(e)
        BY <2>1, EdgesAre
    <2>3. PICK i \in L, j \in L : e[1][1] \in kinds[i] /\ e[2][1] \in kinds[j]
        BY <1>1, <2>1
    <2>4. i < j
        BY <2>2, <2>3, KindsLeadDown DEF L, kinds
    <2>5. Drawing!LayerOf(layers, e[1]) < Drawing!LayerOf(layers, e[2])
        BY <1>1, <2>1, <2>3, <2>4, LayerOfDrawn
    <2>6. e[1][1] \in TenantKinds => e[1][2] = e[2][2]
        BY <2>2 DEF Upstream, Ownership, TenantKinds, CloudKinds
    <2>7. e[1][1] = "Entity" => e[2][2] = <<"entity", e[1][3]>>
        BY <2>2 DEF Upstream, Ownership, CloudKinds
    <2> QED
        BY <2>5, <2>6, <2>7
<1> QED
    BY <1>2, <1>3 DEF layers, edges

\* For any resources listed, each that its owner is drawn of and whose kind has
\* a layer hangs below something drawn; a Project only hangs where it is named.
LEMMA AnyGraphLosesNothing ==
    ASSUME NEW items \in SUBSET Catalogue, NEW scope \in Scopes,
           NEW r \in OfKind(items, IF scope # Everything THEN TenantKinds \ {"Project"}
                                   ELSE CloudKinds \cup {"PlatformOpenshift"}),
           Owner(items, scope, r) # {}
    PROVE  \E e \in LiveEdges(items, scope, Layers(items, scope)) : e[2] = Node(r)
<1> DEFINE nodes == AllNodes(items, scope)
           upstream == AssignmentEdges(items, nodes) \cup FabricEdges(items, scope, nodes)
                       \cup CloudEdges(items, nodes) \cup ClusterEdges(items, nodes)
           pairs == EdgePairs(items, scope)
           layers == Layers(items, scope)
           kept == Keep(nodes, pairs, scope)
<1>1. r \in items /\ r.kind \in TenantKinds \ {"Project"}
      /\ (scope = Everything => r.kind \in CloudKinds \cup {"PlatformOpenshift"})
    BY DEF OfKind, TenantKinds, CloudKinds
<1>2. pairs = upstream \cup OwnerEdges(items, scope, upstream)
    BY Zenon DEF EdgePairs
<1> HIDE DEF upstream, nodes, pairs, layers, kept
<1>3. \E e \in pairs : e[2] = Node(r)
    <2>1. CASE \E e \in upstream : e[2] = Node(r)
        BY <1>2, <2>1
    <2>2. CASE ~ \E e \in upstream : e[2] = Node(r)
        <3>1. Node(r) \notin {e[2] : e \in upstream}
            BY <2>2
        <3>2. \/ r \in {x \in OfKind(items, {"PlatformOpenshift", "Assignment"}) :
                          Node(x) \notin {e[2] : e \in upstream}}
              \/ r \in OfKind(items, CloudKinds \cup {"Team"})
            BY <1>1, <3>1 DEF OfKind, TenantKinds
        <3>3. PICK o : o \in Owner(items, scope, r)
            OBVIOUS
        <3>4. <<o, Node(r)>> \in Owner(items, scope, r) \X {Node(r)}
            BY <3>3
        <3>5. <<o, Node(r)>> \in OwnerEdges(items, scope, upstream)
            BY <3>2, <3>4 DEF OwnerEdges
        <3>6. <<o, Node(r)>>[2] = Node(r)
            OBVIOUS
        <3> QED
            BY <1>2, <3>5, <3>6
    <2> QED
        BY <2>1, <2>2
<1>4. PICK e \in pairs : e[2] = Node(r)
    BY <1>3
<1>5. {e[1], e[2]} \subseteq nodes /\ (Upstream(e) \/ Ownership(e))
    BY EdgesAre DEF pairs, nodes
<1>6. e[1] \in kept /\ e[2] \in kept
    BY <1>5 DEF Keep, kept
<1>7. \A n : n \in Drawn(layers) <=>
               n \in kept /\ \E i \in LayerNumbers(scope) : n[1] \in LayerKinds(scope)[i]
    BY LayersAre DEF layers, kept, nodes, pairs
<1>8. e[2][1] = r.kind
    BY <1>4 DEF Node
<1>9. /\ \E i \in LayerNumbers(scope) : e[1][1] \in LayerKinds(scope)[i]
      /\ \E i \in LayerNumbers(scope) : e[2][1] \in LayerKinds(scope)[i]
    <2>1. CASE scope # Everything
        <3>1. {1, 2, 3, 4, 5, 6, 7} \subseteq LayerNumbers(scope)
            BY <2>1 DEF LayerNumbers
        <3>2. /\ e[1][1] \in {"Entity", "CloudInfrastructure", "HybridFabric"} \cup TenantKinds
              /\ e[1][1] # "HybridFabric"
            BY <1>1, <1>5, <1>8 DEF Upstream, Ownership, TenantKinds, CloudKinds
        <3> QED
            BY <1>1, <1>8, <2>1, <3>1, <3>2, KindsOfTenantLayers DEF TenantKinds
    <2>2. CASE scope = Everything
        <3>1. {1, 2, 3, 4, 5, 6} \subseteq LayerNumbers(scope)
            BY <2>2 DEF LayerNumbers
        <3>2. e[1][1] \in {"Entity", "CloudInfrastructure"} \cup CloudKinds
            BY <1>1, <1>5, <1>8, <2>2 DEF Upstream, Ownership, CloudKinds
        <3> QED
            BY <1>1, <1>8, <2>2, <3>1, <3>2, KindsOfPlatformLayers
    <2> QED
        BY <2>1, <2>2
<1>10. e \in LiveEdges(items, scope, layers)
    BY <1>6, <1>7, <1>9 DEF LiveEdges, pairs
<1> QED
    BY <1>4, <1>10 DEF layers

-----------------------------------------------------------------------------
(* The network views *)

\* A state is none of "absent".
LEMMA StatesAre ==
    ASSUME NEW r
    PROVE  State(r) \in {"ready", "failed", "pending"}
BY DEF State

\* Two distinct elements are two at least.
LEMMA TwoAtLeast ==
    ASSUME NEW S, IsFiniteSet(S), NEW x \in S, NEW y \in S, x # y
    PROVE  Cardinality(S) > 1
<1>1. {x, y} \in SUBSET S /\ {x, y} = {x} \cup {y} /\ y \notin {x}
    OBVIOUS
<1>2. IsFiniteSet({x}) /\ Cardinality({x}) = 1
    BY FS_Singleton
<1>3. Cardinality({x, y}) = 2
    BY <1>1, <1>2, FS_AddElement
<1>4. Cardinality({x, y}) <= Cardinality(S) /\ Cardinality(S) \in Nat
    BY <1>1, FS_Subset, FS_CardinalityType
<1> QED
    BY <1>3, <1>4

\* A placement names one cloud project.
LEMMA OneBackend ==
    ASSUME NEW items \in SUBSET Catalogue, NEW p \in Placements(items), NEW b \in BackendsOf(p)
    PROVE  BackendsOf(p) = {b}
<1>1. p \in Catalogue /\ p.kind = "NetworkPlacement"
    BY DEF Placements, OfKind
<1>2. Cardinality(BackendsOf(p)) = 1 /\ IsFiniteSet(p.refs) /\ BackendsOf(p) \in SUBSET p.refs
    BY <1>1, CatalogueAssumption DEF BackendsOf
<1>3. IsFiniteSet(BackendsOf(p))
    BY <1>2, FS_Subset
<1>4. \E x : BackendsOf(p) = {x}
    BY <1>2, <1>3, FS_Singleton
<1> QED
    BY <1>4

\* A cloud project is no resource without a name.
LEMMA BackendsAreNames ==
    ASSUME NEW items \in SUBSET Catalogue, NEW r \in items, NEW b \in BackendsOf(r)
    PROVE  b # << >>
<1>1. b \in STRING \X STRING
    BY CatalogueAssumption DEF BackendsOf
<1>2. b = <<b[1], b[2]>>
    BY <1>1
<1> QED
    BY <1>2

\* The site of a placement is that of the cloud project of its own namespace.
LEMMA OwnSiteFirst ==
    ASSUME NEW items \in SUBSET Catalogue, NEW p \in Placements(items), NEW b \in BackendsOf(p),
           NEW own \in SitedIn(items, p.ns, b)
    PROVE  SiteOf(items, p) = Refs(own, "cloudRef")
<1>1. BackendsOf(p) = {b}
    BY OneBackend
<1>2. FirstOf(SitedIn(items, p.ns, b)) = own
    <2> DEFINE first == FirstOf(SitedIn(items, p.ns, b))
    <2>1. first \in SitedIn(items, p.ns, b)
        BY DEF FirstOf
    <2> HIDE DEF first
    <2>2. \A x \in SitedIn(items, p.ns, b) :
             x \in Catalogue /\ x.kind = b[1] /\ x.name = b[2] /\ x.ns = p.ns
        BY DEF SitedIn, Sited, Named, OfKind
    <2>3. Node(first) = Node(own) /\ first \in Catalogue /\ own \in Catalogue
        BY <2>1, <2>2 DEF Node
    <2>4. first = own
        BY <2>3, CatalogueAssumption
    <2> QED
        BY <2>4 DEF first
<1>3. SitedIn(items, p.ns, b) # {}
    OBVIOUS
<1>4. SiteOf(items, p) = UNION {IF SitedIn(items, p.ns, x) # {}
                                THEN Refs(FirstOf(SitedIn(items, p.ns, x)), "cloudRef")
                                ELSE IF Sited(items, x) # {} THEN Refs(FirstOf(Sited(items, x)), "cloudRef")
                                ELSE {} : x \in {b}}
    BY <1>1, Zenon DEF SiteOf
<1>5. SiteOf(items, p) = Refs(FirstOf(SitedIn(items, p.ns, b)), "cloudRef")
    BY <1>3, <1>4
<1> QED
    BY <1>2, <1>5

\* The head of a column shows the site of its placements' cloud project, unless
\* those of one kind and name are on different sites.
LEMMA SiteIsInTheHead ==
    ASSUME NEW items \in SUBSET Catalogue, NEW p \in Placements(items), NEW b \in BackendsOf(p),
           ~Ambiguous(items, b)
    PROVE  ColumnSite(items, b) = SiteOf(items, p)
<1> DEFINE head == FirstOf(Named(items, b))
           site == IF SitedIn(items, p.ns, b) # {} THEN Refs(FirstOf(SitedIn(items, p.ns, b)), "cloudRef")
                   ELSE IF Sited(items, b) # {} THEN Refs(FirstOf(Sited(items, b)), "cloudRef")
                   ELSE {}
<1>1. SiteOf(items, p) = site
    <2>1. BackendsOf(p) = {b}
        BY OneBackend
    <2>2. SiteOf(items, p) = UNION {IF SitedIn(items, p.ns, x) # {}
                                    THEN Refs(FirstOf(SitedIn(items, p.ns, x)), "cloudRef")
                                    ELSE IF Sited(items, x) # {} THEN Refs(FirstOf(Sited(items, x)), "cloudRef")
                                    ELSE {} : x \in {b}}
        BY <2>1, Zenon DEF SiteOf
    <2> QED
        BY <2>2
<1>2. \A r, s \in Named(items, b) : Refs(r, "cloudRef") = Refs(s, "cloudRef")
    BY DEF Ambiguous
<1>3. Named(items, b) # {} => head \in Named(items, b)
    BY DEF FirstOf
<1>4. SitedIn(items, p.ns, b) # {} => FirstOf(SitedIn(items, p.ns, b)) \in Named(items, b)
    BY DEF FirstOf, SitedIn, Sited
<1>5. Sited(items, b) # {} => FirstOf(Sited(items, b)) \in Named(items, b)
    BY DEF FirstOf, Sited
<1>6. ColumnSite(items, b) = IF Named(items, b) = {} THEN {} ELSE Refs(head, "cloudRef")
    BY DEF ColumnSite
<1> HIDE DEF head
<1>7. CASE SitedIn(items, p.ns, b) # {}
    BY <1>1, <1>2, <1>3, <1>4, <1>6, <1>7
<1>8. CASE SitedIn(items, p.ns, b) = {} /\ Sited(items, b) # {}
    BY <1>1, <1>2, <1>3, <1>5, <1>6, <1>8
<1>9. CASE SitedIn(items, p.ns, b) = {} /\ Sited(items, b) = {}
    <2>1. Named(items, b) # {} => Refs(head, "cloudRef") = {}
        BY <1>3, <1>9 DEF Sited
    <2> QED
        BY <1>1, <1>6, <1>9, <2>1
<1> QED
    BY <1>7, <1>8, <1>9

\* A chip of a network has its cell and its column.
LEMMA ChipsHaveCells ==
    ASSUME NEW items, NEW scope, NEW n, NEW p \in Chips(items, n), NEW b \in BackendsOf(p)
    PROVE  p \in Behind(items, n, b) /\ Cell(items, n, b) # "absent" /\ b \in Columns(items, scope)
<1>1. p \in Behind(items, n, b) /\ p \in Placements(items)
    BY DEF Behind, Chips
<1>2. Cell(items, n, b) = State(FirstOf(Behind(items, n, b)))
    BY <1>1 DEF Cell
<1>3. b \in Columns(items, scope)
    BY <1>1 DEF Columns
<1> QED
    BY <1>1, <1>2, <1>3, StatesAre

\* A cell is not absent when a placement is behind it or the status lists it.
LEMMA CellsPresent ==
    ASSUME NEW items, NEW n, NEW b
    PROVE  Cell(items, n, b) # "absent" <=>
             (\E p \in Chips(items, n) : b \in BackendsOf(p)) \/ b \in BackendsOf(n)
<1>1. Behind(items, n, b) # {} <=> \E p \in Chips(items, n) : b \in BackendsOf(p)
    BY DEF Behind, Chips
<1>2. CASE Behind(items, n, b) # {}
    BY <1>1, <1>2, StatesAre DEF Cell
<1>3. CASE Behind(items, n, b) = {}
    BY <1>1, <1>3 DEF Cell
<1> QED
    BY <1>2, <1>3

\* A row of the diagram's table is of a network and a chip of it, or of a network alone.
LEMMA RowsAre ==
    ASSUME NEW items, NEW scope, NEW row
    PROVE  row \in TopologyRows(items, scope) <=>
             \E n \in Networks(items, scope) :
               \/ Chips(items, n) = {} /\ row = <<n, "none", << >>>>
               \/ \E p \in Chips(items, n) : \E b \in BackendsOf(p) : row = <<n, p.name, b>>
<1> DEFINE Of(n) == IF Chips(items, n) = {} THEN {<<n, "none", << >>>>}
                    ELSE UNION {{<<n, p.name, b>> : b \in BackendsOf(p)} : p \in Chips(items, n)}
<1>1. \A n : row \in Of(n) <=>
               \/ Chips(items, n) = {} /\ row = <<n, "none", << >>>>
               \/ \E p \in Chips(items, n) : \E b \in BackendsOf(p) : row = <<n, p.name, b>>
    <2> TAKE n
    <2>1. CASE Chips(items, n) = {}
        BY <2>1, Zenon
    <2>2. CASE Chips(items, n) # {}
        <3>1. Of(n) = UNION {{<<n, p.name, b>> : b \in BackendsOf(p)} : p \in Chips(items, n)}
            BY <2>2, Zenon
        <3> HIDE DEF Of
        <3>2. row \in Of(n) <=>
                \E p \in Chips(items, n) : row \in {<<n, p.name, b>> : b \in BackendsOf(p)}
            BY <3>1
        <3> QED
            BY <2>2, <3>2
    <2> QED
        BY <2>1, <2>2
<1>2. TopologyRows(items, scope) = UNION {Of(n) : n \in Networks(items, scope)}
    BY Zenon DEF TopologyRows
<1> HIDE DEF Of
<1>3. row \in TopologyRows(items, scope) <=> \E n \in Networks(items, scope) : row \in Of(n)
    BY <1>2
<1> QED
    BY <1>1, <1>3

\* The tables list the same, but for what only the status of a network still says.
LEMMA TablesAgree ==
    ASSUME NEW items \in SUBSET Catalogue, NEW scope
    PROVE  TableRows(items, scope) =
             {<<row[1], row[3]>> : row \in {x \in TopologyRows(items, scope) : x[3] # << >>}}
             \cup UNION {{<<n, b>> : b \in BackendsOf(n)} : n \in Networks(items, scope)}
<1> DEFINE networks == Networks(items, scope)
           rows == {x \in TopologyRows(items, scope) : x[3] # << >>}
           listed == {<<row[1], row[3]>> : row \in rows}
           status == UNION {{<<n, b>> : b \in BackendsOf(n)} : n \in networks}
<1>1. \A n, b : <<n, b>> \in listed <=>
                  n \in networks /\ \E p \in Chips(items, n) : b \in BackendsOf(p)
    <2> TAKE n, b
    <2>1. ASSUME n \in networks, NEW p \in Chips(items, n), b \in BackendsOf(p)
          PROVE  <<n, b>> \in listed
        <3>1. p \in items
            BY DEF Chips, Placements, OfKind
        <3>2. b # << >>
            BY <2>1, <3>1, BackendsAreNames
        <3>3. <<n, p.name, b>> \in TopologyRows(items, scope)
            BY <2>1, RowsAre
        <3>4. <<n, p.name, b>>[1] = n /\ <<n, p.name, b>>[3] = b
            OBVIOUS
        <3>5. <<n, p.name, b>> \in rows
            BY <3>2, <3>3, <3>4
        <3> HIDE DEF rows
        <3> QED
            BY <3>4, <3>5
    <2>2. ASSUME <<n, b>> \in listed
          PROVE  n \in networks /\ \E p \in Chips(items, n) : b \in BackendsOf(p)
        <3>1. PICK row \in rows : <<n, b>> = <<row[1], row[3]>>
            <4> HIDE DEF rows
            <4> QED BY <2>2
        <3>2. row \in TopologyRows(items, scope) /\ row[3] # << >> /\ n = row[1] /\ b = row[3]
            BY <3>1
        <3>3. PICK m \in networks :
                 \/ Chips(items, m) = {} /\ row = <<m, "none", << >>>>
                 \/ \E p \in Chips(items, m) : \E q \in BackendsOf(p) : row = <<m, p.name, q>>
            BY <3>2, RowsAre
        <3>4. PICK p \in Chips(items, m) : \E q \in BackendsOf(p) : row = <<m, p.name, q>>
            BY <3>2, <3>3
        <3>5. m = n /\ b \in BackendsOf(p)
            BY <3>2, <3>4
        <3> QED
            BY <3>4, <3>5
    <2> HIDE DEF listed
    <2> QED
        BY <2>1, <2>2
<1>2. \A n, b : <<n, b>> \in status <=> n \in networks /\ b \in BackendsOf(n)
    <2> HIDE DEF networks
    <2> QED OBVIOUS
<1>3. \A n, b : <<n, b>> \in TableRows(items, scope) <=>
                  /\ n \in networks
                  /\ (\E p \in Chips(items, n) : b \in BackendsOf(p)) \/ b \in BackendsOf(n)
    <2> TAKE n, b
    <2>1. <<n, b>> \in TableRows(items, scope) <=>
            n \in networks /\ b \in Columns(items, scope) /\ Cell(items, n, b) # "absent"
        BY DEF TableRows
    <2>2. ASSUME n \in networks,
                 (\E p \in Chips(items, n) : b \in BackendsOf(p)) \/ b \in BackendsOf(n)
          PROVE  b \in Columns(items, scope)
        BY <2>2, ChipsHaveCells DEF Columns
    <2> HIDE DEF networks
    <2> QED
        BY <2>1, <2>2, CellsPresent
<1>4. \A x \in listed \cup status \cup TableRows(items, scope) : x = <<x[1], x[2]>>
    <2>1. \A x \in listed : x = <<x[1], x[2]>>
        <3> HIDE DEF rows
        <3> QED OBVIOUS
    <2>2. \A x \in status : x = <<x[1], x[2]>>
        <3> HIDE DEF networks
        <3> QED OBVIOUS
    <2>3. \A x \in TableRows(items, scope) : x = <<x[1], x[2]>>
        BY DEF TableRows
    <2> QED
        BY <2>1, <2>2, <2>3, Zenon
<1> HIDE DEF listed, status, networks
<1>5. \A x : x \in TableRows(items, scope) <=> x \in listed \cup status
    <2> TAKE x
    <2>1. ASSUME x \in TableRows(items, scope) PROVE x \in listed \cup status
        <3>1. x = <<x[1], x[2]>>
            BY <1>4, <2>1
        <3>2. <<x[1], x[2]>> \in TableRows(items, scope)
            BY <2>1, <3>1, Zenon
        <3>3. <<x[1], x[2]>> \in listed \/ <<x[1], x[2]>> \in status
            BY <1>1, <1>2, <1>3, <3>2
        <3> QED
            BY <3>1, <3>3, Zenon
    <2>2. ASSUME x \in listed \cup status PROVE x \in TableRows(items, scope)
        <3>1. x = <<x[1], x[2]>>
            BY <1>4, <2>2
        <3>2. <<x[1], x[2]>> \in listed \/ <<x[1], x[2]>> \in status
            BY <2>2, <3>1, Zenon
        <3>3. <<x[1], x[2]>> \in TableRows(items, scope)
            BY <1>1, <1>2, <1>3, <3>2
        <3> QED
            BY <3>1, <3>3, Zenon
    <2> QED
        BY <2>1, <2>2
<1>6. TableRows(items, scope) = listed \cup status
    BY <1>5, Zenon
<1> QED
    BY <1>6 DEF listed, status, networks

\* A network that shares its number is flagged.
LEMMA SharedVnisAreFlagged ==
    ASSUME NEW items \in SUBSET Catalogue, NEW scope,
           NEW n \in Networks(items, scope), NEW m \in Networks(items, scope), m # n,
           n.vni = m.vni, n.vni # 0
    PROVE  n.vni \in DuplicateVnis(items, scope)
<1> DEFINE v == n.vni
           sharing == {x \in Networks(items, scope) : x.vni = v}
<1>1. n \in sharing /\ m \in sharing
    OBVIOUS
<1>2. sharing \in SUBSET Catalogue
    BY DEF Networks, OfKind
<1>3. IsFiniteSet(sharing)
    BY <1>2, CatalogueAssumption, FS_Subset
<1>4. Cardinality(sharing) > 1
    <2> HIDE DEF sharing
    <2> QED BY <1>1, <1>3, TwoAtLeast
<1>5. v \in {x.vni : x \in Networks(items, scope)} \ {0}
    OBVIOUS
<1> QED
    BY <1>4, <1>5, Zenon DEF DuplicateVnis

\* For any resources listed the views agree.
LEMMA AnyViewsAgree ==
    ASSUME NEW items \in SUBSET Catalogue, NEW scope
    PROVE  LET networks == Networks(items, scope)
               rows == TopologyRows(items, scope)
           IN /\ \A n \in networks : \A p \in Chips(items, n) : \A b \in BackendsOf(p) :
                   /\ Cell(items, n, b) # "absent" /\ b \in Columns(items, scope)
                   /\ \A own \in SitedIn(items, n.ns, b) : SiteOf(items, p) = Refs(own, "cloudRef")
                   /\ ~Ambiguous(items, b) => ColumnSite(items, b) = SiteOf(items, p)
              /\ TableRows(items, scope) =
                   {<<row[1], row[3]>> : row \in {x \in rows : x[3] # << >>}}
                   \cup UNION {{<<n, b>> : b \in BackendsOf(n)} : n \in networks}
              /\ \A n \in networks :
                   /\ NetworkState(items, n) = "absent" <=> <<n, "none", << >>>> \in rows
                   /\ Cardinality({e \in {EntityOf(m) : m \in networks} : n \in Group(items, scope, e)}) = 1
                   /\ \A m \in networks \ {n} :
                        n.vni = m.vni /\ n.vni # 0 => n.vni \in DuplicateVnis(items, scope)
              /\ \A c \in Connectors(items, scope) : c[2] \in SiteNames(items)
              /\ \A g \in OfKind(items, {"CloudGateway"}) :
                   /\ ~DrawnReady(items, g) => GatewayState(items, g) = SpokeState(g)
                   /\ \E site \in SiteNames(items) : g \in GatewaysAt(items, site)
<1> DEFINE networks == Networks(items, scope)
           rows == TopologyRows(items, scope)
<1>1. ASSUME NEW n \in networks, NEW p \in Chips(items, n), NEW b \in BackendsOf(p)
      PROVE  /\ Cell(items, n, b) # "absent" /\ b \in Columns(items, scope)
             /\ \A own \in SitedIn(items, n.ns, b) : SiteOf(items, p) = Refs(own, "cloudRef")
             /\ ~Ambiguous(items, b) => ColumnSite(items, b) = SiteOf(items, p)
    <2>1. p \in Placements(items) /\ p.ns = n.ns
        BY DEF Chips
    <2>2. \A own \in SitedIn(items, p.ns, b) : SiteOf(items, p) = Refs(own, "cloudRef")
        BY <2>1, OwnSiteFirst
    <2>3. ~Ambiguous(items, b) => ColumnSite(items, b) = SiteOf(items, p)
        BY <2>1, SiteIsInTheHead
    <2> QED
        BY <2>1, <2>2, <2>3, ChipsHaveCells
<1>2. ASSUME NEW n \in networks
      PROVE  NetworkState(items, n) = "absent" <=> <<n, "none", << >>>> \in rows
    <2>1. NetworkState(items, n) = "absent" <=> Chips(items, n) = {}
        BY StatesAre DEF NetworkState
    <2>2. Chips(items, n) = {} => <<n, "none", << >>>> \in rows
        BY RowsAre
    <2>3. ASSUME <<n, "none", << >>>> \in rows PROVE Chips(items, n) = {}
        <3>1. PICK m \in networks :
                 \/ Chips(items, m) = {} /\ <<n, "none", << >>>> = <<m, "none", << >>>>
                 \/ \E p \in Chips(items, m) : \E b \in BackendsOf(p) : <<n, "none", << >>>> = <<m, p.name, b>>
            BY <2>3, RowsAre
        <3>2. ASSUME NEW p \in Chips(items, m), NEW b \in BackendsOf(p),
                     <<n, "none", << >>>> = <<m, p.name, b>>
              PROVE  FALSE
            <4>1. p \in items
                BY DEF Chips, Placements, OfKind
            <4>2. b = << >>
                BY <3>2
            <4> QED
                BY <4>1, <4>2, BackendsAreNames
        <3>3. n = m /\ Chips(items, m) = {}
            BY <3>1, <3>2
        <3> QED
            BY <3>3
    <2> QED
        BY <2>1, <2>2, <2>3
<1>3. ASSUME NEW n \in networks
      PROVE  Cardinality({e \in {EntityOf(m) : m \in networks} : n \in Group(items, scope, e)}) = 1
    <2>1. \A e : n \in Group(items, scope, e) <=> e = EntityOf(n)
        BY DEF Group
    <2>2. {e \in {EntityOf(m) : m \in networks} : n \in Group(items, scope, e)} = {EntityOf(n)}
        <3> HIDE DEF networks
        <3> QED BY <2>1
    <2> QED
        BY <2>2, FS_Singleton
<1>4. ASSUME NEW n \in networks, NEW m \in networks \ {n}, n.vni = m.vni, n.vni # 0
      PROVE  n.vni \in DuplicateVnis(items, scope)
    BY <1>4, SharedVnisAreFlagged
<1>5. ASSUME NEW c \in Connectors(items, scope) PROVE c[2] \in SiteNames(items)
    <2>1. PICK p : \E s \in SiteOf(items, p) \cap SiteNames(items) : c = <<Node(p), s>>
        BY DEF Connectors
    <2> QED
        BY <2>1
<1>6. ASSUME NEW g \in OfKind(items, {"CloudGateway"})
      PROVE  /\ ~DrawnReady(items, g) => GatewayState(items, g) = SpokeState(g)
             /\ \E site \in SiteNames(items) : g \in GatewaysAt(items, site)
    <2>1. ~DrawnReady(items, g) => GatewayState(items, g) = SpokeState(g)
        BY Zenon DEF DrawnReady, GatewayState, SpokeState
    <2>2. g \in Catalogue /\ g.kind = "CloudGateway"
        BY DEF OfKind
    <2>3. PICK site : site \in GatewaySites(g)
        BY <2>2, CatalogueAssumption
    <2>4. site \in SiteNames(items) /\ g \in GatewaysAt(items, site)
        BY <2>3 DEF SiteNames, GatewaysAt
    <2> QED
        BY <2>1, <2>4
<1>7. TableRows(items, scope) =
        {<<row[1], row[3]>> : row \in {x \in rows : x[3] # << >>}}
        \cup UNION {{<<n, b>> : b \in BackendsOf(n)} : n \in networks}
    BY TablesAgree
<1> HIDE DEF networks, rows
<1> QED
    BY <1>1, <1>2, <1>3, <1>4, <1>5, <1>6, <1>7, Zenon DEF networks, rows

-----------------------------------------------------------------------------
(* The pages *)

\* A load is of the lists of the page's mode, and holds resources of the catalogue.
LoadOK ==
  load \in [phase : {"entities", "lists"}, tries : 0 .. RetryAttempts - 1,
            entities : SUBSET Catalogue, waiting : SUBSET Lists(mode),
            got : [Lists(mode) -> SUBSET Catalogue], failed : SUBSET Lists(mode)]

\* The networks of a tenant's network overview are those of its own namespace.
OwnNetworks(items) == \A n \in items : n.kind = "HybridNetwork" /\ n.ns = Scope

\* Only the raw aggregate asks for the Entities first, and what answers is a version
\* of the cluster.
OverviewInv ==
  /\ mode \in Modes /\ cluster \subseteq Catalogue /\ seen \subseteq SUBSET Catalogue
  /\ LoadOK
  /\ load.phase = "entities" => mode = "raw"
  /\ mode = "network" => OwnNetworks(load.got["HybridNetwork"])

\* What a settled list holds is well-formed if the answer is.
LEMMA SettledIsLoad ==
    ASSUME LoadOK, NEW l \in Lists(mode), NEW items \in SUBSET Catalogue, NEW failing \in BOOLEAN
    PROVE  /\ Settled(l, items, failing) \in
                [phase : {"entities", "lists"}, tries : 0 .. RetryAttempts - 1,
                 entities : SUBSET Catalogue, waiting : SUBSET Lists(mode),
                 got : [Lists(mode) -> SUBSET Catalogue], failed : SUBSET Lists(mode)]
           /\ Settled(l, items, failing).phase = load.phase
           /\ Settled(l, items, failing).got = [load.got EXCEPT ![l] = items]
<1>1. 0 \in 0 .. RetryAttempts - 1
    BY OverviewAssumption
<1>2. DOMAIN load = {"phase", "tries", "entities", "waiting", "got", "failed"}
    BY DEF LoadOK
<1>3. [load.got EXCEPT ![l] = items] \in [Lists(mode) -> SUBSET Catalogue]
    BY DEF LoadOK
<1>4. /\ load.phase \in {"entities", "lists"}
      /\ load.waiting \ {l} \subseteq Lists(mode)
      /\ load.failed \cup {l} \subseteq Lists(mode) /\ load.failed \ {l} \subseteq Lists(mode)
    BY DEF LoadOK
<1> QED
    BY <1>1, <1>2, <1>3, <1>4 DEF Settled, LoadOK

\* The invariant holds at first, and every step of a page or of the cluster keeps it.
LEMMA OverviewInitially == OverviewInit => OverviewInv
<1> SUFFICES ASSUME OverviewInit PROVE OverviewInv
    OBVIOUS
<1>1. mode \in Modes /\ cluster \subseteq Catalogue /\ seen \subseteq SUBSET Catalogue
    BY OverviewAssumption DEF OverviewInit
<1>2. FirstPhase(mode) \in {"entities", "lists"} /\ (FirstPhase(mode) = "entities" => mode = "raw")
    BY DEF FirstPhase
<1>3. 0 \in 0 .. RetryAttempts - 1
    BY OverviewAssumption
<1>4. [l \in Lists(mode) |-> {}] \in [Lists(mode) -> SUBSET Catalogue]
    OBVIOUS
<1>5. LoadOK
    BY <1>2, <1>3, <1>4 DEF OverviewInit, LoadOK
<1>6. load.phase = FirstPhase(mode)
    BY DEF OverviewInit
<1>7. mode = "network" => OwnNetworks(load.got["HybridNetwork"])
    <2>1. mode = "network" => "HybridNetwork" \in Lists(mode)
        BY DEF Lists, NetworkLists
    <2> QED
        BY <2>1 DEF OverviewInit, OwnNetworks
<1> QED
    BY <1>1, <1>2, <1>5, <1>6, <1>7 DEF OverviewInv

\* What the lists of an aggregate hold together is of the catalogue.
LEMMA JoinedIsListed ==
    ASSUME OverviewInv, NEW lists, NEW at \in [Moving(Behinds(load.entities)) -> seen]
    PROVE  Joined(lists, at) \subseteq Catalogue
<1>1. \A l \in DOMAIN at : at[l] \subseteq Catalogue
    BY DEF OverviewInv
<1>2. \A l : (IF l \in DOMAIN at THEN at[l] ELSE cluster) \subseteq Catalogue
    BY <1>1 DEF OverviewInv
<1>3. \A l : Answer(IF l \in DOMAIN at THEN at[l] ELSE cluster, l) \subseteq Catalogue
    BY <1>2 DEF Answer
<1> QED
    BY <1>3 DEF Joined

\* A step that settles a list of the page keeps the invariant.
LEMMA SettledKeepsInv ==
    ASSUME OverviewInv, Step, NEW l \in Lists(mode), NEW items \in SUBSET Catalogue,
           NEW failing \in BOOLEAN, load' = Settled(l, items, failing),
           mode = "network" /\ l = "HybridNetwork" => OwnNetworks(items)
    PROVE  OverviewInv'
<1>1. LoadOK
    BY DEF OverviewInv
<1>2. /\ LoadOK' /\ load'.phase = load.phase
      /\ load'.got = [load.got EXCEPT ![l] = items]
    BY <1>1, SettledIsLoad DEF LoadOK, Step
<1>3. mode = "network" => OwnNetworks(load'.got["HybridNetwork"])
    <2>1. load.got \in [Lists(mode) -> SUBSET Catalogue]
        BY <1>1 DEF LoadOK
    <2>2. l = "HybridNetwork" => load'.got["HybridNetwork"] = items
        BY <1>2, <2>1
    <2>3. l # "HybridNetwork" /\ mode = "network" => load'.got["HybridNetwork"] = load.got["HybridNetwork"]
        BY <1>2, <2>1 DEF Lists, NetworkLists
    <2> QED
        BY <2>2, <2>3 DEF OverviewInv
<1> QED
    BY <1>2, <1>3 DEF OverviewInv, Step, OwnNetworks

LEMMA OverviewKeepsInv == OverviewInv /\ [OverviewNext]_overviewVars => OverviewInv'
<1> SUFFICES ASSUME OverviewInv, [OverviewNext]_overviewVars PROVE OverviewInv'
    OBVIOUS
<1>0. /\ LoadOK /\ \A c \in seen : c \subseteq Catalogue
      /\ load.waiting \subseteq Lists(mode) /\ load.entities \subseteq Catalogue
      /\ \A l \in Lists(mode) : load.got[l] \subseteq Catalogue
    BY DEF OverviewInv, LoadOK
<1>1. ASSUME NEW l \in Lists(mode), Arrive(l) PROVE OverviewInv'
    <2>1. PICK c \in seen : load' = Settled(l, Listed(c, l), FALSE)
        BY <1>1 DEF Arrive
    <2>2. Listed(c, l) \subseteq Catalogue
        BY <1>0 DEF Listed, In
    <2>3. l = "HybridNetwork" => OwnNetworks(Listed(c, l))
        BY DEF Listed, In, PlatformKinds, OwnNetworks
    <2> QED
        BY <1>1, <2>1, <2>2, <2>3, SettledKeepsInv DEF Arrive
<1>2. ASSUME NEW l \in Lists(mode), Fail(l) PROVE OverviewInv'
    <2>1. mode = "network" => OwnNetworks(load.got["HybridNetwork"])
        BY DEF OverviewInv
    <2> QED
        BY <1>0, <1>2, <2>1, SettledKeepsInv DEF Fail
<1>3. ASSUME GetEntities PROVE OverviewInv'
    <2>1. PICK c \in seen : load' = [load EXCEPT !.phase = "lists", !.tries = 0,
                                                 !.entities = In(c, "Entity", Platform)]
        BY <1>3 DEF GetEntities
    <2>2. In(c, "Entity", Platform) \subseteq Catalogue /\ 0 \in 0 .. RetryAttempts - 1
        BY <1>0, OverviewAssumption DEF In
    <2>3. LoadOK' /\ load'.phase = "lists"
        BY <1>0, <1>3, <2>1, <2>2 DEF LoadOK, GetEntities, Step
    <2>4. mode # "network"
        BY <1>3 DEF OverviewInv, GetEntities
    <2> QED
        BY <1>3, <2>3, <2>4 DEF OverviewInv, GetEntities, Step
<1>4. ASSUME GetAggregate PROVE OverviewInv'
    <2> DEFINE lists == Behinds(load.entities)
    <2>1. PICK at \in [Moving(lists) -> seen], lost \in UNION {[1 .. k -> lists] : k \in 0 .. MaxLost} :
             load' = Settled("aggregate", load.entities \cup Joined(lists \ Range(lost), at), FALSE)
        BY <1>4 DEF GetAggregate
    <2>2. "aggregate" \in Lists(mode)
        BY <1>4 DEF GetAggregate, Lists
    <2>3. load.entities \cup Joined(lists \ Range(lost), at) \subseteq Catalogue
        BY <1>0, JoinedIsListed
    <2> QED
        BY <1>4, <2>1, <2>2, <2>3, SettledKeepsInv DEF GetAggregate
<1>5. ASSUME Retry PROVE OverviewInv'
    <2>1. mode \in {"dashboard", "raw"}
        BY <1>5 DEF Retry, OverviewInv
    <2>2. "aggregate" \in Lists(mode)
        BY <2>1 DEF Lists
    <2>3. CASE load.tries + 1 < RetryAttempts
        <3>1. load' = [load EXCEPT !.tries = @ + 1] /\ Step
            BY <1>5, <2>3 DEF Retry
        <3>2. load.tries + 1 \in 0 .. RetryAttempts - 1
            BY <1>0, <2>3, OverviewAssumption DEF LoadOK
        <3>3. LoadOK' /\ load'.phase = load.phase
            BY <1>0, <3>1, <3>2 DEF LoadOK, Step
        <3> QED
            BY <2>1, <3>1, <3>3 DEF OverviewInv, Step
    <2>4. CASE ~(load.tries + 1 < RetryAttempts)
        <3>1. load' = Settled("aggregate", load.got["aggregate"], TRUE) /\ Step
            BY <1>5, <2>4 DEF Retry
        <3> QED
            BY <1>0, <2>1, <2>2, <3>1, SettledKeepsInv
    <2> QED
        BY <2>3, <2>4
<1>6. ASSUME NEW r \in Volatile, Change(r) PROVE OverviewInv'
    <2>1. cluster' \subseteq Catalogue
        BY <1>6, OverviewAssumption DEF Change, OverviewInv
    <2>2. seen' \subseteq SUBSET Catalogue
        BY <1>0, <1>6, <2>1 DEF Change
    <2>3. LoadOK'
        BY <1>0, <1>6 DEF LoadOK, Change
    <2> QED
        BY <1>6, <2>1, <2>2, <2>3 DEF OverviewInv, Change, OwnNetworks
<1>7. ASSUME PressRefresh PROVE OverviewInv'
    <2>1. load' = [load EXCEPT !.phase = FirstPhase(mode), !.tries = 0, !.entities = {},
                               !.waiting = Lists(mode)]
        BY <1>7 DEF PressRefresh
    <2>2. /\ FirstPhase(mode) \in {"entities", "lists"} /\ (FirstPhase(mode) = "entities" => mode = "raw")
          /\ 0 \in 0 .. RetryAttempts - 1
        BY OverviewAssumption DEF FirstPhase
    <2>3. LoadOK' /\ load'.phase = FirstPhase(mode) /\ load'.got = load.got
        BY <1>0, <1>7, <2>1, <2>2 DEF LoadOK, PressRefresh
    <2>4. seen' \subseteq SUBSET Catalogue
        BY <1>7 DEF PressRefresh, OverviewInv
    <2> QED
        BY <1>7, <2>2, <2>3, <2>4 DEF OverviewInv, PressRefresh, OwnNetworks
<1>8. ASSUME UNCHANGED overviewVars PROVE OverviewInv'
    BY <1>8 DEF OverviewInv, LoadOK, OwnNetworks, overviewVars
<1> QED
    BY <1>1, <1>2, <1>3, <1>4, <1>5, <1>6, <1>7, <1>8 DEF OverviewNext, Answers

\* A page only ever holds resources of the catalogue, in the shape of its mode.
THEOREM OverviewInvariant == OverviewSpec => []OverviewInv
<1>1. OverviewInit => OverviewInv
    BY OverviewInitially
<1>2. OverviewInv /\ [OverviewNext]_overviewVars => OverviewInv'
    BY OverviewKeepsInv
<1> QED
    BY <1>1, <1>2, PTL DEF OverviewSpec

\* The pages are well-formed: what they show was listed, and they wait for nothing
\* they did not ask for.
THEOREM OverviewTypeCorrect == OverviewSpec => []OverviewTypeOK
<1>1. OverviewInv => OverviewTypeOK
    BY DEF OverviewInv, OverviewTypeOK, LoadOK
<1> QED
    BY <1>1, OverviewInvariant, PTL

\* What a page draws is of the catalogue, and of a scope.
LEMMA DrawnIsListed ==
    ASSUME OverviewInv
    PROVE  /\ TopologyItems \in SUBSET Catalogue /\ TopologyScope \in Scopes
           /\ NetworkItems \in SUBSET Catalogue
           /\ TopologyScope # Everything <=> mode = "tenant"
<1>1. \A l \in Lists(mode) : load.got[l] \subseteq Catalogue
    BY DEF OverviewInv, LoadOK
<1>2. Scope \in Scopes /\ Scope # Everything
    <2>1. Scope = <<"entity", Scope[2]>>
        BY OverviewAssumption, TenantNamespace
    <2> QED
        BY <2>1, OverviewAssumption DEF Scopes, Everything
<1> QED
    BY <1>1, <1>2 DEF TopologyItems, NetworkItems, TopologyScope, Scopes

\* However the lists of a load are torn, each resource is drawn once, and edges lead
\* down and never from one tenant to another (nodeKey, resolve, ownerNode).
THEOREM GraphFaithful == OverviewSpec => []GraphIsFaithful
<1>1. OverviewInv => GraphIsFaithful
    <2> SUFFICES ASSUME OverviewInv PROVE GraphIsFaithful
        OBVIOUS
    <2>1. TopologyItems \in SUBSET Catalogue /\ TopologyScope \in Scopes
        BY DrawnIsListed
    <2> QED
        BY <2>1, AnyGraphIsFaithful, Zenon DEF GraphIsFaithful
<1> QED
    BY <1>1, OverviewInvariant, PTL

\* What is listed and has its owner drawn hangs below something drawn, whatever the
\* other lists lack (the edges of ownership).
THEOREM NothingLost == OverviewSpec => []NothingIsLost
<1>1. OverviewInv => NothingIsLost
    <2> SUFFICES ASSUME OverviewInv,
                        NEW r \in OfKind(TopologyItems, IF mode = "tenant" THEN TenantKinds \ {"Project"}
                                                        ELSE CloudKinds \cup {"PlatformOpenshift"}),
                        Owner(TopologyItems, TopologyScope, r) # {}
                 PROVE  \E e \in LiveEdges(TopologyItems, TopologyScope,
                                           Layers(TopologyItems, TopologyScope)) : e[2] = Node(r)
        BY Zenon DEF NothingIsLost
    <2>1. /\ TopologyItems \in SUBSET Catalogue /\ TopologyScope \in Scopes
          /\ TopologyScope # Everything <=> mode = "tenant"
        BY DrawnIsListed
    <2>2. r \in OfKind(TopologyItems, IF TopologyScope # Everything THEN TenantKinds \ {"Project"}
                                      ELSE CloudKinds \cup {"PlatformOpenshift"})
        BY <2>1
    <2> QED
        BY <2>1, <2>2, AnyGraphLosesNothing
<1> QED
    BY <1>1, OverviewInvariant, PTL

\* The diagram and the matrix of the network overview, two translations of the same
\* lists, agree on every page and at every moment of a load (buildTopologyModel, the
\* model of NetworkOverview).
THEOREM ViewsAlwaysAgree == OverviewSpec => []ViewsAgree
<1>1. OverviewInv => ViewsAgree
    BY DrawnIsListed, AnyViewsAgree, Zenon DEF ViewsAgree
<1> QED
    BY <1>1, OverviewInvariant, PTL

\* "A 403 on sovereign-cloud must not blank the page for a tenant": its networks are
\* shown once they are listed, whatever became of the platform's lists.
THEOREM PlatformListsOptional == OverviewSpec => []PlatformListsAreOptional
<1>1. OverviewInv => PlatformListsAreOptional
    <2> SUFFICES ASSUME OverviewInv, mode = "network",
                        {"HybridNetwork", "NetworkPlacement"} \cap (load.waiting \cup load.failed) = {},
                        load.got["HybridNetwork"] # {}
                 PROVE  NetworkScreen = "views"
        BY DEF PlatformListsAreOptional
    <2>1. "HybridNetwork" \in Lists(mode)
        BY DEF Lists, NetworkLists
    <2>2. Networks(NetworkItems, NetworkScope) # {}
        <3>1. PICK n : n \in load.got["HybridNetwork"]
            OBVIOUS
        <3>2. n \in NetworkItems /\ n.kind = "HybridNetwork" /\ n.ns = Scope
            BY <2>1, <3>1 DEF NetworkItems, OverviewInv, OwnNetworks
        <3> QED
            BY <3>2 DEF Networks, OfKind, NetworkScope
    <2>3. ~ NetworkError
        BY DEF NetworkError
    <2> QED
        BY <2>2, <2>3, Zenon DEF NetworkScreen
<1> QED
    BY <1>1, OverviewInvariant, PTL
=============================================================================
